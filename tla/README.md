# php-hiredis in TLA+

Specifications, model-checking runs and machine-checked proofs for
php-hiredis: a PHP extension (`src/redis.c`, `src/library.c`, `src/hooks.c`)
and the hiredis 0.9.0 client library it is built on (`src/hiredis/`).

- [1. The system](#1-the-system): components, state, operations, interactions
- [2. The modules](#2-the-modules): what models what, and the abstractions
- [3. The runs](#3-the-runs): what is checked, with which bounds, and what it shows
- [4. Fairness](#4-fairness)
- [5. The proofs](#5-the-proofs)
- [6. What the code does that its documents do not say](#6-findings)
- [7. Plan](#7-plan) and [8. what is left out](#8-not-modelled)

To repeat the checks, in this directory:

    tlc -workers 2 -config session_batches.cfg HiRedisSession     # any run
    tlapm HiRedisSessionProofs.tla                                # any proof

## 1. The system

A PHP script holds a `HiRedis` object. Each of its methods runs to completion
in the script's only thread; between two calls nothing of the client moves.
The object owns a `RedisSock`, which owns a blocking `redisContext`, which owns
a reply reader. The server works concurrently at the other end of the socket.
The library can also be used from C through an asynchronous context, which an
event loop drives. That is the second concurrent part: user code, event
handlers, the server and the network interleave.

| component | source | state | operations |
|---|---|---|---|
| HiRedis session | `redis.c`, `macros.h`, `php_redis.h` | `mode`, `pipeline`, `multi`, `queue_head/tail`, `multi_head/tail`, `ctx` | `connect`, `close`, the command methods, `pipeline`, `multi`, `exec`, `send` |
| queue and validators | `library.c`, `hooks.c` | list nodes (`redis_command`), zvals | `redis_enqueue`, the `redis_reply_*` validators, the zval-building reply functions |
| context | `hiredis.c` 747-1015, `hiredis.h` | `flags`, `obuf`, `fn`, `reader`, `err` | connect, free, set functions, append, issue, `redisGetReply`, `redisBufferWrite`, `redisBufferRead` |
| asynchronous context | `async.c` | the callback list, `REDIS_DISCONNECTING`, `err`, the hooks | `redisAsyncCommand`, `redisAsyncDisconnect`, the read and write handlers, processing and purging callbacks |
| event loop adapters | `adapters/libevent.h`, `adapters/libev.h` | the watchers | attach, add/del read and write, cleanup |
| reply reader | `hiredis.c` 41-571 | `buf`, `pos`, `len`, the task stack `rstack/ridx`, `reply`, `error`, `fn` | feed, get reply, set functions, free |
| command formatting | `hiredis.c` 573-745 | none (pure) | `redisvFormatCommand`, `redisFormatCommandArgv` |
| argument marshalling | `library.c` 215-286, `redis.c` 332-392 | `z_args` | `redis_varg_run`, `common_incr` |
| connecting | `net.c` | `fd`, the descriptors of the process | connect over TCP or a unix socket, blocking or not |
| dynamic strings | `sds.c` | length, free space and bytes | append, print, copy, range, trim, case, quote, split |

Interactions. A session method appends a command to the context's output
buffer and either reads its reply at once (`REDIS_RUN` in direct mode) or
enqueues a node and leaves reading to `exec()` or `send()`, which walk the
queue and read one reply per node. Nothing but counting links a node to its
reply, so *the queue must match the stream of replies at every point*. Replies
reach the session as zvals, through the function set of `hooks.c` that the
reply reader calls. The asynchronous context uses the same reader and buffers
without blocking; the adapters call its handlers, it calls the adapters' hooks
to arm watchers, and it calls user callbacks, which call it again.

What is hard here, and what correctness means:

* **Session.** Two queues (the pipeline and the commands of a transaction),
  nodes that stand for confirmations (`skip`), for whole transactions (`join`)
  and for single commands, and three flags. Wrong counting shows up much
  later: as a read that blocks for ever, as a reply under another command's
  name, or as a value given to another command's validator. Correct: own
  replies, in order, one per command; never a read the server owes nothing to;
  client and server agree on the transaction; no call waits for ever.
* **Asynchronous context.** Re-entrancy (callbacks issue commands and
  disconnect), one-shot events, partial reads and writes, failures at each
  point. Correct: each accepted command is settled exactly once, in order, by
  its own reply or by NULL; whatever is pending has a watcher; a requested
  disconnect ends; no assertion fails.
* **Reply reader.** It may be stopped and resumed after any piece of input, and
  builds objects in place. Correct: replies come out as they were sent and as
  soon as they are whole; an error is final and frees what was being built.
* **Context.** Each system call may fail, be partial or be interrupted, and a
  user may go on after an error. Correct: what is written and read stays one
  stream in each direction; replies come in the order of their commands; a
  failing connect closes exactly what it opened; NULL means an error is set; a
  call ends.
* **Formatting and marshalling.** Lengths are counted before anything is
  written. Correct: the server reads the arguments the caller meant; the count
  is exact; arrays of arguments have room.
* **Strings.** Room is kept for later appends. Correct: the header tells the truth
  about the memory after any sequence of operations; ranges, splits and quotes
  mean what they should at every edge.

`PROJECT.json` lists the hazards one by one, each at its line and with the
properties that watch it.

## 2. The modules

| module | models | grain |
|---|---|---|
| `HiRedisSession` | the PHP object, its blocking context and the server | one action per method and per read of a reply |
| `CommandSession` | what the object promises a script | abstract; `HiRedisSession!KeepsPromise` |
| `HiRedisSessionProofs` | its types, and what its methods read and return, proved | |
| `HiRedisSessionPromiseProofs` | the refinement of `CommandSession`, proved | |
| `AsyncContext` | `async.c`, the adapters, event loop, server, network | one action per user call, handler and turn of an inner loop |
| `CallbackPromise` | what a context promises to those who issue commands | abstract; `AsyncContext!KeepsPromise` |
| `AsyncContextProofs` | its invariants and the refinement, proved | |
| `ReplyReader` | `redisReader` | one action per item processed |
| `MCReplyReader` | the trees and streams the reader is checked on | |
| `ReplyReaderProofs` | its types, its objects and its errors, proved | |
| `ReplyReaderStreamProofs` | that the replies arrive, proved | |
| `RedisContext` | `redisContext` used from C and `net.c`, with server, network and descriptors | one action per call up to its system call, then one per system call |
| `CommandStream` | what a context promises about replies | abstract; `RedisContext!KeepsStream` |
| `RedisContextProofs` | its descriptors, results, commands, replies and types, and the refinement, proved | |
| `Sds` | `sds.c`: strings with their headers and memory | one operator and one action per function |
| `MCSds` | the texts and separators strings are checked on | |
| `FormatCommand` | `redisvFormatCommand`, `redisFormatCommandArgv`, `redis_varg_run`, `common_incr`, and the server reading a request | one action per byte or conversion of a format and per element of an array |
| `MCFormatCommand` | the formats, vectors and calls formatting is checked on | |
| `SdsProofs` | headers, contents, ranges, tokens and arguments of strings, proved | |
| `FormatCommandProofs` | what formatting and marshalling write, and that the server reads it back, proved | |

**HiRedisSession.** The connection is FIFO, so a command is its sequence number
and four counters (`parsed <= fetched <= served <= sent <= Len(cmds)`) say where
every command and reply is. `queue` is the list from `queue_head`; its nodes
carry the validator, the command they stand for and, for a join node, the list
they hang. `lists` holds every list ever built at `multi_head` and `head` says
which one `multi_head` points at, because join nodes and `multi_head` may alias
(`redis.c:507-511,580`): the MULTI status node of the second transaction in a
pipeline is appended to the list of the first. A zval records the command whose
reply made it, 0 for none, and its type; a zval the code reads without having
set it has type `undef`, and everything the build may do with it is a choice.
`pc` is the method in progress at its next read. Methods that read nothing are
one step. A read or a write may fail because the link is down or, where
`MayInterrupt` says so, because a signal interrupted it; the methods ignore the
failure (`GetReply`), and the reply comes later. Each method that reads is its first step (`Run`, `Multi`, `Exec`,
`Send`), then per reply the steps of `redisGetReply` on a blocking context
(`Flush`, `Fetch`, and the consuming action). One command method stands for
those with the same validator and reply type. `pc = "dead"` is a crash or
undefined behaviour. `Avoid` names calling patterns a script may keep clear of;
with the empty set the script is arbitrary:

| pattern | what the script does |
|---|---|
| `staleQueue` | a direct `multi()` when earlier direct calls left nodes in the queue |
| `strayExec` | `exec()` outside a transaction |
| `emptyPipelinedTx` | `exec()` of a pipelined transaction without commands |
| `queuedHmget` | `hmget()` in a pipeline or a transaction |
| `useAfterClose` | calling a method after `close()` |

**AsyncContext.** User code runs at `pc` "idle" (between events), "callback" and
"nullCallback" (inside a callback, of a reply or of the purge); everything else
runs on to the next call of user code. `calls` is the history of shifted
callbacks. `rd` and `wr` say whether a watcher is armed; a libevent event is
spent when it fires and the code must add it again (`Fired`, `Add`). A read
takes any number of whole replies and perhaps a piece of the next; a write
completes any number of whole commands, none included. The `Avoid` habits are
`hastyDisconnect` (disconnecting with replies outstanding), `idleDisconnect`
(outside a callback) and `earlyCommand` (before an adapter is attached).

**ReplyReader.** A reply is a tree and the stream a sequence of cells: a type
byte, a line, a bulk's body. A cell that arrived in part has not arrived, which
is what `readBytes`, `readLine` and the bulk test implement; where inside a cell
a piece ends makes no difference to them. `heap` keeps every object created,
so lost and doubly freed objects can be told. `len` is kept apart from the
buffer because an error empties the buffer and leaves `len` (`hiredis.c:490`).
A cell that is met where a type byte is due counts as a bad byte. Replies are
finite trees (`ReaderAssumption`). `Answerable` and `Errorless` say what callers
without functions may be sent; `MCReplyReader` assumes both, so TLC evaluates them.

**RedisContext.** Command i and reply i are the units 2i-1 and 2i, so that a
write or a read may cut either in its middle; unit 0 is what is no reply. A
call is its first step (`Connect`, `Command`, `GetReply`, ...) and then one step
per system call, each of which may fail. `open`, `kept` and `badClose` follow the
descriptors of the process, 0 being open from the start: `socket()` hands out
the lowest free one and fails when there is none, so a leak shows. The reply
reader is here only what the context can tell of it, including that an error
empties the buffer but not `len`; its inside is `ReplyReader`. A user looks at
`err` after connecting, asks for no reply that is not owed on a blocking
context, and otherwise goes on as he likes, after errors too. Contexts come one
after the other.

**Sds and FormatCommand.** The buffer of a string is modelled byte by byte, with
`JUNK` for bytes nothing has written; a copy past the end makes it longer than
the header allows. `len` and `free` of a header are ints that are set from and
read as `size_t`s (`sds.h:40-41`, `sds.c:53,72-89,114,126-127,138`), and the length
of a command is one too (`hiredis.c:591,604,720,726`): `ToInt` and `ToSize` wrap a
number to the width of its type wherever the code stores or converts one.
`IntMax` and `SizeMax` are the largest of each and `PrintBuf` the first buffer
size of `sdscatvprintf`; they are small so that their edges come up. A caller
makes no text longer than `MaxLen <= IntMax`; room and commands may be larger
than an int can say. Beyond that see section 6. A format is
a sequence of tokens, each a byte or a conversion with the argument `va_arg`
takes for it; numbers come as the text `printf` makes of them. The argument
under construction is the string `s` of `Sds`, so formatting runs on its
operators.

## 3. The runs

| run | expects | shows |
|---|---|---|
| `session_batches` | pass | a script free of the five patterns, with any mix of direct calls, pipelines, several transactions in a pipeline and reconnecting, over a connection that may drop at any step: `NeverStarves`, `QueueMatchesReplies`, `NothingThrownAway`, `RunAnswered`, `ModesAgree`, that it implements `CommandSession` (`KeepsPromise`), and `NoEndlessWait` |
| `session_validators` | pass | every kind of validator, a server that answers errors: `NoFault`, and no value is rejected unless the server sent an error (`NoValueRejected`) |
| `session_careless` | pass | an arbitrary script, refused MULTI, malformed commands, lost connections, interrupted reads and writes: `TypeOK`, `ResultsInOrder` |
| `session_second_tx` | violation | see findings |
| `async_context` | pass | a connection that may be closed, reset or garbled, a user who disconnects from a callback with nothing pending: `NoAbort`, `KeepsPromise` (implements `CallbackPromise`), `EveryCommandEnds`, `DisconnectEnds` |
| `async_careless` | pass | disconnecting at any time, a server that sends unasked messages: `TypeOK`, `Settled`, `Watched` |
| `async_hasty` | violation | see findings |
| `reader_pieces` | pass | two replies of every shape, the second possibly broken or too deep, fed in all possible pieces, with and without functions: `TypeOK`, `RepliesAsSent`, `NothingLost`, `NoCrash`, `AnswersPromptly`, `ErrorIsFinal`, `ErrorFreesAll` |
| `strings` | pass | every string any sequence of operations makes, up to the longest an int can count, with room that `free` cannot say: `HeaderSound`, `TextArrives`, `RangeExact`; and with quotes, blanks, newlines and NULs in it, `SplitsBack`, `ArgsReadBack` |
| `commands` | pass | every format, vector, increment and PHP call, commands longer than an int can count among them: `ArgumentsArrive`, `LengthExact`, `InsideArgs` |
| `commands_one_array` | violation | see findings |
| `context` | pass | every system call may fail or be interrupted, reads and writes are cut anywhere, the connection may be closed, reset or garbled: `TypeOK`, `CommandsInPlace`, `RepliesInPlace`, `DescriptorsAccounted`, `NullMeansError`, that it implements `CommandStream` (`KeepsStream`), and `CallsReturn` |

The violation runs of the session and of the asynchronous context leave one
pattern unforbidden that the corresponding passing runs exclude;
`commands_one_array` calls with one array of several elements, which `commands`
does not. Every
property of a passing run has a mutant in the module, marked `Mutant:`, that a
plausible slip in the code would amount to and that makes TLC find the property
violated.

Bounds, and why they are enough:

* `MaxCmds` (commands per connection, MULTI and EXEC included): 7 in
  `session_batches`, enough for two transactions of one command each in one
  pipeline, which is where lists alias, and another command before, between or after; 4
  to 6 elsewhere, enough for a transaction with two commands between MULTI and
  EXEC or for a pipeline of every mix. `Ops` is one command where only counting
  matters and one per validator where validators matter (`hgetall` with `hmget` and the plain types).
* `AsyncContext`: three commands, so that a callback has a command before and
  one after it; two where the server pushes extra messages, `2 * MaxCmds` of
  them at most. Reads and writes of every size are choices, not bounds.
* `MCReplyReader`: streams of two replies out of every leaf type, empty, flat and
  nested arrays, so that the second reply shows what the first left behind.
  Depth is bounded by the code itself (three tasks).
* `RedisContext`: three commands, so that one is being written while another is
  answered and a third waits; socket buffers of one command (`Cap` = 2), so that
  writes and replies are cut at every place and block; descriptors up to 2, so
  that the third context finds none left.
* `MCSds`: strings of up to four bytes over all classes of byte that `sds.c` tells
  apart, with texts of up to three bytes to append; ints of -7 to 6, so that room
  doubled to eight bytes makes `free` wrap while a quoted text of one or two bytes
  still fits; separators of one and two bytes.
* `MCFormatCommand`: ints of -77 to 76; formats of up to five tokens of the four
  kinds that decide where arguments end and up to three of all kinds, and
  vectors of up to three arguments; one argument of ten bytes and one command of
  ten arguments, where `intlen` makes its first step; commands of just what an
  int can count, one byte more, and so long that their length wraps to a small
  number; increments from below the smallest int to above the largest.

`CHECK_DEADLOCK FALSE`: a script may end, a context is freed, a stream is used
up; all of these are places where the system really stops.

## 4. Fairness

`HiRedisSession!FairSpec`: weak fairness of the steps of the method in progress
(`Progress`: one thread that either computes or sits in a `read` that returns
when data or EOF arrives) and of the server's `Serve`. The script is not fair:
it owes no call.

`AsyncContext!FairSpec`: weak fairness of what runs to completion in the thread
(`Return`, `Process`, `Purge`) and of the server. Strong fairness of the two
handlers, since other events come in between and an armed and ready watcher is
disabled while they run: libev and libevent poll every armed descriptor each
turn. The write handler is fair only in its steps that make progress: a socket
that is writable takes at least one byte. The user owes no command or
disconnect and the network no failure.

`RedisContext!FairSpec`: weak fairness of the steps of a call in progress
(`Connecting`, `Flush`, `Wait`: one thread in a system call that returns when it
can), and of the server and the network (`Receive`, `Send`). Redis reads on
while it has output pending, so `Receive` does not wait for `Send`. No signal
has to come (`Interrupted`) and no user has to call.

## 5. The proofs

Checked by TLAPS, for all values of the constants: any set of commands,
failures and patterns, any number of commands, replies and contexts, buffers of
any size, replies of any shape. Every action has a lemma of its own. Each
inductive invariant was an invariant of a TLC run before it was proved.

### HiRedisSession

* `TypeCorrect`: `Spec => []TypeOK`, from `SessionAssumption` only (the constants
  are what their comments say). It shows among others that `at` never leaves the
  queue in `exec()` and `send()`, that lists named by nodes exist, and that
  `parsed <= fetched <= served <= sent <= Len(cmds)`.
* Five theorems `Careful => (Spec => []P)` with `P` one of `NeverStarves`,
  `QueueMatchesReplies`, `NothingThrownAway`, `RunAnswered` and `ModesAgree`.
  `Careful` says that the script keeps clear of `staleQueue` and `strayExec`, that
  the server does not refuse MULTI and that no signal interrupts a read or a write
  (after one, replies are a call late, see section 6). It is weaker than what the runs assume:
  hmget may be queued, an empty pipelined transaction executed and a closed
  object used, and the connection may be lost. Each condition is needed: the run
  `session_second_tx` drops the first, and TLC finds `QueueMatchesReplies` violated
  when any of the others is dropped.

  None of the five is inductive: that a read is owed depends on what the queue
  holds, which depends on how the last batch was ended. `IInv` adds to `TypeOK`
  `ServerInv` (the server's state is a function of the commands it has served:
  `Opened(k)` says whether the first k leave a transaction open, and `inTx` equals it
  at `served`), `Rests` (between two calls: in each combination of `mode` and
  `pipeline`, how many replies are owed, whether the issued commands leave a
  transaction open, and that `multi` agrees with `mode`), `Reads` (while a method reads,
  what is left of its loop is what is owed) and `Lost` (the only other case: the
  link is down and every reply that came was parsed).
* `OrderKept`: `Spec => []ResultsInOrder`, for every script and server, interrupted calls
  included. `OrderInv` adds that reply i is of command i and its elements rise
  (`ReplyInv`), that the server's queue rises (`TxqInv`), and that what `exec()` or `send()` has gathered is of commands
  up to `parsed` (`OutInv`).
* `NoFaults` and `RefusalsAreTheServers`: `NoFault` and `NoValueRejected` under `Clean`: the
  script avoids all five patterns, the connection holds, no call is interrupted, no
  command of the script is malformed, and neither MULTI nor `setnx` fails. The last
  is there since
  `redis_reply_long_as_bool_` takes no error (`library.c:296`); without the others
  TLC violates one of the two. The invariant `FInv` follows a command
  from its validator in a list to its reply: MULTI and EXEC alternate in `cmds`
  (`WellFormed`), the server's queue holds the commands since MULTI (`RightTxq`), a
  reply holds what its command, or its transaction, can be answered (`RightReplies`),
  each node of a pipeline carries the validator of its command or the list of its
  transaction (`RightQueue`), and the list under construction has the validators of the
  open transaction (`RightList`). `Tx(s, m, n)` says that a transaction stands at m .. n
  of a sequence of commands, and the lemmas about it carry `Fits` and `RightReply` over
  to longer sequences.
* `PromisesKept`: `Tidy => (Spec => KeepsPromise)`, that the object implements
  `CommandSession`. `Tidy` is `Clean` without its condition on the connection, which may be
  lost at any step, and is what `session_batches` assumes. While the link is up the
  invariant is `IInv`, `FInv` and `GInv`; once it is down only `IInv`, and every step
  but `connect()` and `close()` is a `Drift` of `CommandSession`. `GInv` relates the lists to
  the numbers of commands where `FInv` relates them to validators: the list of a join
  node names the commands of its transaction in their order and behind them nothing
  but the status nodes of later MULTIs (`JoinNumbers`), so does the list under
  construction (`HeadNumbers`), which is no join node's while a transaction is open,
  and what `send()` has gathered is what it owes for the nodes it has passed
  (`SentSoFar`). The aliasing of `redis.c:507-511,580` is harmless to a tidy script for
  just this reason: all that is added to a list already hung is one status node,
  and the array of its transaction is shorter by one. What is owed for a queue is
  `FlattenSeq` of what each node wants; `FlattenAppend` gives what it does to one more
  element without induction, from the least index at which two prefixes differ.

### AsyncContext

* `TypeCorrect` and `FreedSettled` need no assumption on user, server or network. For
  `Settled`, `ListInv` says that the callbacks run and the callbacks that wait are together
  the commands 1 .. issued.
* `WatchersArmed` proves `Watched` for users who attach an adapter before the first command
  (`earlyCommand`): a context without adapter has nowhere to arm a watcher. `WatchInv` extends
  the property into callbacks and the inner loop.
* `NeverAborts` proves `NoAbort`, and `PromiseKept` that the context implements
  `CallbackPromise` (initial states to initial states, each step to one step or a
  stutter), for users who do not disconnect with replies outstanding and servers
  that answer each command once; `async_hasty` shows the first is needed. `AnswerInv`
  adds which replies there are (`Answers`), which were handed to which callback (`Given`)
  and what is settled while the context serves, purges or is freed (`Mode`).

### RedisContext

From `ContextAssumption` only:

* `DescriptorsSafe`, `NullSafe`, `FunctionsSafe` and `CommandsSafe` prove `DescriptorsAccounted`,
  `NullMeansError`, `OneFunctionSet` (the functions of a context are its reader's,
  stated in this module and in no run) and `CommandsInPlace`. The first needs to know
  where in `redisContextConnect*` a call is: `DInv` says that the local `s` is a descriptor
  this call opened and no context owns, exactly at the steps between `socket()` and the
  end, and that `fd` is unset until then. The second adds that a call in its read or
  write loop is one of a blocking context. `OneFunctionSet` needs that a context
  without a reader has an unset one. For the fourth, `CInv` says for each of the four
  places a command's units may be (`request`, `toServer`, `obuf`, or served) which indices
  of the whole stream it holds (`Placed`, `Follows`): this form is preserved by taking from
  the front of one sequence and appending to the next, and gives back the
  equality of sequences that `CommandsInPlace` states.
* `RepliesSafe` proves `RepliesInPlace`, stated as an equality of sequences with one stray
  unit allowed between two replies. Its invariant `InPlace` has the index form again:
  unit k of the stream is `Unit(z, k)`, z being where the stray unit stands, if anywhere.
* `TypesSafe` proves `TypeOK` from the conjunction of all invariants of the module.
* `StreamKept`: `~NullErrors => (Spec => KeepsStream)`, that a context implements `CommandStream`.
  With `NullErrors` an error reply has the object NULL, `redisGetReply` takes it and goes
  on reading, and the refinement is false (section 6).

### ReplyReader

* `ReplyReaderProofs`, from `ReaderAssumption` only: `TypeCorrect` (`TypeOK`), `ObjectsKept`
  (`NothingLost`), `ErrorFrees` (`ErrorFreesAll`) and `ErrorLasts` (`ErrorIsFinal`:
  nothing more is handed out and the error is never cleared). `NothingLost` accounts for
  every object only until an error or the end of the reader: what the parser
  completes after an error is dropped without being freed (`hiredis.c:553,564-565`). The invariant `MInv`
  has four parts. `RType` says that `len` is the length of the buffer, or stale after an
  error, when nothing can be parsed; `Levels` that the arrays on the task stack
  are partly filled, each element before the index there and each behind it not
  yet; `Acyclic` that an object names only younger ones; `Kept` that reachable,
  handed-out and freed objects are disjoint and, until an error, the first two
  together all there are.
* `ReplyReaderStreamProofs`: `RepliesArrive` (`Answerable => (Spec => []RepliesAsSent)`),
  `NoReplyHeldBack` (`Answerable => (Spec => AnswersPromptly)`) and `NeverCrashes`
  (`Answerable /\ Errorless => (Spec => []NoCrash)`). A caller without functions gets a
  type code for a reply and the code of an error is NULL, so it cannot tell one
  from no reply; and a protocol error frees through the function set without
  testing it (`hiredis.c:487`). The two hypotheses keep such callers from both and
  say nothing of callers with functions.

  The invariant `Sync` knows of the stream what the code does not. `Lies(s, t, b)` says
  that the encoding of t begins behind cell b of s. From the emitted replies and
  the indices on the task stack it follows which reply of which array the reader
  is in and where that begins (`NodeAt`, `StartAt`), and `Sync` says that the cursor is there
  (`Between`, `Within`), that the buffer is the stream up to what was fed (`Following`), and that
  what was built stands for what was read (`Branch`, `Whole`). "Stands for" relates an object
  of the heap to a tree; it is the largest relation that agrees on type, value
  and elements (`Stands`), so no recursion is needed to use it.

  Trees and encodings are recursive functions. What the proof needs of them is shown
  by the least counterexample instead of an induction rule: a set of numbers that
  is not empty has a least element (`Least`, from the well-foundedness of < on Nat), and
  a set of trees that is not empty has one with no element in the set, which
  `ReaderAssumption` says when it says that replies are finite.

### Sds and FormatCommand

From `SdsAssumption` and `FormatAssumption` only, except where noted:

* What is assumed of numbers is that an int holds `-(IntMax + 1) .. IntMax`, that a
  `size_t` is as wide as an int or a multiple of it, and that the caller makes no text
  longer than `MaxLen <= IntMax`. Room, and the length of a command, are not so
  limited: they wrap as in the code.
* `HeadersSound`, `TextsArrive` and `RangesExact` prove `HeaderSound`, `TextArrives` and
  `RangeExact` of the strings any sequence of operations makes (`Spec` of `Sds`), and
  `FormatHeadersSound` proves `HeaderSound` of the argument under construction
  (`FormatSpec`). The invariant is `s \in SoundStrings`: the room is at most `2 * IntMax`
  bytes and the terminator, `free` is what is left of it, as an int says it, nothing beyond
  it was written, and the byte at `len` is the terminator. A negative `free` is harmless
  here since there is then more room than an int can count, which is more than
  any text needs. Each function has a lemma that says what it makes of a sound
  string, `sdscatrepr` by following its fold byte by byte.
* `TokensSplitBack` proves `SplitsBack`. The loop of
  `sdssplitlen` is followed place by place (`SplitUpTo`): the tokens found so far, joined
  with the separator and what follows them, are the text up to that place, no separator
  begins at a place passed by in the token under construction, and there is a slot for
  one more token.
* `WordsReadBack` proves `ArgsReadBack`. `ArgLeads(p, x, q)` says that
  from the state p the bytes x lead `sdssplitargs` to the state q, and such readings
  compose. For a quoted text `QuotedReads` follows `sdscatrepr` byte by byte, what it appends
  being what leads to one byte more. For a line without quotes `ReadUpTo` says what
  was read up to a place: the words that have ended, the n-th of them being the one
  with n - 1 starts of words before it (`Rank`), and between two words nothing else
  (`Between`) or a piece of the word that was begun (`Inside`).
* `LengthsExact` proves `LengthExact`. `FInv` is the conjunction of the types (`TInv`), of which
  array is being copied and that there is room for it (`CopyInv`), of `LenInv`: the
  length counted so far is what the arguments so far take, as an int says it, and a
  command that fails is longer than an int can count, and of `RoomInv`: the argument under
  construction is no longer than what was scanned of the format. `ArgsInside` proves `InsideArgs`
  for callers who pass no array of several elements as the only argument
  (`NoLoneArray`); `commands_one_array` shows that it is needed.
* `ArgumentsReadBack` proves `ArgumentsArrive`: the server reads, from every command that was
  built, the arguments the caller meant. The argument has two halves. For the server,
  `Reads(p, x, q)` says that from the state p it comes to the state q by reading the bytes
  x, whatever follows them; such triples compose (`Line`, `Bulk`, `Encoded`), and the text made for
  any arguments is read back as those arguments (`EncodedReads`). For the client, `ArgsInv`
  follows the format: while it is scanned, the tokens passed so far are gathered
  into whole arguments and one under construction (`Scanned`), `argv` holds the former and
  `s` the bytes of the latter, an empty one is known only by `interpolated`; while an array
  is copied, `argv` is what stood there before and the first elements of the array; and
  what is collected in the end is what was meant if it fits (`Wanted`, `Fits`).

Numerals, folds and the server's loop compute by recursion over data. Here too it is
replaced by what holds at the least counterexample: a fold is a sequence of
intermediate results (`IsTrace`), each made from the one before, of which any two
agree (`TracesAgree`).

Only model-checked, and why:

* `NoEndlessWait`, `EveryCommandEnds`, `DisconnectEnds`, `CallsReturn`: liveness under fairness is
  out of reach of this prover.

Every invariant and every refinement that a passing run checks is proved.

## 6. Findings

| run | what the code does |
|---|---|
| `session_second_tx` | A direct call leaves its node in `queue_head`; `exec()` then skips one confirmation too many, takes the EXEC reply for it, and blocks for ever (`redis.c:533`). A commented-out test (`test.php:189-193`) expects a second transaction to work. |
| `async_hasty` | `redisAsyncDisconnect` with replies outstanding makes `async.c:152` fail its assertion; `hiredis/README.md:268` promises that replies are waited for. |
| `commands_one_array` | A method called with one array writes all its elements into a `z_args` made for one (`library.c:230,250,262`), as `tests/getmultiple.phpt:18` does. |

Seen while modelling, without a run of its own:

* A queued `hmget()` has no `z_args`, which its validator indexes (`library.c:161`;
  commented-out test `phpunit/TestRedis.php:2305,2328`). Removing `queuedHmget` from `Avoid`
  in `session_validators.cfg` makes TLC violate `NoFault`.
* `redisAsyncDisconnect` with nothing pending, outside a callback, is never noticed
  (`async.c:136`; `hiredis/README.md:270`; the comment at `async.c:131` says it is
  "generally called from within a callback"). Removing `idleDisconnect` from
  `async_context.cfg` makes TLC violate `DisconnectEnds`.
* With NULL functions, which `hiredis/test.c:270` exercises, a protocol error
  inside an array calls through NULL (`hiredis.c:487`); and an error reply, whose
  object is NULL, is swallowed by `redisGetReply` on a blocking context, which
  then waits for another reply (`hiredis.c:923`; `NullErrors = TRUE` in
  `context.cfg` makes TLC violate `KeepsStream`).
* An empty argument is dropped unless it is the last one: `set('', 'v')` sends
  `SET v` (`hiredis.c:617`). The delta of `incrBy()` is cut to an int
  (`redis.c:356`). `ArgumentsArrive` says so in `ArgumentsOf` and `Fits`.
* `redisFree` closes the socket only under `REDIS_CONNECTED` (`hiredis.c:770`), which
  nothing sets, although `hiredis/README.md:124` says that it "immediately closes
  the socket". Adding the invariant `DescriptorClosed` to `context.cfg` makes TLC
  violate it.
* `err` of a context is never cleared. After an interrupted read on a blocking
  context the reply that was awaited is the next one to come: a caller who goes
  on, as the PHP object does, gets replies in order but one call late, or never if
  the reply comes together with another and the next method replaces the reader.
  `session_careless` interrupts reads and writes and checks that the order is
  kept; `MayInterrupt = TRUE` in the other runs makes TLC violate
  `QueueMatchesReplies`, `NothingThrownAway`, `RunAnswered` and `ModesAgree`, and `NoFault`
  and `NoValueRejected`.
* `sdscatrepr` appends the backslash alone for a newline and its like, because
  the length it passes is 1, and `sdssplitargs` does not read `\xNN`, although
  `sds.c:401` says that it parses what `sdscatrepr` writes. `sdstrim` trims NULs
  whatever the set; and `sdsrange` with a start at or past the end keeps the last
  byte.
* Beyond `INT_MAX` nothing is promised, and the specifications stop short of it. `len`
  and `free` of a string are ints (`sds.h:40-41`). A text longer than that makes `len`
  negative, and `sdslen` a huge number of it; `sdsrange`'s indices wrap. Already when room
  is doubled past `INT_MAX` (`sds.c:114`) `free` may become negative: `sdsavail` makes
  a huge number of it, so `sdsMakeRoomFor` reallocates no more (`sds.c:103`). Texts an int can count
  still fit, as the proofs show; the first that does not is copied past the end
  of the memory. The length of a command is an int as well, and so is the number
  `intlen` is given (`hiredis.c:574,604,720`): a command of `INT_MAX` bytes makes `totlen + 1`
  negative, so `malloc` fails and `redisOOM` exits; a longer one does so too or, where
  the sum wraps to a small number, is written past the end of what was allocated,
  which the assertion does not notice in time, `pos` being an int that wraps with it
  (`hiredis.c:672,683`). `LengthExact` says "less than `INT_MAX`" for this reason.

## 7. Plan

Done, in this order: `HiRedisSession` with `CommandSession`; its type and safety
proofs; `AsyncContext` with `CallbackPromise`; `ReplyReader`; `Sds` and
`FormatCommand`; `RedisContext` with `CommandStream`; the proofs about
`AsyncContext`, `RedisContext` and what the session returns, with the refinements of
`CallbackPromise` and `CommandStream`; the proofs about `ReplyReader`; the refinement of
`CommandSession`; the proofs about `Sds` and `FormatCommand`.

Of what the passing runs check, only the liveness properties are without a proof.

## 8. Not modelled

Texts longer than `INT_MAX` (section 6). Memory exhaustion (`redisOOM` exits, `sds.c` aborts or returns NULL); PHP's
argument parsing and module boilerplate; `printf` of errors and `errstr`; build
files, examples, the tests themselves. Of `sds.c`, `sdscmp`, `sdsfromlonglong`
and `sdsfreesplitres`, which change no string. `RedisSock.multi_commands`, which
nothing reads. Leaks of memory other than reply objects (replaced readers, list
nodes marked TODO in `redis.c`) are noted as hazards, not modelled. Bytes
within a line or a bulk, and so `readLongLong` on malformed digits, are
abstracted to cells in `ReplyReader` and to units in `RedisContext`. Several
contexts at a time in one process share nothing but the table of descriptors,
which `kept` stands for. The event loop's own timers and signals do not appear
in this code.
