# Matreshka in TLA+

Matreshka is a set of Ada libraries: League (Unicode strings, containers,
JSON, codecs, settings, regular expressions), XML (SAX, DOM, catalogs,
templates), SQL (database access), Web (FastCGI, servlets, SOAP) and AMF, with
a C program among its tests, the regular expression test harness.
This directory holds TLA+ models of its core, the TLC runs that check them and
TLAPS proofs about them. `PROJECT.json` lists the components, the runs, the
source lines each definition stands for, what was found and what is proved.

Sources named below are under `src/source/`, the harness is
`src/testsuite/league/ataresearch/testregex.c`.

## The system

| Part | State it keeps | Operations | Hard behaviour | What makes it correct |
|---|---|---|---|---|
| Shared strings (`league/matreshka-internals-strings*`) | segments: counter, text, capacity, index map | `Reference`, `Dereference`, `Allocate`, `Can_Be_Reused`, `Compute_Index_Map`, edits | used by several tasks at once, protected only by an atomic counter and an atomic pointer; edits in place when the counter is one | counters cover references, nothing dangles, an edit in place is alone, values are independent |
| `Universal_String` (`league/league-strings`) | `Data`, a list of cursors | assignment, finalization, `Append`, `Prepend`, `Replace`, `Slice`, conversions, cursors | aliasing of Self and operand; UTF-16 index arithmetic; cursors that follow edits | each call changes its object only, and as documented |
| String and stream element vectors, holders, JSON (`league/`) | counted containers of counted values | copy-on-write edits at each level | two levels of counters; a container taken apart while another task releases it | as for strings, at both levels |
| Text codecs, JSON parser, regular expressions, calendars, Unicode algorithms (`league/`) | decoder state, automata, tables | pure or incremental functions | chunk boundaries, malformed input, table lookups | result equals that of the whole input |
| SQL objects (`sql/`) | driver database and queries: counters, a doubly linked list of queries | create, copy, finalize | objects end in any order; the last query closes the connection | counters exact, list consistent, connection outlives statements |
| SQL drivers (`sql/sqlite3` and others) | statement handle, `Is_Active`, `Has_Row`, `Skip_Step`, parameters | `Prepare`, `Bind_Value`, `Execute`, `Next`, `Finish`, `Value` | a statement already stepped by `Execute`; failures in the middle; retries | each row once and in order; values read only on a row; bound values are those used |
| SAX reader and writers (`xml/sax`) | parser and scanner stacks, namespace and base scopes, entity tables, input buffers | incremental parsing, callbacks | nested entities, scopes, input in pieces | scopes balanced; events equal those of the whole document |
| DOM (`xml/dom`) | nodes on intrusive lists (children, attributes, detached) | create, append, remove, set attribute, build from events | moving a node between lists | the tree stays a tree, each node is on one list |
| FastCGI (`web/fastcgi`) | a global descriptor, or one per request | accept, receive a record, call back, reply | connections that end in the middle of a request; multiplexed and aborted requests; records in parts; exceptions and restarts; output before the parameters are complete | one answer per request, no state left from the one before, output in order |
| Servlet containers (`web/spikedog`) | registered servlets and listeners, the mapping tree, sessions | register, start, dispatch, shut down | shutdown during requests; sessions looked up more than once | the right servlet by path; a session found or made once |
| Regular expression test harness (`testregex.c`) | option and line bits, blocks to skip, counters, the compiled pattern, the alarm and the signal mask | read a line, compile, match, judge, free; signals | calls that fault or never return are left by `longjmp`; blocks nest; one line is tested in several modes and twice in each | a wrong answer counted once, by the right counter, and no other; patterns freed; the next call works after an interruption |
| SOAP, WSSE, OPM, AMF, UAFLEX, tools | | | thin layers, generated code or build tools | |

The parts call each other downwards only: all of them hold `Universal_String`
values; SQL, XML and Web use vectors and holders; the Web part feeds requests to
servlets and SOAP, and SOAP to the SAX reader. What is shared between *tasks*
without a lock is the counted data of League alone. Callbacks (SAX handlers, DOM
builder, FastCGI handler, servlets) run in the task that calls the library.

## Modules

| Module | Models | Uses |
|---|---|---|
| `SharedStrings` | `matreshka-internals-strings(-operations).adb` and the calls of `league-strings.adb` that change segments, between tasks | |
| `SharedStringsInvariant` | the inductive invariant of `SharedStrings` | extends it |
| `SharedStringsProofs` | theorems of `SharedStrings`, with that it implements `StringValues` | extends the invariant and the mapping |
| `StringValues` | abstract: strings as independent values | |
| `StringsRefinement` | the mapping from `SharedStrings` to `StringValues` | both |
| `StringVectors` | `matreshka-internals-string_vectors.adb`, `league-string_vectors.adb`: counted vectors of counted strings, between tasks | |
| `StringVectorsInvariant` | the inductive invariant of `StringVectors` | extends it |
| `StringVectorsProofs` | theorems of `StringVectors`: the counters of the vectors | extends the invariant |
| `VectorStringsProofs` | theorems of `StringVectors`: the counters of the strings, and that it implements `StringValues` | extends `StringVectorsProofs` and the mapping |
| `VectorsRefinement` | the mapping from `StringVectors` to `StringValues` | both |
| `SqlDrivers` | `sql-databases.adb`, `sql-queries.adb`, `matreshka-internals-sql_drivers.adb`: objects, counters, the list of queries | |
| `SqlCursor` | abstract: the rows a query goes through | |
| `SqliteQueries` | `sqlite3/*-databases.adb`, `sqlite3/*-queries.adb` over a model of the SQLite library | extends `SqlDrivers`, implements `SqlCursor` |
| `LinkedLists` | lemmas about doubly linked lists, for those of `SqlDrivers` and of `DomTree` | |
| `SqliteQueriesProofs` | theorems of `SqliteQueries` and of the objects and the list of `SqlDrivers`, with that it implements `SqlCursor` | extends `SqliteQueries` and `LinkedLists` |
| `DomTree` | `matreshka-dom_lists.adb`, `-nodes.adb`, `-elements.adb`, `-attributes.adb`, `-documents.adb`: nodes on linked lists | |
| `DomForest` | abstract: ordered lists of nodes, and the place of what is read | |
| `DomBuilder` | `matreshka-dom_builders.adb`, a client of the DOM | extends `DomTree`, implements `DomForest` |
| `DomTreeProofs` | theorems of `DomTree` and `DomBuilder`, with that they implement `DomForest` | extends `DomBuilder` and `LinkedLists` |
| `TestRegex` | `testregex.c`: `main` and its helpers over a POSIX `regex(3)`, signals and the alarm | |
| `TestRegexProofs` | theorems of `TestRegex` | extends it |
| `FastCgi` | `matreshka-fastcgi-server.adb`, `-streaming_server.adb`, `-descriptors.adb`, with the web server, the network and restarts | |
| `FastCgiProofs` | theorems of `FastCgi`: types, output, what a callback sees | extends it |
| `MC*` | model values and symmetry for TLC | |

### SharedStrings

`data[v]` is the `Data` component of the `Universal_String` v; `live`, `counter`,
`value`, `capacity` and `indexMap` are the heap of `Shared_String` segments;
`call[t]` is what task t is doing. A call starts with a step that does all the
code does before its first access to a cell other tasks may access (a counter, an
index map, allocated memory), and goes on with one step for each such access:

* `drop` (atomic decrement), `free` (deallocation), `bind` (assign Self and
  increment) for calls that share a segment;
* `edit` (store the text and free the index map) after `Can_Be_Reused` has read
  the counter, with other tasks free to act in between;
* `copy` (store the text into a new segment, assign Self), then `drop` of the old
  segment;
* `publish` for the compare-and-swap of `Compute_Index_Map`.

The order is that of the code: `Append` of a string to an empty one, `Replace` by
a whole text and `Finalize` release the old segment before they take the new one,
the copying edits after it, and procedure `Slice` references its own segment
before it releases it. A text is a sequence of characters and a capacity counts
characters, so `Length` and `Unused` are one number here.

Ada's rule for shared variables is the one thing assumed of the program
(`MayWrite`, `MayRead`): no task uses a `Universal_String` while another one is
changing it. Different objects with one segment are not restrained, and that is
what the library promises to make safe. `Append (Code)` can raise
`Constraint_Error` in the middle (`RaiseInAppend`). Its Self is an access value,
passed by copy, which an exception does not copy back: the object keeps its segment
and its text, and nothing refers to the new segment any more. A task that meets it is
followed no further, and its call goes on to stand for the reference that is lost;
which is why deadlock is not checked where it can happen.

### StringVectors

`data[v]` is the `Data` component of the `Universal_String_Vector` v; `live`,
`counter`, `last` and `value` are the heap of `Shared_String_Vector`s; `strings` has
the counters of the strings, whose text is abstracted to which string it is, and
`held` the strings the program has a `Universal_String` of. The calls are cut into
steps at the same accesses as in `SharedStrings`, and `call[t].pc` names the next:

* `look` and `copy`, or `look` and `move`: the second look of `Detach` at the counter
  of the vector it has copied, and what follows from it: strings referenced one by
  one and the old vector dereferenced, or the old vector freed without its strings;
* `drop`, `strings`, `free`: `Dereference`, string by string;
* `bind` and `store`: Self assigned, or the item stored, and then `refer` or
  `spread`: the item's strings referenced, in the order of the code, which for
  `Append`, `Replace` and `Prepend` is after they are stored, for `Insert` before;
* `slice`: the loop of function `Slice`.

`Prepend`'s operand is the vector that `Item.Data` designated at the call (an access
value passed by copy), so that a `Detach` that replaces `Self.Data` does not change
it: that is what goes wrong in `vectors_self_prepend`. `Append` of a vector is a
sequence of calls of `Element` and `Append` and needs no action; streams and
comparisons change no state.

### SqlDrivers and SqliteQueries

One step is one call of the program, with all the calls it makes: the library is
not meant for concurrent use of one connection. (The order of the effects inside one
call, as that of finalizing a statement and closing the connection, is therefore not
something the runs could find wrong.) `ref[h]` is the driver query of
the `SQL_Query` h; `query` holds the counters and links of the driver queries, `db`
those of the database. `SqliteQueries` adds the SQLite connection, a statement per
driver query and the flags of `SQLite3_Query`. The library's functions are
modelled from how the driver uses them: a step moves to the next row or to the
end, a statement stepped after its end or after a failure restarts by itself,
binding is refused while a statement is not reset, bindings survive a reset.
Which statements fail (`FailAt`), and how many rows there are, are the
environment's choice. `SQL_Database.Close` does nothing in the code, so that
`Invalidate_Queries` runs only when the database goes, with an empty list; `Commit`
makes a query that is gone when it returns. Neither has a step here.

### DomTree and DomBuilder

`node[x]` has the components of a DOM node by their names in the source;
`first[l]` and `last[l]` stand for `First` and `Last`, `First_Attribute` and
`Last_Attribute`, `First_Detached` and `Last_Detached`. The six procedures of
`Matreshka.DOM_Lists` are operators on the whole heap of nodes, and an operation of
the DOM is a composition of them in the order of the code (`Appended`, `Detached`,
`Attributed`, `Valued`); loops over `Next` walk the links (`Members`, cut when it has met
more nodes than there are, which a loop without an end would), and `Bared` is the loop
of `Set_Value` that detaches the first child until there is none. One step is one
call, except `Start_Element`, whose loop over the attributes is a step per attribute
during which nothing else happens. Calls that raise an exception change no more than
the document's diagnosis, which is not modelled, and are no steps.

A program may change the tree between any two events, give a reading up in the
middle and start another one with the same builder, and give it another document at
any time that it is not in a handler, in the middle of a reading included. It may append
nodes of one document to nodes of another, and several elements to a document: the
documentation of `Append_Child` has both refused, and the code refuses neither
(`dom_append_child`). It is assumed to append no node to itself or its own descendant, no
attribute as a child, and no text to a document: nothing in the code checks these either,
and the documentation forbids all of them. `Create_Attribute_NS` also allocates a node
that it does not use and that nothing refers to; it is left out.

`DomForest` knows no links: each call moves nodes to the end of ordered lists and
leaves all other lists as they are (`AllHome` detaches all nodes of a list that are to
go, one after the other: the old attributes of a name, or the old children of one), and what is read goes to the end of the innermost
open element. Its constant `Tolerant` says which DOM it is: the documented one (FALSE), which
refuses nodes of other documents and second elements of a document (`Fits`), or one that
takes them (TRUE). The code implements the second only, so what `dom` and
`DomRefinesForest` show is less than the documentation promises. The open elements are `Stack`, `Parent` and `Current` of the builder,
above what an abandoned reading has left on the stack.

### TestRegex

A step of `TestRegex` goes from one library call to the next: `ReadLine` is the
loop that reads and prepares a specification, `Compile`, `Start` and `Again` lead to
a call of `regcomp` and `regexec`, `Compiled`, `Refused` and `Executed` judge the
answer, and `Freed` returns from `catchfree`, which is itself a call that can hang.
Between a call and its answer lie `Answers` (the library returns anything it may),
`Faults` (a signal) and `AlarmExpires`; both of the latter enter `gotcha`, which
jumps back to the `setjmp` of the call. `Returns` is the end of the library call
before `alarm(0)`, so that the alarm can still go off there.

`Flags` is the word `test`, in two parts: `options`, set once by the command line,
and `test`, set by lines. `skip` is the word of bits of the same name, one for each
`level`. A verdict is computed in the order of the code by operators on the triple of
counters, skipped blocks and `extracted` (`report`, `note`, `extract`, `failed`), which
have the names of the functions they stand for. A specification is abstracted to
what the harness tells apart: control characters, modes, flags, and whether the
expected outcome is a match, `NOMATCH`, `OK`, nothing or an error code; an answer of
the library to how its positions compare with the expected ones.

`VerdictsAreRight` is about each return from a verdict (`pc` leaves "returned"), of lines
without `?`, `&`, `|`, `{` and `x`, which change what counts (`Plain`). An expected
answer (`Expected`) counts as passed or not at all; any other adds one to the counter that
it belongs to (`Tally`) and nothing to the rest: `ignored` for what `-e` and `-p` ignore,
`warnings` for a wrong error code, `unspecified` with `u`, otherwise `errors`. `Miscounted`
names the answers for which the code does something else:

* fewer groups than expected: `report` counts them and line 1938 once more as errors, with
  `u` too; in the modes after the first they are not noticed, as `nsub` is not reset (1914);
* a wrong error code of a line with `u`: counted as unspecified and as a warning, and one
  is taken from `errors` (2008);
* a negative position with `-p` and `-S`: ignored (938) and an error (2163).

`locale` is the variable of the code, and `changed` has the categories that `setlocale` has
left different from "C". They part when LC_CTYPE is refused after LC_COLLATE was set
(line 1484): the block is skipped and LC_COLLATE stays. `LocaleIsLeft` promises LC_CTYPE
only.

### FastCgi

Two programs share the wire protocol and are chosen by `api`: `Execute` for a
callback, with the global descriptor `dsc` (`Dsc` in the server), and `Execute` for
responders, with `requests` (`Requests`, the map of descriptors). A step of either
receives one record, and does all that follows from it (`ProcessBeginRequest`,
`ProcessParams`, `ProcessStdin` with `ExecuteRequest`; `BeginRequest`,
`InternalParams`, `InternalStdin`). An event of a responder then runs (`event`) and may
call the methods that write or end the headers, any number of times, until it returns.

The web server is the environment: it begins, feeds, aborts and abandons requests,
one after the other or several at a time, on one connection or another, but sends
each request's records in the order of the protocol. `asked` is what it has sent,
against which `HandlerSeesRequest` compares what the callback sees and replies: `answer` is
what was sent as the reply, and `dsc.output` what the buffers for queries, reply headers and
output still hold, which is sent first. Replies are told apart by the input they answer.
`disturbed` is the history of what the properties must excuse: the connections on which a
request or the network was out of the ordinary, and `None` when the application has been left
with the descriptor of an abandoned request, until it is started again. A record may
arrive in parts (`ReceivePart`), and output may fail once the web server has hung up
(`SendFails`). `Raise` stands for every exception that leaves `Execute`: the process
ends with all its memory (`Restart`), connections that were not accepted wait for
the next one. The undecodable parameter stands for a query with a malformed escape
or a repeated name.

## Runs

| Run | Bounds | Shows |
|---|---|---|
| `strings` | 2 tasks, 3 objects, 3 segments, 1 character, texts up to 3, unit 1 | exact counts, memory safety, current index maps, copy-on-write, and that the strings implement `StringValues`, also with copies that raise |
| `strings_self_replace` (violation) | 2 tasks, 2 objects, 3 segments, `SelfReplace` | replacing all of a string by itself uses freed memory |
| `strings_append_raises` (violation) | 2 tasks, 2 objects, 4 segments | appending a character can raise `Constraint_Error` |
| `vectors` | 2 tasks, 2 vectors, 3 cells, 2 strings, vectors up to 3, unit 2 | both levels of counters, bounds of the stores, and that the vectors implement `StringValues` |
| `vectors_self_prepend` (violation) | 1 task, 1 vector, 2 cells, 1 string, vectors up to 4 | prepending a vector to itself reads a vector already freed |
| `sql_queries` | 3 `SQL_Query` objects, 3 driver queries, 1 value and null, 2 rows, `Execute` may fail | objects, list and counters; each query a cursor over its rows |
| `sql_failed_next` (violation) | 2 and 2, `Next` may fail | a failing `Next` claims a row |
| `dom` | 4 nodes, 2 documents, 1 attribute name, 2 elements on the builder's stack, nodes and stack together 5 (`Bounded`), 1 attribute each | nodes on exactly one list, lists readable both ways, attribute names unique, and that the DOM and its builder implement `DomForest` |
| `dom_remove_attribute` (violation) | 3 nodes, 1 document | `Remove_Child` of an attribute leaves it on two lists |
| `dom_append_child` (violation) | 2 nodes, 2 documents, no builder, `Tolerant` FALSE | `Append_Child` takes an element of another document |
| `regex_harness` | any 3 of 16 lines in 1 or 2 files, 5 sets of options, 2 error codes | patterns freed, alarms off, skipped blocks untested, locales left, wrong answers counted exactly once but for those of `Miscounted`; with `-c` every line ends |
| `fastcgi` | 2 connections, 2 request identifiers, 7 records to a callback, 3 to responders, 2 writes | the callback sees the request it answers; requests are answered; output in order |

Why the bounds are enough. The segments interact through a counter: two tasks
give every race between a reader, a releaser and an editor of one segment, and
three objects let one of them keep a segment while two calls change its other
references. Three segments let both tasks copy from one that a third object keeps.
One character is enough: which of them a text has makes no difference to any step, only
how many there are, and that no order is lost is what `ValuesAreImplemented` proves of any
characters. `MaxLength` 3 has room for a proper part in the middle, `StaticSize` and
`MinMulAlloc` of 1 make the segments as tight as `Aligned_Size` can (a copy that
does not fit needs a segment that was cut). For vectors, two objects that share one are all that the race of two `Detach`
calls needs, each with a cell to copy into; with a unit of 2 a vector of one or two
strings has room for another and one of three does not, so that edits in place, by a
copy because of room and by a copy because of sharing all happen. `MaxCounter` is never reached where counts are exact. Three driver queries
give a list a middle, and two rows an order; a second value adds nothing that null
and one value do not show.

With four nodes a list has a first, a middle and a last node and a fourth node can
join or leave it; an element can have an attribute with a value that is replaced by
another one; and an element can be open in another one while a text is read. Two
documents give nodes that live in one and belong to the other. `Bounded` leaves out the
states with four nodes while two elements are open; those with three nodes, the two and
a text or another element, are there.

Three lines reach two levels of nested blocks, a line after a block that was skipped
at the same level, and sequences of alternatives of a first, a middle and a last line;
the sixteen lines have each control character and each kind of expected outcome, in a
supported and an unsupported mode. Options are tried in the combinations that take
different paths through a verdict.

Seven records are a request left open after its beginning, parameters or input, and
then a whole one on the same or the other connection with the same or the other
identifier: what is left of the first meets the second. Three records are what a
responder needs to begin and to be given a parameter and their end; input adds only
one more event. At most one record is under way on a connection at a time (`MaxUnread`),
for the application takes them in order whenever they are sent; two writes are kept
back, flushed, or one of each. A third connection would only wait.

`SelfReplace` and `SelfPrepend` are FALSE in the passing runs, because the findings
they show break every property of the heap; `FailAt` is `{"execute"}` in `sql_queries` for the same
reason.

Fairness is assumed where something waits for something else. The libraries have no
waiting, no locks and no scheduler: their calls end by themselves, and their
properties are safety properties. The harness waits for the library:
`WF_vars(Testing)` says that its own steps are taken and `WF_vars(AlarmExpires)` that an
alarm that was set goes off, which is what `alarm(2)` promises; the library need not
return. The FastCGI application waits for the web server: `WF_vars(Serving)` says that
it goes on receiving what was sent, in its only loop; web servers need not send
anything, responders need not return, and a process that ended need not be started
again. Deadlock is not checked where the system may stop: after a raised `Append`, at
the end of the files, when the web server is silent. Each passing property has a mutant, a small
bug in the code it is about, defined just before the definition it replaces.

## Found

* `Replace` of all of a string by itself dereferences before it references
  (`strings_self_replace`).
* `Append` of a character copies the whole capacity of the old segment and raises when
  the new one is smaller: the string stays as it was, and the new segment leaks
  (`strings_append_raises`).
* `Prepend` of a vector to itself, when it has no room, frees the vector it then
  copies from (`vectors_self_prepend`).
* `Append_Child` accepts a node of another document, and a second element of a document,
  for which its documentation has `WRONG_DOCUMENT_ERR` and `HIERARCHY_REQUEST_ERR`
  (`dom_append_child`, which shows the first).
* `Remove_Child` accepts an attribute of the element and leaves it on the element's
  list while it joins the detached nodes (`dom_remove_attribute`).
* `Next` of the SQLite driver reports a row after a failed step
  (`sql_failed_next`).

Others met on the way, not shown by a run of their own:

* After a failed `Execute` of the SQLite driver `Is_Active` is False, so that the next
  `Execute` does not reset the statement: the library refuses to bind and the old
  values run again. `ExecuteBinds` leaves out exactly these executions.
* The harness takes an error back for a line with `u` and an unexpected error code,
  which was counted as unspecified: `errors` falls below what it was, even below zero
  (`TypeOK` allows it).
* It counts an answer with too few groups twice, or not at all in later modes, and counts
  twice what `-p` ignores with `-S`; and it leaves LC_COLLATE changed when LC_CTYPE is
  refused. Both are described with `TestRegex`.
* Its help says that a line is repeated for each mode; a mode that the library refuses
  as expected with `BADPAT` ends the line (`GiveUp`). `|` leaves its bit behind, so
  that the next ordinary line is taken as another alternative. Options that list make
  a `?` line skip the rest of its block. `verify`, the locale and the bits of
  alternatives are not reset between files, and `}` does not reset the locale of a block
  that a listing has skipped. An interrupted `regcomp` of a line that expects an error
  is only a warning.
* Standard output of a responder that ends the headers before its parameters have come,
  kept back until they have come, is not sent then but only if the responder ends the
  headers again, after what it has written since (`early` and `Overtaken` in `FastCgi`), although the comment of
  the descriptor (`matreshka-fastcgi-descriptors.ads:66`) has it accumulated until it is
  flushed. When headers end, empty records are sent, which mark the end of a stream,
  and more of the stream follows.
* The streaming server never takes a request out of its map and never ends one, so
  that an identifier can be used once in the life of the process. The other server
  ignores aborts, so that the request after one ends the process, as does a record that
  arrives in parts; and a connection closed in the middle of a request leaves that request's
  identifier in the descriptor, so that the next request, on any connection, ends the
  process (line 372). `RequestsAreAnswered` leaves out all of these (`disturbed`). So do a name
  given twice, and a name and value split over two records, which the web server of
  the model does not send.
* Among the hazards of `PROJECT.json`: procedure `Slice` with Low > High, surrogate pairs
  cut by `Slice` and `Replace`, `Is_Valid` after `Finish`, `SQL_Database.Close`.

## Proved

`SharedStringsProofs` proves, for any tasks, objects, segments and characters and
any bounds, of programs that do not replace a string by itself (`~SelfReplace`):

* `TypeCorrect`: `[]TypeOK`;
* `CountersAreSafe`: `[]CounterCoversHolders`, a counter is at least the number of
  objects and calls that hold the segment;
* `NothingDangles`: `[]NoDangling`;
* `EditsExclusive`: `[]ExclusiveEdit`;
* `SharingIsSafe`: `SharedTextIsConstant`, the action property of copy-on-write;
* `TerminatorsFit`: `[]RoomForTerminator`, and `IndexMapsAreCurrent`: `[]IndexMapIsCurrent`;
* `NothingLeaks`: `[]NoLeak`, where the new segment of a raised `Append` counts as held by
  that call for ever (`strings_append_raises`);
* `Invariance`: `[]IInv`, which they rest on.

Assumptions: `ConstantsAssumption` (finite sets of tasks and objects, distinct
model values, `Aligned_Size`'s constants natural and the static size a multiple
of the unit) and the shared-variable rule that is part of the actions.

Why the counters are not inductive by themselves: a call uses segments it holds no
count of. While it copies, it reads its old segment and its operand's through the
objects they belong to; between its decrement and its increment, `Assign` relies on
the operand to keep the new segment alive; and an edit in place relies on a counter
it read a step earlier. `IInv` therefore adds `Discipline` (an object being written
is used by no other call), `CallShapes` (what a call at each step holds, reads and
will write), `EditsFit`, `LiveData` and `FreeOnce`. The step is proved per form
rather than per call: every call starts in one of four ways (`StartForms`: share,
edit in place, copy, reference itself), and each of these and each further step has
its lemma (`...Keeps`), which says what it does to the holders of a segment
(`HoldersShrink`, `Swap`, `Grow`, `Lose`, by the cardinality of finite sets) and that
it leaves the calls of other tasks alone (`CallFrame`, `StepFrame`).

Two further invariants rest on `IInv`. `SegmentsInv` says of a running call that the
text it indexes is still there, that what it is about to store is not empty and fits into
its segment with the terminator (`AlignedSizeRoom`, `OutcomeLength`), and that nobody has indexed a
segment that is being filled: an index map can then be published late only for the text
it was made of. `ExactInv` is `NoLeak` with what makes it inductive: an object that has
a segment has a text, so that `Prepend` of a character, which releases nothing when the
text is empty, loses nothing (`NotEmpty`), and a call that copies gives up what its
object had (`ExactShape`).

`StringVectorsProofs` and `VectorStringsProofs` prove, for any tasks, objects, vectors
and strings and any bounds, of programs that do not prepend a vector to itself
(`~SelfPrepend`):

* `VectorsStayAllocated`: `[]VectorsAreAllocated`; `VectorsHaveRoom`: `[]RoomForItems`;
* `StringsStayAllocated`: `[]StringsAreAllocated`, no string that something gives access
  to is deallocated;
* `CountersAgreeAtRest`: `[]CountersAgree`, nothing is lost or counted twice;
* `TypesHold`: `[]TypeOK`;
* `VectorsInvariance` and `Invariance`: `[]VectorsInv` and `[]IInv`, which they rest on.

Assumptions: `VectorsAssumption` (finite sets of tasks, objects and cells, distinct model
values, natural bounds) and the shared-variable rule that is part of the actions. TLC
finds no state of the instance of `vectors` that breaks `IInv`.

The counters of the vectors are exact in every state, of what `Holders` says holds a
vector: objects, and calls that have yet to release or to bind it (`CountersExact`). A
counter of one therefore means one holder (`SoleHolder`), and that is why a call may
edit, and why after a second look of `Detach` it may move strings. `VectorsInv` adds what
a call relies on at each step (`CallShapes`), in parts named for what they protect. A
step is looked at twice: for its own call, and for all others, of which it suffices that
their objects, the vectors they read and the counters they rely on are as before
(`Undisturbed`, `CallFrame`). `NotRelied` and `NotRead` derive that from `SoleHolder`: a
vector with a holder other than a call is not one whose counter the call relies on.

The counters of the strings are not those of the places where the strings are, because
copying, moving and releasing a vector changes them one by one, and `Append`, `Replace`
and `Prepend` store before they reference. `Uncounted (c, o, k)` is what call c leaves
uncounted at place k of vector o, `Places (s)` the places of string s that no call leaves
uncounted; `StringsInv` is that a string's counter is the number of its places, of the
calls of `Insert` that have referenced it already, and of its object. No two calls leave
places of one vector uncounted, as each relies on its counter (`UncountedOwns`,
`NotLoose`), so a step moves the places of its own call only: none (`StringsKept`), one
more (`StringAdded`), one less (`StringRemoved`), or all of them by a bijection, when strings
are moved, inserted before others, or others prepended to them (`StringsMoved`, `SameSize`).
`StringOfVector` shows that an uncounted place is no danger: the vector that it was
copied or moved from, `Prepend`'s operand, or the item still counts for its string.

`SharedStringsProofs` and `VectorStringsProofs` also prove the two refinements, for any
tasks, objects and cells and values of any length:

* `ValuesAreImplemented`: `Spec => ImplementsValues`, of programs that do not replace a
  string by itself. An `Append` of a character may fail without an effect in `StringValues`, as
  one that raises does.
* `VectorValuesAreImplemented`: `Spec => ImplementsValues`, of programs that do not
  prepend a vector to itself.

Both use the mapping that TLC checks. The value of an object is that of its own cell,
except while a call shares: then it is the old value until the old cell is given up (or,
when that is not counted, until Self is assigned), and the new one from then on. `Held`
says so per call and `ValuesAreRead` that this determines every value, as an object has
one writer (`Discipline`). `Pend` is what a call has yet to do. A step of t on the object s
`Concerns` only them: the calls of others, what they are to store, and the values of all
other objects stay (`ConcernsFrame`), since whoever else could reach the cell that is
written would count for it, and a cell that is edited has one holder. So a step is
settled by what it does to s and to the call of t: it begins a call (`Requests`), takes
effect (`Performs`) or does not show (`Stutters`). What a call may be asked for is
checked where it starts: the results of the code's operations are the slices and splices of
`StringValues` (`EditsAreSplices`, `OutcomePromised`), and they stay the same up to
the store, whatever Detach does meanwhile (`EditWaits`, `DetachWaits`). `Slice` of a vector takes
effect item by item in the code and as a whole in `StringValues`: the items stored and those to
come are always the slice that was asked for (`SliceStarts`).

`TestRegexProofs` proves, for any lines, options and error codes and any number of
lines and files:

* `PatternsFreed`, `AlarmsOff`: `[]PatternsAreFreed`, `[]AlarmsAreOff`;
* `TypeCorrect`: `[]TypeOK`;
* `SkippedBlocks`, `LocalesLeft`: `[]NothingInSkippedBlocks`, `[]LocaleIsLeft`;
* `VerdictsHold`: the action property `VerdictsAreRight`.

The first two rest on `CallsInv`: at each point of the harness the pattern is compiled
exactly when the call under way or just answered needs it, and the alarm is set only
inside a call. The others rest on `HarnessInv`, the types together with `BlocksInv`:
levels and skipped levels lie within the lines read, every level from a skipped one up
to the current one is skipped too, `regcomp` is called only at a level that is not
skipped, and in the first file, without listings, the level of the locale is within the
current one and not skipped. `VerdictsHold` needs of the states before a verdict
`AnswersInv`, what the library can have answered and that a pattern that should not
compile is never run; then each way through main leaves a verdict whose counters are
known (`FailureVerdicts`, `MismatchVerdicts`), and for each answer that is not
`Miscounted` the right one of them is left (`CompileVerdict`, `ExecuteVerdict`,
`FreeVerdict`).

`FastCgiProofs` proves, for any connections, identifiers, parameters and pieces of
streams and any bounds:

* `FastCgiTypes`: `[]TypeOK`, with the connection that is served the only one open;
* `StreamsInOrder`: `[]OutputInOrder`, which says of both streams that they are sent once
  and in order, when headers end after the parameters; and when they end before, that the
  standard output kept back by then, and only that, is sent after what was written later, or
  not at all;
* `CallbackSeesRequest`: `HandlerSeesRequest`, parameters, input and reply.

`OutputInOrder` by itself is not inductive. `OutputInv` adds that a request whose headers
were ended before its parameters is known as early (otherwise what is then written
could stay behind unnoticed), that output which has been overtaken stays `Overtaken` when
more is written (`Swapped`: three pieces of which the first two have changed places), that a request that has not begun has nothing
written, sent or kept (it may begin), and that a responder that runs has begun. Each
step changes the streams of one request (`OneRequest`), and what is appended to a
stream kept back is appended to the whole (`Pieces`).

`CallbackInv` relates what the web server asked for, what is under way and what has been
received: of every connection that the application can still hear of, each request has
not been asked for, or all of it is under way and its beginning comes first, or it is
the one that `dsc` is of and its beginning has been received (`RequestInv`). In the last
two, `Follows`: the parameters received with those under way are those asked for, the
pieces of input under way are in the order of the rest of the input (a bijection from
its positions, as a fold over the queue cannot be reasoned about without induction), and
the end of the input is the last of its records. So when that end is received nothing is
left to come, and `dsc` is what was asked for (`EndReceived`). Also `dsc` is `Idle`
whenever it is of no request: `Reset` clears all of it, and so no parameter or input of
an earlier request remains. Each record sent or received has a lemma on `Follows`
(`...Follows`, `...Received`), and other requests do not notice it (`AppendOther`,
`TailOther`).

`SqliteQueriesProofs` proves, for any objects, values and numbers of rows:

* `SqliteTypeCorrect`: `[]TypeOK`; `Counters`: `[]CountersAreExact`; `Links`:
  `[]LinksAgree`; `ReachesAll`: `[]ListReachesAll`; `ClosedLast`:
  `[]ClosesAfterStatements`; `ExecutionBinds`: `ExecuteBinds`;
* `ValidOnRow`: `[]ValidMeansRow`, and `CursorIsImplemented`: `ImplementsCursor`, both
  under the assumption that no step of `Next` fails (`"next" \notin FailAt`), without
  which they are false (`sql_failed_next`).

`LinksAgree` is not inductive: links agree also in a list beside which some queries form
a ring of their own, and a query that leaves such a ring as its last one breaks them.
`DriverInv` says instead that there is an order of the queries, a `rank` of each, in which
every link leads to the nearest neighbour and the ends are the first and the last
(`InOrder` of `LinkedLists`). A node that joins a list gets the highest rank (`JoinsList`),
and when one leaves, the ranks of the others stay (`LeavesList`). That a walk over the
links meets all of them is an induction, and the one that can be done here: over a set of
natural numbers, as the library has it that each such set has a least element. The
ranks along a walk increase, so that it meets no node twice, and it ends only at the
tail, with nothing left out on the way. The counters are cardinalities, of the
attached queries and of the `SQL_Query` objects of each (`Counted`, `OnlyLive`), which a
step changes by one. `SqliteInv` adds what the flags and the statement of each query
have to do with each other (`Agrees`, and `OnResult` while only `Execute` fails). A
statement implies a query, a query an attached one, an attached one a counted one, and so
a live database with an open connection. For the refinement each call of the driver
moves the result of one query (`OneMoves`): `Execute` is `Run` or, when it fails, `Leave`;
`Next` is `Fetch` or `Pass`; `Prepare`, `Finish` and the end of a query are `Leave`; all
others move nothing.

`DomTreeProofs` proves, for any nodes, documents and names and any depth of what is
read, of programs that do not remove attributes as children (`~RemovesAttributes`, as the
finding of `dom_remove_attribute` breaks the lists):

* `DomTypeCorrect`: `[]TypeOK`;
* `NodesOnOneList`, `BackwardsTheSame`: `[]OnOneList`, `[]ListsReadBackwards`;
* `NamesOfAttributes`: `[]AttributesAreUnique`;
* `BuilderInvariant`: `[]BuilderInv`, which they rest on;
* `DomRefinesForest`: `ImplementsForest`, with `Tolerant`: the forest that accepts what
  the code accepts (`dom_append_child`).

Assumptions: `DomAssumption` (finitely many nodes, distinct model values) and
`BoundAssumption` (natural bounds). `OnOneList` and `ListsReadBackwards` speak of walks
over the links and are no invariants a step can be checked against. `Lawful` says the same
with ranks: for each list of each node and document, the nodes that by their kind and parent
should be on it are `InOrder` (`Chained`). An operation of the DOM takes a node off a
list and puts it on another, and between the two the node is on none although its
components still say so: `Chained (h, X)` therefore leaves out the nodes X on their way, and
`UnlinkLeaves` and `InsertJoins` lead from one to the other. Each of the other lists
stays because its nodes are none of those whose links change: lists have no node in
common. `Fits` says what kinds may have which parents, and that everything belongs to a
document that exists, and `Unique` that attribute names are. The loops of
`Set_Attribute_Node_NS` and `Set_Value` are inductions like that of `ReachesAll`; the
second ends because each turn takes a child away.

For the refinement the lists of `DomForest` are those that the links spell (`Spells`:
first, last and both links of each node are as the sequence has them; `SpellsOne`: of no
other sequence). That lawful nodes spell what `Members` walks over (`LawfulLays`) is once more
the induction over ranks. From then on nothing is an induction over links. `LaidOut` says that
the links spell all the lists at once, which share no node; a node taken out
(`UnlinkLays`) or put in (`InsertLays`) leaves them laid out, and so each operation of the
DOM is the move of `DomForest` that its lemma names (`ForestMoves`, `ForestBorn`,
`ForestCreates`, `ForestAppends`, `ForestDetaches`, `ForestAttributes`, `ForestValues`). The
loops of `Set_Attribute_Node_NS` and `Set_Value` send nodes home one by one, as the
recursive function of `AllHome` does: the first loop sends one at most, as names are unique
(`AllHomeNone`, `AllHomeOne`); of the second, every turn of the loop is a turn of the
function, and the children left are the rest of the sequence. The open elements of
`DomForest` are the end of the builder's path (`PathOf`), from the last place of the
document on. `Opened`, which the proof adds to `BuilderInv`, says that there is such a place
while something is read and that all above it are elements, so that `ForestEnters` and
`ForestLeaves` lengthen and shorten what is open by one, whatever an abandoned reading has
left below.

Only model-checked: `LinesEnd` of the harness and `RequestsAreAnswered` of FastCGI, which
are liveness and out of the prover's reach, and what the runs that end in a violation show.

## Not modelled

* Servlet containers, SOAP, the persistence manager, the SAX reader and writers,
  catalogs and templates, JSON, holders, codecs and the other parts of League that
  `PROJECT.json` lists: sequential code whose hard part is in its data, or (holders,
  JSON) the scheme of counting that `SharedStrings` and `StringVectors` already model.
* What reads large tables (Unicode, CLDR, AMF), generated parsers, and input and output
  through the operating system.
* Of the modelled parts: surrogate pairs and cursors of strings, streams of vectors,
  conversion of values and memory of bound texts in SQL, the text of DOM nodes; how
  the harness parses escapes and answers, what it prints, and its builds for libraries
  with `regnexec`, `regsubcomp` and disciplines; the encoding of FastCGI records,
  parameters and queries, and the headers of replies.

## Plan

1. *Done*: shared strings and string vectors with their theorems and refinements; SQL
   objects and the SQLite cursor, the regular expression harness and the FastCGI
   application with theirs; the DOM and its builder. Holders and JSON arrays share the
   scheme of the strings and get no module.
2. *Done*: theorems of `DomTree` and `DomBuilder`, with the refinement of `DomForest`, on the
   same lemmas about linked lists as those of the list of queries.
3. `Servlets`: registration, dispatch by longest mapping, sessions of a request.
4. Pure algorithms, as functions checked against a definition over bounded inputs:
   UTF-16 indices of `Slice` and `Replace`, chunked UTF-8 decoding, the parameter
   rewriter, namespace scopes.
5. Cursors of strings (`Emit_Changed`) and the other database drivers as further
   refinements of `SqlCursor`, as room allows.
