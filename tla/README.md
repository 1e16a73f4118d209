# Verification of tagd

TLA+ models of tagd (https://github.com/musetronstar/tagd), TLC configurations
that check them on small instances and TLAPS proofs that hold for every
instance. The reference is the C++ source; every definition that models code is
mapped to its lines in `PROJECT.json`.

    tlc -workers 2 -config TagdbTree.cfg MCTagdb.tla     # check an instance
    tlc -workers 2 -config Tagsh.cfg MCTagsh.tla
    tlapm TagdbProofs.tla                                # check the proofs

## 1. The system

tagd keeps *tags* in a tree (a *tagspace*), relates them to each other and lets
names stand for tags in a context. A client talks TAGL to a driver, the driver
calls a tag store, the store is a set of SQLite tables.

    httagd (HTTP) --+
                    +--> TAGL scanner -> parser -> driver --> session --> tag store (SQLite)
    tagsh (shell) --+                                                        |
                                              tags, ranks, hard tags --------+

| Component | Source | State | Operations | Correct when |
|---|---|---|---|---|
| Tag store: tree | `tagdb/sqlite/src/sqlite.cc` | table `tags` (sub relator, super object, rank) | `put` (`insert`, `update`, `next_rank`), `del`, `get`, `exists` | one tree below `_entity`; a rank is the path to its tag; queries by rank select subtrees |
| Tag store: relations, terms, search | same | tables `relations`, `terms`, `fts_tags` | `insert_relations`, `delete_relations`, `put_term`, `update_pos_occurence`, `f_fts_passthru` | rows name tags that are there; every name in use can be looked up; search finds what is in the store |
| Tag store: referents | same | table `referents` | `insert_referent`, `del` of referents, `refers_to`, `decode_*`, `encode_*` | an alias means at most one tag in a context |
| Tag store: queries | same, `tagd/src/tagd.cc` | none | `related`, `get_children`, `query`, `search`, `query_referents`, `merge_containing_tags` | the result is the set that the predicates describe |
| Tag store: dumps, statements, tracing | same | prepared statements | `dump*`, `prepare`, `finalize` | output only |
| Session | `tagdb/src/tagdb.cc` | stack of contexts | `push_context`, `pop_context`, `clear_context` | what is pushed is popped |
| Hard tags | `tagdb/src/hard-tag.cc` and generated table | none | `hard_tag::get`, `pos` | fixed names with fixed ranks, not changed by clients |
| Ranks and UTF-8 | `tagd/src/rank.cc`, `tagd/src/utf8.cc` | a byte string | `init`, `push_back`, `increment`, `next`, `validate` | order and prefixes survive the encoding |
| Tags, predicates, tag sets | `tagd/src/tagd.cc` | id, sub, super, predicates, errors | `relation`, `merge_tags`, `merge_containing_tags`, `errorable` | a set of predicates is a set; merging is intersection |
| URLs and domains | `tagd/src/url.cc`, `tagd/src/domain/` | parsed parts | `url::init`, `domain::init`, HDURI conversion | parsing and printing agree |
| Files, terminal | `tagd/src/file.cc`, `tagd/src/io.cc` | none | I/O | - |
| TAGL driver and parser | `tagl/src/tagl.cc`, `tagl/src/parser.y` | command, current tag, levels of pushed context, included files | one handler per statement | a driver pops exactly the contexts it pushed; an error stops what it must |
| TAGL scanner | `tagl/src/scanner.cc`, `scanner.re.cc` | buffer, pointers, partial token | `fill`, `scan`, `evbuffer_feed` | the tokens do not depend on where the buffers end |
| Parser generator | `tagl/src/lemon.c`, `lempar.cc` | - | vendored | - |
| tagsh | `tagsh/src/` | line, prompt | command loop | I/O around a driver |
| httagd | `httagd/src/httagd.cc` | server, request, response, driver | one callback per request | errors and contexts of one request do not reach the next |

**How they interact.** The driver and both front ends call the store directly
and synchronously. The session is a stack shared by everything that runs for one
client: a driver, the drivers of the files it includes, and its caller. The store
reports errors into an `errorable` that sessions and store share.

**Where it is hard.** There are no threads; libevent calls one handler at a
time. What makes the store hard to test is elsewhere:

* `put()` runs *outside a transaction*. Each statement commits on its own, so
  whatever interrupts it (the process, a constraint, an early return) leaves
  what has been executed. `del()` uses a transaction.
* The place of a tag is stored twice, as super object and as rank, by separate
  statements over different sets of rows. A move rewrites the ranks of a subtree,
  which it finds with the GLOB pattern `rank || '*'`.
* The names are stored again in `terms` with the parts of speech that they are
  used as, and the tags once more in a search table, by separate statements again.
* Ranks are UTF-8 text, with SQLite's collation, GLOB, `substr()` and a maximal
  length between the code and the order it relies on.
* A request is *decoded* by the context stack before it is executed, so what a
  name means depends on referents, contexts and the ranks of the contexts.

And above the store:

* The scanner holds pointers into a buffer that `fill()` moves, splits and refills
  under them, between any two bytes of a token.
* A file is included by a driver of its own, on the stack of the one that includes
  it, with the same callback (which is pointed back and forth), a session of its own
  (made when first needed) and errors that are copied in part.
* Whether a statement is executed depends on errors that were reported before it: to
  the driver, to the session or to the store, which share a list in httagd and do
  not in tagsh, and which are reset, copied and cleared at different times.
* httagd's store outlives the requests; everything else is made for each of them.

`PROJECT.json` lists each hazard at its line with the properties that watch it.

## 2. The modules

| Module | Models | Lines it stands for |
|---|---|---|
| `Ranks` | ranks as sequences of code points: what the UTF-8 codec, `rank`, collation and GLOB make of them | `rank.cc`, `utf8.cc`, the `rank GLOB` statements |
| `TagTree` | the abstract specification: a tree with Add, Move, Remove | what table `tags` promises |
| `Tagdb` | the store: tables, session, `put`, `del`, referents, contexts, crash | `sqlite.cc` 217-3348 in parts, `tagdb.cc` |
| `Queries` | queries: `related`, `get_children`, `query`, the merging of tag sets | `sqlite.cc` 2407-2925, `tagd.cc` 281-309 |
| `TokenStream` | the abstract specification of a scanner: it hands over the tokens of its input | what the parser relies on |
| `Lexer` | the abstract specification of what a text has where it is read: a word, blanks, a comment, a string, or what is none of these | the rules in `scanner.h`, without a buffer |
| `Scanner` | the scanner on an evbuffer: `fill()`, matching, emitting | `scanner.cc`, `scanner.re.cc`, the rules in `scanner.h` |
| `Driver` | drivers on a stack of included files, their sessions and errors | `tagl.cc`, `parser.y` (SET statements, syntax errors) |
| `Tagsh` | the shell around a driver: lines, loads, what the callback does with errors | `tagsh.cc` |
| `Httagd` | the server around a driver: requests, replies, status, shared errors | `httagd.cc` |
| `Scripts` | the specification of what a script means, by recursion on its text and its files | what a user of `tagsh` relies on |
| `MCTagdb`, `MCQueries`, `MCScanner`, `MCTagsh`, `MCHttagd` | instances for TLC: seeds, request sets, inputs, files; in `MCScanner` also what tokens an input has | - |
| `RanksProofs`, `TagdbProofs`, `TagdbRankProofs`, `ScannerProofs`, `DriverProofs`, `TagshProofs`, `HttagdProofs` | theorems and their lemmas | - |

`Tagdb` EXTENDS `Ranks`, and `Queries` EXTENDS `Tagdb`: queries read its tables.
`TagTree` is instantiated in `Tagdb` with `parent <- super_object`, and `TreeSpec`
(its specification) is a property of the store. `Tagsh` and `Httagd` EXTEND
`Driver`, which has no initial state and no next-state relation of its own: they are
the two ways in which the program composes it with a callback. `Scripts` EXTENDS `Tagsh`
for the files and commands that it gives a meaning to. `TokenStream` is
instantiated in `MCScanner`, and `StreamSpec` is a property of the scanner. `Lexer` is
instantiated in `Scanner` with `text <- input.text` and `at` the place that the token being
matched, or the byte of a comment, has in the text; `ReadsText` is its specification. The
store is not composed with the drivers: they see of it what a statement comes
to, which the scripts choose in every way (`done`, `refused` with an error in the
session, `failed` with one in the store, `quiet` with a code alone).

### Tagdb: state

| Variable | Code |
|---|---|
| `sub_relator`, `super_object`, `rank` | columns of table `tags`; `None` where there is no row |
| `terms` | table `terms`: the set of parts of speech of a user name |
| `relations`, `referents` | tables `relations`, `referents`, sets of rows |
| `fts` | table `fts_tags`: what `format_fts` wrote for a tag, or `None` |
| `context` | `session::_context` |
| `call` | where a running `put()` is: the statement that comes next, the decoded request, the predicates left to insert, whether one was inserted, and the code it will return |
| `code` | what the last finished operation returned |

### Tagdb: actions

`PutTag` is the beginning of `put()`: decoding, the early returns in their order
(`Rejection`), then one of

* `PutRejected`: an early return;
* `InsertTag` / `InsertTagFails`: `insert()` - names into `terms`, then the row,
  which a constraint may refuse and which leaves the names;
* `UpdateRanks` / `UpdateRanksFails` / `SkipRanks`: the first statement of
  `update()`; the second is `UpdateTag` / `UpdateTagFails`;
* `PutRelations`: the tag is already in its place;
* `PutRankError` / `PutAborts`: `next_rank` returns an error, or its assertion fails.

Then come, one predicate at a time, `InsertRelation`, `SkipDuplicate` or
`RelationUnknown` (`insert_relations`, in any order of the set), and last
`PutFts`. `DelTag`, `DelRelations`, `PutReferent`, `DelReferent` and the context
operations are one action each, with their refusals. `Crash` ends the process
between two statements.

Nothing else runs between the statements of a `put()`: the process has the store
to itself, and only `Crash` can come in between.

### Queries

A query changes nothing: `Related`, `Children`, `MergeContainingTags` and `Query`
are operators on the tables of `Tagdb`, and `QuerySelects` evaluates them in every
state between two operations. The subtree of a tag is what `rank GLOB` selects.
`RelatedByAll` merges the sets for single predicates in the order in which `query()`
comes to them; the property asks for every order. Names are decoded twice, by `query()`
and again by `related()`, and the property is about those that this leaves as they are
(`Plain`): where contexts nest, a name that stands for an alias is looked up once more.

### Scanner: state and actions

`buf`, `beg`, `cur`, `mark`, `lim`, `eof` and `val` are the members of `scanner`
with an underscore, a pointer being an index; `rest` is what the evbuffer still
holds; `mode`, `acc` and `scheme` stand for the state of the generated matcher (which loop it
is in, the rule it has matched, and whether what it has matched may go on as the scheme of
a URI); `filled` says that `YYFILL` has been passed for the next look; `toks` is what has
been emitted. `Needed` is the `n` of `YYFILL(n)`: the longest way in the automaton that `re2c`
makes of the rules to the next place where it asks again. It asks at the start of a block of
rules and in every loop. No input has a URI in it, but the rules for URIs, which are in
`tagl_root` with the others, decide this number: 7 at the start of a token (`hd://` and two
bytes), 5 after a letter that may belong to a scheme (`://` and two bytes), 2 in strings and
comments (`\"`, a line break of two bytes) and 1 in the other loops. The generated file is not
in the repository; the numbers are those of the minimal automaton of the rules. `Shift` and `Overflow` are the two
halves of `fill()`; every other action is one look of the matcher at a byte: the
first byte of a token, a byte that makes the match longer, a byte that may lead to a
longer match (the rule `TAGL_FILE` reads on past a word), or one that ends it
(`Accept`). A dash that is alone and a quote after a backslash are no tokens: the scanner
reports an error and returns (`LoneDash`, `EscapedQuote`). In a string that nothing closes
it leaves the input (`Unclosed`) and the model leaves it. The alphabet has one member of each class of bytes that the rules tell
apart, and two letters.

### Driver, Tagsh, Httagd: state and actions

`stack` is the C++ stack of drivers: the host's, then one for each file being
included, each with its path, what is left of its input, its session, the contexts
it has counted, its flag and its errors; `sessions` are the stacks of contexts;
`callback` is the driver that the callback works for. `Include` pushes a driver and
`Return` is the end of `include_file()`. A statement is one step: `SetContext`,
`SetFlag`, `SyntaxError`, `Include`, `IncludeMissing`, `IncludeEmpty`, and `Command`
for those that go to the callback. A driver executes until it has no input or has
errors, as `scan()` looks at `has_errors()` before each token.

`Tagsh` adds lines (`TypeLine`, `LineDone`) and `.load` (`Load`, `LoadDone`);
`Httagd` adds `Accept` (the first half of `main_cb`), the end of a body, `MainFinish`
and `EndRequest` (the second half). `log` is what has reached the store, with the
contexts and the flags it was done with. `SharedErrors` tells the two apart: in
httagd the session, the store and the driver have one list of errors. `TaglStatement` is
the set of statements that a piece of text can come to; lines, files and bodies are
sequences of them.

### Abstractions

* Names are model values. Formatting, tracing, caches of statements, `reset()` and
  messages are left out; codes are kept.
* A rank is its code points. `ByteLen` gives its size; `Load` is
  `rank::init` as `abstract_tag::rank` uses it: a rank that does not validate is
  dropped and leaves the empty rank of the root.
* A predicate is a relator, an object and a modifier; the operator and the type of
  the modifier are left out, as the store does not tell them apart when it puts.
* The three `put_term` calls of `insert()` and its row are one action; a crash
  between them would leave names in `terms` with no row, which `InsertTagFails`
  leaves as well. The four of `insert_relations` and its row, likewise.
* The rank statement of `update()` may meet its own rows halfway: `MayClash`. Which
  order SQLite visits them in is left open, so both outcomes are allowed then.
* Rows of hard tags in `terms` and `fts_tags` are left out: they are never deleted.
* Requests have no flags; URL and HDURI casting and callers without a session are
  left out.
* Statements of TAGL are records of what they are (`call`, `context`, `flag`,
  `bad`, `include`); their clauses are not. The one flag that there is (`_ignore_duplicates`)
  is set or cleared; another name than that is a `bad` statement. A line of the shell is whole statements.
* Paths are model values: that a path is relative to a directory is left out.
* The scanner emits kinds and bytes of tokens; the part of speech of a word is looked
  up in the store and left out.
* The status of a reply is OK, an error or "not allowed"; its text is left out.
* `Disciplined` is what clients are expected not to do (put a tag under its own
  descendant, use a name that is no tag as sub relator). The code does not refuse
  the first, and the constraint on the table refuses the second. The constant
  `Hazards` lets an instance drop either expectation, and turns `Crash` on.

## 3. What is checked

Constants that bound an instance: `MaxOrdinal` (the last ordinal of a new rank),
`MaxDepth` (levels of a rank; drivers on the stack), `MaxContext` (height of the
context stack), `BufSize` (the program's `BUF_SZ`), `MaxPieces` (pieces of an input),
`MaxCommands` (lines and loads), `MaxRequests`. Names, request sets, files and inputs
are finite. `RankMaxLen` is the program's 255 but for one run.

| Run | Instance | Properties | States |
|---|---|---|---|
| `TagdbTree` | 3 user tags, all places, ordinals to 4, depth 3 | `TypeOK`, `RankExtendsSuper`, `RanksSelectSubtrees`, `Rooted`, `NoInternalError`, `TreeSpec` | 39,736 |
| `TagdbRelations` | a tag under another that are put and deleted, 1 name that is always unknown; predicates with a shared key, an unknown relator, a user tag as relator and as sub relator; questions of one and two predicates | `ReferencesExist`, `NamesKnown`, `SearchComplete`, `QuerySelects`, `SearchFollows` | 139,430 |
| `TagdbReferents` | one alias, two targets, two nested contexts that come and go, stack of 2 | `AliasesResolve`, `NamesKnown`, `ReferencesExist` | 99,036 |
| `TagdbCrash` | 2 tags, a relation with an unknown modifier, crash between any two statements | `Rooted`, `ReferencesExist`, `NamesKnown` | 106,589 |
| `TagdbOverlong` | ranks of at most 2 bytes, depth to 4, crash | `Rooted` | 33,572 |
| `Scanner` | buffer of 10 bytes, inputs of up to 4 pieces out of 11, and 9 others | `TypeOK`, `TokensFit`, `NothingLost`, `ReadsInside`, `StreamSpec`, `ReadsText` | 491,727 |
| `Tagsh` | 3 commands out of 7 lines and the loads of 2 files, 41 pairs of files, drivers 3 deep | `TypeOK`, `ContextsCounted`, `CallbackTop`, `CleanAfterLine`, `DoesTheScript`, `IncluderWaits`, `EveryCommandEnds` | 153,074 |
| `Httagd` | 2 requests out of all methods, contexts and bodies of up to 3 statements, with a file and an empty one to include | `TypeOK`, `StatusHonest`, `ErrorsDoNotLeak`, `RequestContextStays`, `OneReply`, `EveryRequestAnswered` | 3,923 |

No run has a symmetry set, and deadlock is checked in all of them: where a model may
rest (the user has left, no request is to come, `scan()` has returned) it says so
in an action that leaves everything as it is.

**Why the bounds are enough.** Three user tags give chains of three, a subtree
that moves past its siblings, and a destination below, above and beside the moved
tag. Ordinals to 4 are one more than the children that can be there at once, so
that a gap (children come and go) and a rank that is used again both occur. Two
nested contexts and one alias are the smallest case where two referents compete;
`AliasesResolve` compares two. Two predicates with one key are the smallest case of
a set that is inserted in part. `TagdbOverlong` shrinks `RANK_MAX_LEN` so that
moves outgrow it after three levels. Questions of two predicates are the smallest that are
merged, and a tag under another the smallest case where a tag of one set contains a
tag of the other.

A buffer of ten bytes has room for the seven bytes that are
asked for at the start of a token, and a word in it may have five letters and then, from a
backslash on, which no scheme has, four bytes more. That is the longest word that fits,
and it is one of the pieces. One string is as long as the buffer with its quotes, and one
more than twice as long. Pieces of 1 to 23 bytes in every sequence of four put the bytes of
each at the end of the buffer, with every predecessor, and take many fills. The program's
buffer has 16,384 bytes and the same seven, five, two and one are asked for before its end.
Three drivers are the smallest stack with a driver that is neither the host's nor the
last; three commands are one before, one that fails and one after. Two requests are one
that leaves something behind and one that would see it.

**What they show.**

* Among clients that keep to `Disciplined`, rank and super object agree between
  operations (`RankExtendsSuper`), and selecting by rank prefix is selecting a
  subtree (`RanksSelectSubtrees`), as long as ordinals stay below 42.
* `TreeSpec`: between *any* two statements the super objects form a tree, and each
  statement adds, moves or removes one tag, or leaves it alone.
* `ReferencesExist` rests on foreign keys and on `del()` removing the rows that a
  tag owns before its own; `NamesKnown` on every code path that adds a row putting
  its names first, and on every path that deletes one counting them again.
* `SearchComplete`: put() writes the search table also when it returns an error
  halfway.
* `AliasesResolve`: the uniqueness of (alias, context) and of ranks together make
  the winner of `refers_to()` unique.
* `QuerySelects`: where some tag answers a question, `query()` returns those that do,
  no matter in which order it comes to the predicates. Selecting by pattern, merging by
  prefix and the tree agree.
* `SearchFollows`: the search table falls behind in one way only, the deletion of
  relations of a tag that stays (see below).
* `TokensFit`: what is being matched leaves room in the buffer for all the bytes that the
  matcher asks for next, but for quoted strings, which `fill()` splits. In a word these
  are five; what `fill()` does to longer words is told below. The inputs of the run are such that this holds;
  the theorems about the scanner take it as their condition, and one says for which inputs
  of any length it holds.
* `NothingLost`, `ReadsInside`: `fill()` drops, repeats and swaps no byte, and the matcher
  never takes a byte of an earlier fill, or one past the buffer, for a byte of the input.
* `StreamSpec`: wherever `fill()` cuts the input, its tokens are handed over in order,
  each with its bytes, and all of them are. It leaves open the bytes of strings longer
  than the buffer, and its inputs have a space between a word and what follows it, or
  are short enough to be read at once (see below).
* `ReadsText`: every byte of the text is read once, in order, as a part of what the rules
  find there: the longest word, a comma, a terminator with all the blanks up to its last
  line, a string up to the quote that closes it, a comment. Where `StreamSpec` compares with
  the tokens that an input was put together from, this reads them off the text, and it says
  what is passed over and where the scan ends, too. The bytes of a string that is longer than
  the buffer are a beginning of it.
* `DoesTheScript`: the statements that reach the store are those of the text, with an
  included file in place of its name, each with the contexts and flags of its own file.
  What `Scripts` calls the meaning of a script is written over the text alone, by
  recursion on files, and knows nothing of callbacks, sessions or stacks.
* `ContextsCounted`, `CallbackTop`, `IncluderWaits`: the drivers on the stack do not get
  into each other's way, because each counts what it pushes, has a session of its own and
  gives the callback back.
* `StatusHonest`: a reply says OK iff everything in the request was done. A query that
  finds nothing has a code and no error, so that only the last one shows.
* `ErrorsDoNotLeak`, `RequestContextStays`: a request has its context and no other
  request's errors.

**Fairness.** The store's specification has none: each of its properties is a safety
property, and what can stop an operation is the end of the process. `Scanner`, `Tagsh`
and `Httagd` assume weak fairness of the steps that the one thread takes by itself
(`Step` of the scanner, `Work` of the shell and the server): a loop or a handler that has
begun runs on, for nothing in it waits. What the environment does (a line is typed, a
request comes) is in no fairness condition. On this rest the last part of `StreamSpec`
(every token is handed over), `EveryCommandEnds` and `EveryRequestAnswered`.

### Where code and documentation disagree

Each run checks one property and finds it violated; `PROJECT.json` quotes what the
repository says.

| Run | Property | What happens |
|---|---|---|
| `OwnSubtree` | `Rooted` | `put` under a descendant makes a cycle, off the tree |
| `QueryExact` | `QueryExact` | a query whose predicates no tag satisfies together returns tags that satisfy one: an empty set is taken for no set yet |
| `LostMarker` | `TokensExact` | in an input that ends like `dog,horse` the comma (or semicolon) joins the first word: `fill()` sets `_mark` to the cursor while the matcher looks for a longer match. With fewer bytes after the first word (`w,x`) `fill()` has met the end of the input before, and is not called again |
| `IncludeReplies` | `NeverAborts` | a request that includes a file is finished twice, the second time by an assertion |

More was met while modelling that has no run of its own:

* A crash between the two statements of `update()` leaves ranks moved and super objects
  not (`sqlite.cc:2148`; in the model: `Crash`).
* The 42nd, 63rd and 91st child of a tag have `*`, `?` and `[` in their ranks, which GLOB
  reads as patterns (`sqlite.cc:2132`; `Glob` in `Ranks` does, too).
* `update()` gives `substr()` a number of bytes where it counts characters, so from the
  ordinal 128 on a move cuts ranks in the wrong place (`sqlite.cc:2140`; in `Shifted`).
* `del()` of a tag looks its referents up after it has deleted them, and their aliases
  stay marked in `terms` (`sqlite.cc:1313`; in `DelTag`).
* `del()` of relations does not write the search table (`sqlite.cc:1358`; that this is
  the only way it falls behind is `SearchFollows`).
* A put through an alias of `_entity` passes the check for hard tags and rewrites every
  rank (`sqlite.cc:1094`).
* `push_context()` answers a name that is no tag with `TS_INTERNAL_ERR`, which `codes.h:53`
  keeps for an "error not due to caller input" (`tagdb.cc:25`; in `PushContext`).
* A word of `BUF_SZ` - 4 bytes or more comes out wrong. The matcher asks for five bytes, so
  `fill()` finds the buffer full while `_cur` is four bytes before its end, where its comment
  has it "at the end of the buffer". All bytes but the last go to `_val`, those after `_cur`,
  too, and the one at `_cur` is kept: it takes the place of the last one, and a blank between
  the two becomes part of the word (`scanner.cc:65`; in `Overflow`; `TokensFit` keeps
  the inputs of the run and of the theorems clear of it).
* A quoted string that is longer than the buffer comes out short
  (`scanner.cc:197`; in `CloseQuote`).
* The rule for any byte of a string takes the NUL at the end of the input for one: after a
  string that nothing closes the matcher goes on behind the input (`scanner.h:174`; in
  `Unclosed`). A block comment has a rule for that, which reports it (`scanner.h:164`).
* `tagsh.cc:58` says that an error "stops the scanner"; in a file that has set no
  context there is no session to report it, and the file goes on (in `HandleCmdError`;
  the meaning of a script in `Scripts` says the same).

Two more consequences. A
rank that outgrows `RANK_MAX_LEN` in a move is read back as the empty rank, so the
next move of its tag has a pattern that matches every row (the model has the
behaviour: `TagdbOverlong` checks that the tree survives it). A referent that is
refused leaves its alias marked as one in `terms`, so that a tag of that name
is then ambiguous (in the model: `PutReferent`).

## 4. What is proved

All theorems hold for every set of names, every seed that is a tag tree, every set of
requests, files, lines and inputs, and every bound. What is assumed of the constants is
what they stand for:

* `Tagdb`: `NamesAssumption` (names are no values of another kind), `ClientsAssumption`,
  `SeedAssumption` (the hard tags are a tree with ranks that follow it); `Ranks`:
  `RankMaxLenAssumption`.
* `Driver`: `DepthAssumption` (there is room for one driver), `TextsAssumption` (a text is
  a sequence of statements, a context statement names contexts); `Tagsh`:
  `LinesAssumption`; `Httagd`: `RequestsAssumption` and `WrittenAssumption` (where a request
  has no body the server writes its statement itself, and it writes no include).
* `Scanner`: `BufSizeAssumption` (seven bytes or more: what is asked for at the start of a token), `InputsAssumption` (a text has no NUL).

| Theorem | Statement |
|---|---|
| `TypeCorrect` | `Spec => []TypeOK` |
| `ReferencesStay` | `Spec => []ReferencesExist` |
| `NamesStayKnown` | `Spec => []NamesKnown` |
| `StoreImplementsTree` | no `"ownSubtree"` hazard: `Spec => TreeSpec` |
| `TagsStayRooted` | no `"ownSubtree"` hazard: `Spec => []Rooted` |
| `SearchStaysComplete` | no `"crash"` hazard: `Spec => []SearchComplete` |
| `SearchOnlyLosesRelations` | `Spec => SearchFollows` |
| `AliasesStayResolvable` | `Spec => []AliasesResolve` |
| `RanksFollowTree` | `SmallStore`: `Spec => []RankExtendsSuper` |
| `RanksStaySelective` | `SmallStore`: `Spec => []RanksSelectSubtrees` |
| `QueriesSelect` | `SmallStore`, no alias of `_entity`: `Spec => []QuerySelects` |
| `ErrorsAreCallers` | `SmallStore`: `Spec /\ [](Contexts \subseteq Tags) => []NoInternalError` |
| `TreeStaysRooted` | `TagTree`: `Spec => []Rooted` |
| `ShellTyped`, `CallbackStaysOnTop`, `ContextsStayCounted`, `LinesLeaveNoErrors` | `Tagsh`: `Spec => []TypeOK`, `[]CallbackTop`, `[]ContextsCounted`, `[]CleanAfterLine` |
| `IncludersWait` | `Tagsh`: `Spec => IncluderWaits` |
| `ShellDoesItsScript` | `Tagsh`, not `SharedErrors`: `Spec => []DoesTheScript` |
| `ServerTyped`, `RequestContextKept`, `ErrorsStayWithTheirRequest`, `OnlyIncludesAbort` | `Httagd`: `Spec => []TypeOK`, `[]RequestContextStays`, `[]ErrorsDoNotLeak`, `[]OneReply` |
| `StatusStaysHonest` | `Httagd`, `SharedErrors`: `Spec => []StatusHonest` |
| `PointersStay`, `NoByteIsLost`, `LooksStayInside` | `Scanner`: `Spec /\ []TokensFit => []TypeOK`, `[]NothingLost`, `[]ReadsInside` |
| `ShortTokensFit` | `Scanner`, `ShortTokens`: `Spec => []TokensFit` |
| `ScannerReads` | `Scanner`: `Spec /\ []TokensFit => Lex!Spec` |
| `ScannerReadsText` | `Scanner`: `Spec /\ []TokensFit /\ []MarkKept => ReadsText` |
| `SpacedTextIsRead`, `ShortTextIsRead` | `Scanner`, `ShortTokens` and `Spaced`, or `InOneRead`: `Spec => ReadsText` |

**The invariant of the store.** `StoreInv == TypeOK /\ Control /\ ReferencesExist /\
NamesKnown`. None of the first, third and fourth is inductive alone: an insertion is of a
name that is no tag only because `get()` says "not found" only of such names, and it does
that only because `terms` has all names in use (`NamesKnown`); recounting the parts
of speech after a deletion keeps a name that others use only because rows name
tags that are there (`ReferencesExist`); and a running `put()` inserts relations of a
tag that exists because it got there through a statement that put it there
(`Control`).

`OccurrenceInUse` is the step that keeps the proofs short: where references exist, a
name occurs somewhere iff it is a tag, a modifier or an alias. Every action is then
one of two kinds: it uses more names and puts them in `terms` (`TermsGrow`), or it
uses fewer and counts some again (`TermsRecomputed`), whichever it counts.

**The search table.** `SearchInv` is `SearchComplete` for every tag but the one that a
running `put()` is at: that one has rows which are indexed last. It is stable because
`put()` comes to `PutFts` on every path that has added a row, also the one where a relation
is refused. A crash takes the path away, hence the condition.

**The refinement.** `MoveSound` says that the destination that `update()` is about
to write is not below the tag; it survives the first statement because that one
leaves super objects alone. With it every step is Add, Move, Remove or a stutter
(`StepOfTree`). The initial states are trees because ranks are (`SeedIsTree`): in a
set of tags one has the shortest rank, and its super object has a shorter one.

**The tree.** `Above` and `Rooted` are stated by sets closed under "super object of",
without recursion; from every set of tags some super object leads out. That makes
`TreeStaysRooted` provable without an induction over paths: a set that a Move would
trap, together with what leads to it, would be closed in the tree before.

**Ranks.** That no two tags share a rank (`RanksDistinct`) needs nothing: the column is
unique, and rows that are rewritten by one statement are checked with it. It makes the
winner among referents unique (`AliasesStayResolvable`), whatever else went wrong.
For the rest a store has to be small: `SmallStore` says that no client breaks the interface
and the process does not end in a `put()`, that `MaxOrdinal < 42` and `MaxDepth <
RankMaxLen`, and that the seed keeps to both. The first bound is sharp: 42 is `*`, which
GLOB reads as a pattern, so that with an ordinal of 42 the rows of other subtrees are
rewritten with a subtree that moves. `MaxOrdinal` and `MaxDepth` are the model's own bounds
on what `put()` hands out, so a theorem under `SmallStore` is about a store in which no tag
ever has 42 children and no rank gets to `RANK_MAX_LEN`; the hard tags of the program do.
`RankInv` is `RankExtendsSuper` with the super object of a tag replaced by its
`Destination` while `update()` is between its two statements; `RanksSelectSubtrees` follows
from it by the shortest rank of a closed set, as in the seed. `ErrorsAreCallers`
has a condition on the states, too: the names that a client pushes as contexts
(`Contexts`) are tags when it does, for `push_context()` answers any other name with an
internal error.

**Queries.** `QueriesSelect` is for every question: any finite set of predicates, in any
order, over any tables. For one predicate, what the patterns select is what is below
(`RelatedIsAnswering`, by `GlobIsAbove`'s argument). For several, `Joined(S, n)` says
outright what the first `n` sets have in common: the tags of these sets that have a tag
of each above them. Ranks make the tags above one tag a chain (`AboveOrder`), so of the
tags that are found above it, one in each set, the lowest is itself in `Joined`
(`LowestJoins`); without that, a tag that `query()` drops at one set could be missing when
a later one asks for it. Then one merge takes `Joined(S, n - 1)` to `Joined(S, n)`
(`MergeJoins`), provided no set on the way is empty, which is where `QueryExact` fails. The
recursive function of `RelatedByAll` is met by a least set at which it would differ
(`LeastNumber`), which is the induction without the library's theorem about it. The root has
no rank: `RootApart` says that it is the subject of no relation, as no client names it and,
by assumption, no alias stands for it; and the names asked for do not include it either.

**The stack of drivers.** `DriverInv(base)` of `DriverProofs` is what the shell and the
server share: each driver has the session of its place in the stack or none (so that no
two share one, which `include_file()` brings about by starting a driver without a session),
the callback is the height of the stack, and the contexts of a session are those that were
there at the start (`base`) and as many more as its driver has counted (`Accounted`).
`StatementDone`, `FileEntered` and `FileLeft` say it of the three kinds of steps, `Executes`
puts them together. `WellKept` adds what the shell knows: the host's driver has statements
left only while a line is interpreted, and errors between commands only after a load.
The second part is `LinesLeaveNoErrors`; the first is needed because nothing else
says that the shell cannot start an include while it waits for its user. That a command
reaches the right driver uses the invariant itself: the store's errors go to the driver that
the *callback* points at.

**The script.** `DoesTheScript` speaks of the shell between commands only, so its invariant
has to say what a state in the middle of a file still owes. `Promised` says that there are
outcomes `outs`, one for each driver on the stack: that of the driver at work is what the
rest of its text makes of what it has set and of the log (`Now`); that of a driver that
waits is what the rest of its text makes of the outcome above it, of which it takes the log
and the errors (`Resumed`); and that of the host's driver, once the command is over
(`Settled`), is `Script(files, commands)`. A statement then leaves every outcome as it is,
an include puts one on top of them, and a return takes one off; each is a matter of one
step of `Meaning` (`StatementKeepsPromise`, `FileKeepsPromise`). Only a new command changes
them, and it changes the script in the same way (`ScriptAppend`). A file that is included
means what `Included` says for the drivers that there is still room for, so the number of
outcomes and the room add up to `MaxDepth`. The recursive functions of `Scripts` are met by
the least number at which they could fail (`UpTo`, `Recursion`). The theorem is about
`tagsh`, whose driver and session have lists of errors of their own. `WellKept` and
`Papers` are what a step needs to know besides.

**Requests.** `ServerInv` says which phases have which drivers on the stack, that only the
end of a file leads to a reply before its time (`PhaseKept`), and that what the host's
driver has left of a request is the end of its statements (`Underway`), so that `Taken`, the
number of those done, is known. `HonestInv` then gives the meaning of the lists and codes:
after `k` statements the driver has errors iff the context was refused or one of the
first `k` is troubled, the code is that of the last call among them, and the log holds
the calls in their order (`Faithful`). `StatusStaysHonest` needs `SharedErrors`, as
`share_errors()` makes them in httagd; without it a context that the session refuses is
no error of the driver, and the statements after it run.

**The buffer.** `Placed` says which byte of the input each of the three parts comes
from: `Origin` is the place in the input of the first byte of the buffer, and `_val` ends
where the token begins in it. `Shift` and `Overflow` change `Origin`, everything else only
pointers, so that one lemma (`Moves`) covers the matcher. `LooksInside` has the reason why a
look of two bytes is safe: `fill()` has answered with at least two, or with a NUL (`Answered`,
`Ended`). The condition `TokensFit` is one on the input: `fill()` keeps one byte
when it splits a token, the one at the cursor, and that is the last one of the buffer only
in a string, where it asks for two. It fails for words with `BufSize` - 4 letters or more at their start, for
runs of blanks as long as the buffer, and for an escaped quote in the last two bytes
of a full one (the code then reads a byte past the buffer; `scanner.cc:73`). `ShortTokensFit`
says that it is no condition for ordinary inputs: where every run of bytes of a word or file
name is at least five bytes shorter than the buffer (at most 16,379 bytes in the program), every
run of blanks at least two, and no quote is escaped, every state has it. Quoted strings may
then have any length.

**The text.** That no byte is lost does not say that the tokens are the right ones. `Told`
does: it gives for each mode and rule of the matcher what the text has between the beginning
of the token, the cursor and the end of the match, all three as places in the text. So
`fill()`, which moves the buffer under the pointers, changes none of what it speaks of but
the end of the match, which it moves to the cursor (`FillTold`, `FillStays`), and to `Lexer`
it is a stutter. Every look of the matcher is then a lemma about text alone (`FirstTold`,
`MoreTold`), and where a match ends, what has been told of it is what `Lexer` asks for
(`AcceptReads`). The strings come in pieces; `TokenIsPiece` puts `_val` and the
buffer together again. `ScannerReads` is what holds of every input whose tokens fit: the only
steps that `Lex!Exactly` does not have are `Astray`, in which a word or a comma takes in bytes
that could go on to the name of a file, which is what `LostMarker` shows. `MatchTold` says
that a match still ends where its rule does; `fill()` keeps it unless it comes while the
matcher is past the end of a word or comma (`MarkKept`). Two kinds of inputs never come to
that: those in which no word or comma is followed by a comma, dash or word without a blank
(`Spaced`), in a buffer of any size, and those that the first read takes in whole, that
end in a blank or a quote and in which no dash comes right after a word (`InOneRead`): past
the end of a word or comma the matcher then asks for one byte at a time, and meets the blank
or the quote before the end of the buffer.

**Only model-checked**:

* `StreamSpec`: the tokens of an input are data that come with it, and how a text divides
  into all its tokens is again recursive; its last part is under fairness. Its counterpart
  that is proved is `ReadsText`, which compares one token at a time with the text.
* `EveryCommandEnds`, `EveryRequestAnswered`: liveness.

## 5. Not modelled

| Part | Why |
|---|---|
| search terms, comparison of modifiers by number, `query_referents` | SQLite's full text search and casts decide the result; no state |
| order of predicates, encoding of results into referents | planned |
| clauses of TAGL statements, lookup of parts of speech | a statement is one step of a driver; planned for the tag that is built up over clauses |
| numbers, URIs, block comments and the other symbols of the scanner; what it reads after a string that nothing closes | generated automata of the same kind as those modelled, with other numbers of bytes to ask for in their loops (`Needed` has what the rules for URIs make of the loops that are modelled, not the loops behind a colon); what they read was left out for size |
| the scanner of tag URLs, views and templates of httagd, static files | translation and output of text, no state between requests |
| byte codec of ranks, `rank::next` over a set | values only; abstracted in `Ranks` |
| dumps, tracing, prepared statements, printing | output, no state |
| URLs, domains | text parsing, character by character |
| files, terminal, history | I/O |
| lemon, generated automata and tables | vendored or generated |

Most of the repository's lines are of the last kind: the table of public suffixes alone
has 46,187 of some 65,000 lines, the parser generator and its template 6,800. The map
names the lines of the program's own logic.

## 6. Plan

Most important first; the first eight are done.

1. `Ranks`, `TagTree`: the rank operations and the abstract tree.
2. `Tagdb`, `MCTagdb`: the store statement by statement, its runs.
3. `TagdbProofs`: type correctness, references, names, the refinement, the search table.
4. `Queries`: queries of relations over the tables of `Tagdb`.
5. `Scanner`, `TokenStream`, `Lexer`: `fill()` and the refinements.
6. `Driver`, `Tagsh`: included files, contexts, flags and errors in the shell.
7. `Httagd`: requests, replies, shared errors.
8. `TagdbRankProofs`, `DriverProofs`, `TagshProofs`, `HttagdProofs`, `ScannerProofs`: ranks
   and the tree, aliases, the stack of drivers, requests, the buffer, what queries
   select, what a script does, what the scanner reads.
9. `PredicateOrder`: `predicate::operator<` as a relation, checked for a strict weak
   order over small predicates.
10. Referents: encoding of results, and whether it inverts decoding.
