# A TLA+ specification of kdl-go

`kdl-go` reads, writes, marshals and unmarshals KDL documents. This directory
holds TLA+ modules translated from its source, the TLC configurations that
check them on small instances, and TLAPS proofs of what holds for every
instance. `PROJECT.json` maps each definition to the lines it models and lists
the runs, the mutants that show each property can fail, the hazards and the
theorems.

    tlc -config KdlParserNesting.cfg MCKdlParser.tla     # one run
    tlapm KdlParserProofs.tla                            # the proofs

## 1. The system

| component | source | state | operations |
|---|---|---|---|
| scanner buffer | `internal/tokenizer/scanner.go` | `raw`, `input`, `peeked`, `marks`, `r`, `err`, `token` | `NewBuffer`, `peek`, `peekTwo`, `get`, `refill`, `pushMark`, `popMark`, `copyFromMark`, `copyInput`, `Scan`, `ScanOne` |
| recognisers | `internal/tokenizer/readtype.go`, `ctype.go` | none of their own | one `read...` per kind of token, each a sequence of buffer calls |
| token vocabulary | `internal/tokenizer/token.go` | none | ids, classes, `Valid`, `Clear` |
| parser | `internal/parser/{parser,context,transitions,state}.go` | `ParseContext`: state stack, node stack, held tokens, `/-` flags, pending comment | `Parse`: one handler per (state, token id or class) |
| recent tokens | `internal/parser/recent.go` | a ring of five tokens | `Add`, `Get`, `TrailingNewlines` |
| parse loop | `kdl.go` | none | `for s.Scan() { p.Parse(c, s.Token()) }` |
| document | `document/*.go` | nodes, arguments, ordered properties | `AddNode`, `AddArgumentToken`, `AddPropertyToken`, `WriteTo...` |
| values, strings, numbers | `document/{value,strings,suffixeddec}.go`, `internal/coerce` | none | token to value, value to text, value to Go number |
| generator | `internal/generator` | output options | writes a document |
| marshaler | `internal/marshaler/{marshal,unmarshal,util}.go` | the type index of one call | Go values to nodes and back |
| type index, custom registry | `internal/marshaler/typeindex.go`, `marshal.go`, `unmarshal.go` | package-level maps, `createdTypeIndexer` | `AddCustom...`, indexing of a type |
| relaxed flags | `relaxed/relaxed.go` | a flag set | `Permit` |

**How they interact.** Everything between an `io.Reader` and a `Document` is
one goroutine: the loop of `kdl.go` asks the scanner for a token and hands it
to the parser. They share memory, though: a `Token.Data` may be a slice of the
scanner's buffer, the parser keeps tokens (`c.ident`, `c.typeAnnot`, the ring)
across calls, and the next `Scan` may move and overwrite that buffer. The parser
calls into the document for every value. Goroutines meet in two places only:
the static scanner of `ScanOne`, behind a mutex, and the custom marshaler
registry, which is written by `AddCustom...` and read by every marshal.

**What is hard.** No part of this waits, retries or persists anything. What is
hard is *long sequences*: a parser whose ten states, two stacks, two held
tokens, four flags and one comment buffer are updated by forty handlers in an
order the input chooses; a buffer that is moved, enlarged and refilled at
any character inside nested marks; and pairs of functions that must undo each
other without a common table of what they agree on (quote and unquote, write and
read, marshal and unmarshal). The other hazards are a reader or a writer that
fails at an awkward byte, a scanner shared by goroutines, and registration that
races with use.

**What makes each part correct.**

- *Parser*: its stacks never run out and always agree; the tree follows the
  nesting of the text; a held token becomes exactly one argument or key, or is
  dropped under a `/-`; nodes, arguments and properties that a `/-` covers are not
  in the document; a `\` continues the node it stands in and no other; a comment
  is on one node, once.
- *Scanner buffer*: the characters delivered are those of the document, in order
  and all of them, whatever the refills; a token's text is the text that was read
  and stays so while it is in use; the end is reported at the end and an error is
  reported as one.
- *Recent tokens*: the ring is the last five tokens at every offset of its head.
- *Values and strings*: text to value to text is the identity; every width
  boundary goes to the right representation.
- *Reader and writer*: what is returned was read to its end; what is written is
  read back as the same document, or the caller is told.
- *Static scanner*: a caller is answered the `ID` and `Data` that a scanner of its
  own would answer.
- *Marshaler*: what a strict unmarshal accepts it stores; what is marshaled is
  read back as the same value; neither depends on the order of a Go map.
- *Registry*: a custom marshaler is refused, or called by every operation after it
  was registered, at each place that asks for one of its kind.

## 2. The modules

| module | models | correspondence |
|---|---|---|
| `KdlTokens` | `token.go` | `TokenIDs`, `Classes` as the source has them. A token is its id and a *form*: `plain`, `malformed` (its text does not convert), or, for a newline, `wide` (two bytes) |
| `RecentRing` | `recent.go` | `RingAdd`, `RingGet`, `TrailingNewlines` (the loop of the source, as a recursive function of the slots walked) and `BlankLines`, a definition without a loop that the parser module uses |
| `KdlParser` | `internal/parser` | one action per handler of `stateTransitions`, named *state + key*; `Handler` is the dispatch by id, then class; `Failure` collects the error returns, in the order a handler would meet them |
| `NodeTree`, `KdlParserTree` | the promise of the parser | an abstract tree builder (open nodes, open blocks, no tokens and no parser states), and the refinement mapping to it |
| `KdlScanner` | the buffer half of `scanner.go` | a buffer cell holds a position of the document, so the model says which text a slice holds. `Peek`, `PeekTwo`, `Refilled`, `Get`, marks and copies are operators on the scanner record; the actions are the calls recognisers make |
| `ScanCalls`, `PrivateScanner` | the promise of `ScanOne` | a call and its answer; each caller with a scanner of its own |
| `StaticScanner` | `ScanOne` | the scanner, its mutex, and the calls interleaved character by character; an instance of `PrivateScanner` states what it promises |
| `KdlChars`, `KdlLexer` | `ctype.go`, `readtype.go`, `readNext` | characters and their classes; each `read...` function an operator from a text and a position to the token and where it ends, to `Failed`, or to `AtEof` where the source lets an `io.EOF` out. `Misread`: the words that are written bare and read as something else |
| `KdlStrings`, `KdlValues` | `strings.go`, `value.go`, `suffixeddec.go` | quoting and unquoting, and what cannot be unquoted (`Unquotable`); `ValueFromToken`, `parseNumber`, `ParseSuffixedDecimal`; `Value.value` with its options |
| `KdlReader` | `parse` in `kdl.go` | the loop, one round a step, composing `KdlLexer`, `KdlValues` and `KdlParser` |
| `KdlWriter` | `generator.go`, `Node.WriteToOptions` | the `Write` calls, any of which may fail. `WriteLeaf` is the call for a node without children, `EnterChildren` and `LeaveChildren` what one with children writes before and after them; `todo` holds the loops over the children that are under way, and `NodeReturns` what a loop does with the error of a call |
| `KdlText` | | writer and reader composed: a document is written and its text read |
| `GoValues` | `typeindex.go`, the comments of `",structure"` fields | types, values, fields by tag and name, the keys of comments |
| `KdlUnmarshal`, `KdlMarshal` | `unmarshal.go`, `marshal.go` | one operator per function, giving the value or nodes, or that it failed or panicked |
| `KdlMarshaler` | `UnmarshalDocumentWithOptions`, `Marshal...` | both, one node, field or key a step |
| `CustomRegistry` | `AddCustom...`, `createdTypeIndexer`, the type index, and who looks into it | goroutines registering and operating; a map write takes two steps, so that races show; which handler each place in a document asks for, and for which type |
| `KdlParserProofs`, `KdlParserRefinement`, `RecentRingProofs`, `KdlScannerProofs`, `KdlReaderProofs`, `KdlWriterProofs`, `StaticScannerProofs`, `CustomRegistryProofs` | | theorems, section 4 |
| `MC...` | | inputs and bounds for TLC |

Choices a reader should know of:

*Parser.*

- A handler that fails changes nothing in the model but `result`. In the source
  it may have changed the context before it fails, and every caller then drops
  the context (`kdl.go:22`, `parser.go:130`).
- `nodes` holds every node ever created, with its parent: attached (`addNode`) or
  `Detached` (`createNode`, under a `/-`). The tree of the document is what is
  reachable from `Root`.
- Values are the ids of their tokens. That a conversion may fail is in the model
  (form `malformed`, `BadValue`); `KdlReader` derives the form from the text.
- The ring is filled, in the model, only while comments are read: nothing else
  looks at it (the code always adds, `parser.go:111`). A property that is given
  twice is there twice, where `Properties.Add` overwrites the first.
- `suppressed` is history: for each open brace, whether a `/-` covers it. The code
  has only a counter, `ignoreChildren`; relating the two is a property.

*Scanner.*

- In `KdlScanner` a recogniser is any sequence of marks, look-aheads and
  characters that a `read...` function could make, at any character. Two
  things follow the source closely because properties rest on them: a peek of two
  characters comes after a first one of one byte, and tokens longer than two
  characters are read from a mark. `KdlLexer` is the other half: it knows
  which tokens there are and has the whole text before it. What joins them is
  that `KdlScanner` delivers the characters in order (`PeekIsNextCharacter`).
- `s.len` equals `len(s.input)` always, and is computed. A token that the end cuts
  off is an error in `KdlScanner`; that some are taken for the end of the
  document is in `KdlLexer`.
- `Token.Line` and `Token.Column` are left out. `ScanOne` does not reset `s.line` and
  `s.column` (`scanner.go:325`), so these two fields of its answer do depend on
  earlier calls; its one caller, `marshal.go:469`, reads neither.
- In `StaticScanner` the recogniser is a constant: what to do next given the
  characters got and peeked at so far. The proofs hold for each.

*Reading and writing.*

- A text is a sequence of characters: those of ASCII that the code tells apart,
  names such as `<e9>` for one of each other kind, and `Bad` for bytes that are
  not UTF-8 and for U+FFFD.
- A number is *m* · 10^*e*. The ranges of `int64` and `float64` are constants, and
  TLC gives them small values, so that both sides of a limit are reached; the
  rounding of floats is not modelled.
- A document for the writer has its properties in the order in which the map is
  ranged over this time.
- The `err` of a call of `WriteToOptions` is one field of the writer: a node whose
  child is being written has had no error (`EnterChildren`), so one is enough.

*Marshaler.*

- A string stands for every scalar (`internal/coerce` is left out) and `text` for
  a type with `MarshalText` and `UnmarshalText`. Pointers are followed and
  embedded structs flattened.
- Operators carry a flag, `can`: whether reflect may set the destination. What
  `MapIndex` and `Elem` return cannot be set; most panics come from there.
- On an error the destination keeps what the nodes before stored. The code also
  leaves what the failing node had stored (`unmarshal.go:1357-1389`); no property
  looks at it.
- They also carry an `order`, a ranking of names chosen anew at every step, for
  ranging over properties and map keys.

*Registry.*

- There are four maps, of nodes and of values for each of the two sides. What an
  operation works on is a sequence of *things*: of each its type, whether it is a
  pointer, and where it stands, since that decides which of the maps is asked: a
  node with exactly one argument or another one, a `",arg"` field, a property, an
  entry of a `",props"` map. Whether the code has followed the pointer by the time
  it asks depends on the place too (`LookedUp`; `marshal.go:509,665`,
  `unmarshal.go:243-302`).
- A thing may be held in an interface; its type is not indexed then, and it has a
  handler only if a field of that type is in the same operation
  (`typeindex.go:438-451`).
- An access to a map that someone is writing is a data race; the model stops there,
  since anything may follow. Races are overlaps: a write that has ended, with
  nothing that orders it before a read, is one in Go's memory model and not here.
- Left out: the elements of `",multiple"` fields, types with methods of their own, nil
  pointers, and the entries of a map at the root, whose details are nil and whose
  marshaling panics before a handler of values is reached (`marshal.go:676`).

## 3. The runs

`CHECK_DEADLOCK FALSE` is set where the work ends: at EOF, at an error, with the
last field, or at a bound. `sharing` has it checked: goroutines that call again
and again must never all wait.

| run | checks | what it shows |
|---|---|---|
| `nesting` | `TypeOK`, `StackShape`, `NoInternalError`, `ContinuationStaysInNode`, `SuppressedBlocksCounted`, `OpenNodesNest`, `ImplementsNodeTree`, `OnlyCurrentNodeChanges`, `SuppressedBlocksLeaveNoTrace` | every token stream of nodes, blocks, `/-`, `\` and line ends: the stacks agree, the tree follows the text, no node, argument or property that a `/-` covers reaches the document |
| `values` | `StackShape`, `HeldTokenHasAnOwner`, `HeldValueAccountedFor` | everything that can stand in one node, in strict and relaxed syntax: no held value is lost or given to another node |
| `recent_ring` | `GetIsTheLastTokens`, `TrailingNewlinesAreBlankLines` | every stream of up to seven tokens, so that the ring wraps; the loop of `TrailingNewlines` against its meaning |
| `scanner` | `TypeOK`, `PeekIsNextCharacter`, `RefillKeepsMarkedText`, `SmallDocumentsKeepTheirTokens` | no character and no marked text is lost in any interleaving of reading, marking and refilling |
| `sharing` | `TypeOK`, `ImplementsPrivateScanner` | two goroutines in `ScanOne` get the `ID` and `Data` that scanners of their own would give, and get them |
| `text` | `ReaderTypeOK`, `NothingUnread`, `TruncationIsRefused`, `SuffixesOnlyAdd`, `LossIsReported`, `TextReadsBack`, `CommentsReadBack`, `CommentsConserved` | what the pipeline reads in full, refuses and overlooks; what is written, on a writer that may fail, and exactly what of it does not come back; a comment between nodes is on one node or pending |
| `marshal` | `TypeOK`, `NothingIsDropped`, `PanicsOnlyHere`, `RoundTrip`, `CommentsComeBack`, `LenienceChangesNothing`, `OrderDoesNotMatter` | documents into Go values and out again: what is kept, what panics, which comments come back, what depends on options and orders |
| `registry` | `TypeOK`, `HandlersFreeze`, `ReadsRaceOnlyWithPending`, `RegisteredHandlersAreCalled`, `NilCallsOnlyHere` | two goroutines that register and operate in every interleaving, with things at every position of both sides: which handler is called, and which call is of a nil function |
| `phantom_argument`, `token_data`, `marked_text`, `reader_error` | one property each | the disagreements below |

**Fairness.** `StaticScanner!FairSpec` asks for weak fairness of what the holder
of the mutex does (a goroutine that can run does run) and strong fairness of
taking it: `sync.Mutex` hands itself to a waiter that was passed over for a
millisecond, so no one is passed over for ever. With them every call is
answered; `Private!FairSpec`, the abstract specification, has weak fairness of its
answers. Nothing is asked of callers. No other specification states fairness:
the rest is sequential or, in the registry, only about safety. That the loop of
`kdl.go` comes to an end is a safety property, checked and proved: in
`ReaderTypeOK` every round but the last reads at least one character.

**Bounds.**

- *Parser*: three nodes and a state stack of five let a block be opened
  in a node in a block, closed, and followed by another node, which is the deepest
  situation any handler looks at (a handler sees the top of each stack and
  `ignoreChildren`). One value per node suffices because a handler only looks
  at the value held; more depth is covered by the proofs. `values` uses one node because a
  node's values do not depend on its neighbours except through the flags that
  `nesting` covers.
- *Ring*: the size is the source's, five, and streams of seven wrap it; the blank
  lines are those of the whole stream, so that a ring that has forgotten a
  line shows.
- *Scanner*: a buffer of eight bytes and
  characters of up to two, so that the low-water mark is four (the source: 64 KiB
  and 8), the smallest sizes with `BufferSize >= 4 * UTFMax`, which
  is all that is asked of them; documents of up to seventeen bytes fill the first buffer, an enlarged
  second one, and end before, at and after the end of each; wide characters stand in every phase
  against the boundary, and some documents are not UTF-8; two nested marks, as in `readDecimal`; one token held
  by the caller, which is the parser's `c.ident`.
- *Sharing*: two goroutines calling again and again, eight texts: numbers, words
  and comments, complete, failing and cut off, so that each leaves the scanner in
  another state for the next call.
- *Text*: every two of 36 pieces at the start of a text and after a name, every
  three of 15 and four of 9 after `a {`, in a child block, and every four
  of 6 lines with comments, blocks and `/-`, at the start and in a block, which lets one
  comment be pending while another is on a node; read with each relaxed flag
  and with `ParseComments`.
  Documents of one node with every kind of value, 24 strings as name, key and
  value, and trees of three with comments (`Nodes` is all of these and what is in them), written with each option; comments of up to two lines of text, with one or two
  blank lines before or between them; a writer
  that fails once or for good, at each of the first 30 writes, which is more
  than any of these documents needs. `MaxInt` = 255 and `MaxTens` = 12 put values
  on both sides of the limits of integers and floats.
- *Marshal*: one node of every shape (up to two arguments, two properties and a child
  that may have properties, or two children) into structs with a field of every kind, and
  into maps, lists and texts; two nodes, which is what it takes for a
  ",multiple" field or a comment to matter; two opposite orders of names at each step.
  Lists, arrays and texts are given to top-level nodes, and no name is a number.
- *Registry*: two goroutines, three calls altogether, which is what it takes to
  register, operate, and register again or operate beside it; two types that share
  a name; operations on one thing at any position of either side, or on two that
  meet in the index. More goroutines, calls and things are covered by the proofs.

**Disagreements found** (runs that expect a violation):

1. `phantom_argument`: after a child block, `stateArgProp` is resumed with
   nothing held, and whitespace, a value or a `/-` adds the absent token as an
   argument (`transitions.go:397`).
2. `token_data`: `copyFromMark` slices the buffer while streaming, and the next
   refill overwrites it (`scanner.go:248`, against the comment of `Token.Data`).
3. `marked_text`: a refill that finds the reader exactly at its end has moved the
   bytes and the marks and leaves `raw` and `input`, so that `copyFromMark` gives
   more than was marked (`scanner.go:207`, against its comment at 243). The
   reader has not failed: the document is a multiple of the buffer's size long.
4. `reader_error`: `Scan` overwrites the error `refill` stored
   (`scanner.go:746`).

**Pinned down in properties.** These hold with their exceptions written out, so
that a run fails if another exception appears (and, for `TextReadsBack`, which is
an equivalence, if one goes away):

- `NothingUnread`: a lone `0`, `-`, `+` or `/` at the very end is taken for the
  end of the document (`scanner.go:398`), and so is a number that ends in its `e`.
- `TruncationIsRefused`: a document cut off inside a block is refused at the end of
  a line and right after the `{`, blanks and comments aside; in the middle of a
  node, or of a line that a `\` continues, it is accepted (`kdl.go:26`).
- `LossIsReported`: a write that fails once is forgotten in a child block, and
  before or after a comment or an assignment sign; `kdl.go:53` promises an error
  (`node.go:335`).
- `TextReadsBack`: control characters are escaped as `\u1`, not `\u{1}`
  (`strings.go:107`); `true`, `-1`, `_a`, `r#a` are written bare and read as
  something else (`ctype.go:100`); a hexadecimal value loses its annotation, a
  negative number in a base has its sign after the prefix and a `big.Int` has no
  prefix (`value.go:96`); `;` right after a number in a base, and a comment right
  after a value, make the text unreadable (`readtype.go:483`, `node.go:360`); a
  `big.Float` that is 0.
- `TrailingNewlinesAreBlankLines`: the blank lines are those within reach of the
  ring. A newline in its oldest slot counts, whatever it ended, and one that the
  document begins with does not, while the ring is not full (`recent.go:54`).
- `CommentsReadBack`: a comment after a node is written and not read back. Of
  several blank lines in a row in one before a node one is written
  (`node.go:263-276`), and one that the document begins with is read as none
  (`recent.go:54`).
- `NothingIsDropped`: a list drops the children of its node
  (`unmarshal.go:892-935`); a type with `UnmarshalText` takes the one argument of a
  node and drops its properties and children, in strict mode too
  (`unmarshal.go:302-304`).
- `PanicsOnlyHere`: an array, as target, `",args"` or `",multiple"` field; fewer
  arguments than `",arg"` fields (`unmarshal.go:649`); `AllowUnhandledChildren` with
  children and no field for them (`unmarshal.go:755`); a `",children"` field of
  interface type, both ways (`unmarshal.go:769-774`, `marshal.go:941`); a
  `",multiple"` map without a key; a map of `MarshalText` types, whose details are
  nil (`marshal.go:675,682`), as the root or as a `",children"` field; something
  stored twice where the first cannot be set again, against
  `docs/unmarshal.md:470-472`, which says the second overwrites the first. The list
  is for the types of the run.
- `CommentsComeBack`: a comment is kept under a key made of the node that was read and
  looked up under one made of the node that is written (`typeindex.go:129-145`).
  It is lost where the two differ: nodes stored in structs; nodes with children
  that a list drops, and arguments or properties; nodes in maps and
  interfaces some of whose children are no more than one argument, and so become
  properties, unless all are and there is nothing else. The comments of children
  in a map come back only if there are children alone, none of which becomes a
  property.
- `LenienceChangesNothing`: with `AllowUnhandledChildren` a node with children panics
  that a struct takes without it (`unmarshal.go:749-755`).
- `OrderDoesNotMatter`: two properties that differ in case only go to one field in
  the order of a Go map.
- `RegisteredHandlersAreCalled`, `NilCallsOnlyHere`: the index is keyed by
  `typ.String()` and has one entry for `T` and `*T` (`typeindex.go:257-293`), so a
  type may miss its handler for another's, and a nil function may be called: for
  `*T` where `T` is registered, which `docs/unmarshal.md:953-978` shows as an example
  (a handler of `Person` and fields of type `*Person`; `unmarshal.go:285-290` asks
  for the type of the field), and for a `*T` of a `*T` handler where marshaling
  has followed the pointer (`marshal.go:665,509`). What an interface holds has a
  handler only by accident. A handler of nodes is not asked at arguments and
  properties; one of values is asked at nodes too, against `docs/marshal.md:857`
  and `docs/unmarshal.md:1006`: at every node that is marshaled (`marshal.go:668`),
  and at those with exactly one argument that are unmarshaled
  (`unmarshal.go:302`).

**Met on the way, in no property**: a `//` is accepted between an annotation and
its value where a `/* */` is refused (`transitions.go:236`, against the comment at
230), and stays pending over the end of the line, as does the `/-` that ends a
node (`transitions.go:225`, which `popNodeAndState` does not clear);
`UnmarshalWithOptions` passes its options to the scanner and not to the
marshaler (`unmarshal.go:68`); a field tagged `-` is unmarshaled
from a node named `-`, against `docs/unmarshal.md:550,555`. A `\` lasts until the
first token that is neither newline, blank nor comment, over any number of lines
(`parser.go:77-84`), where `context.go:45` speaks of the next newline;
`ContinuationStaysInNode` says only in which states it can be pending. A comment
inside a block that a `/-` covers is appended to the comment after the node added
last, which may be one that was closed, and is written with the document
(`transitions.go:152-160`); what is said of covered text and of closed nodes is
about nodes, arguments and properties, and `CommentsConserved` counts such
comments with the others.

## 4. The proofs

For every set of input tokens, option set and ring size, with the bounds
left as unconstrained parameters, so for documents of any size and depth; for every
text, buffer size, encoding and depth of marks; for any
number of goroutines, any recogniser, any types and any handlers:

| theorem | property | in |
|---|---|---|
| `RunsTakeAnyTokens` | what the runs check is a case of `AnyTokens`, the hypothesis of the parser's theorems | `KdlParserProofs` |
| `TypeCorrect` | `TypeOK` | |
| `StacksAgree` | `StackShape` | |
| `OnlyInputErrors` | `NoInternalError`: no token stream makes the parser pop an empty stack or touch a nil node, the one kind of failure that is not a complaint about the input | |
| `ContinuationsEnd` | `ContinuationStaysInNode` | |
| `HeldTokensAreOwned` | `HeldTokenHasAnOwner` | |
| `CoveredBlocksAreCounted` | `SuppressedBlocksCounted` | |
| `DocumentFollowsText` | `ImplementsNodeTree` | `KdlParserRefinement` |
| `ClosedNodesAreFinal` | `OnlyCurrentNodeChanges` | |
| `TreeNests` | `OpenNodesNest` | |
| `CoveredTextIsDropped` | `SuppressedBlocksLeaveNoTrace` | |
| `HeldValuesAreKept` | `HeldValueAccountedFor` | |
| `CommentsAreKept` | `CommentsConserved` | |
| `RecentTokensAreQuoted` | `GetIsTheLastTokens` | `RecentRingProofs` |
| `WalkCountsBlankLines` | the loop of `TrailingNewlines` counts what `BlankLines`, which the parser's model uses, defines, on any ring | |
| `BlankLinesAreGathered` | `TrailingNewlinesAreBlankLines`: what is gathered is what stands in the stream | |
| `TypeCorrect` | `TypeOK`, with it that no index leaves the buffer | `KdlScannerProofs` |
| `CharactersAreDelivered` | `PeekIsNextCharacter` | |
| `MarkedTextSurvives` | `RefillKeepsMarkedText` | |
| `SmallDocumentsAreStable` | `SmallDocumentsKeepTheirTokens` | |
| `ReaderTypeCorrect` | `ReaderTypeOK`: every token has a character and ends in the text, so `parse` returns | `KdlReaderProofs` |
| `EverythingIsRead` | `NothingUnread` | |
| `TruncatedDocumentsAreRefused` | `TruncationIsRefused` | |
| `ParserKeepsItsPromises` | `StackShape`, `NoInternalError`, `HeldTokenHasAnOwner`, `SuppressedBlocksCounted` and `ContinuationStaysInNode` of the parser as the scanner feeds it, from any text | |
| `ReaderImplementsParser` | a round of the loop is a step of the parser on a valid token, or none | |
| `DocumentFollowsCharacters` | `ImplementsNodeTree`, `OpenNodesNest`, `OnlyCurrentNodeChanges`, `SuppressedBlocksLeaveNoTrace`, `HeldValueAccountedFor` and `CommentsConserved`, from any text | |
| `SuffixesTakeNothingAway` | `SuffixesOnlyAdd` | |
| `OnlyPassingFaultsGoUnnoticed` | `LossIsReported` | `KdlWriterProofs` |
| `QuotedStringsReadBack`, `RawStringsReadBack` | what is quoted is one token, wherever it stands, and is unquoted to the same string | |
| `WordsReadBack` | a word that is written bare is read as that word, but for those of `Misread` | |
| `NamesReadBack` | names and keys come back, with the exceptions of `TextReadsBack` | |
| `StringValuesReadBack` | string values come back, raw, quoted or plain | |
| `IntegersReadBack` | integers of any size come back, those of a base with it, but for those written in a base with a sign or without a prefix | |
| `KeywordsReadBack` | `null`, `true` and `false` come back | |
| `TypeCorrect` | `TypeOK`, with it that the mutex is held only from within a call | `StaticScannerProofs` |
| `StaticImplementsPrivate` | the safety half of `ImplementsPrivateScanner` | |
| `TypeCorrect` | `TypeOK` | `CustomRegistryProofs` |
| `HandlersAreFrozen` | `HandlersFreeze` | |
| `OnlyPendingRace` | `ReadsRaceOnlyWithPending` | |
| `WhatIsRegisteredIsCalled` | `RegisteredHandlersAreCalled` | |
| `NilIsCalledOnlyHere` | `NilCallsOnlyHere` | |

The assumptions are those the modules state of their constants: in `KdlParser` the
input is a set of valid tokens, options are subsets of the flags, the ring has a
slot; in `MCRecentRing` the stream is one of valid tokens; in `KdlScanner` a rune
has a byte, the buffer holds four of the longest (the source: 64 KiB and 4
bytes) and a document is a sequence of bytes, each the size of the rune it begins
or none; in `KdlReader` a text is a sequence of characters, some of which may be
invalid, in `KdlValues` the limits of numbers are positive, and in `KdlWriter` nodes
have names, values, children that are nodes, and so on, and any calls may fail; in `ScanCalls` and `StaticScanner` texts are sequences of characters, the
end is none of them, and nobody is no caller; in `CustomRegistry` every type has
a name, a nil function is no handler, there are a type and a handler, and
what an operation works on is a sequence of things of one side.

**The parser.** The theorems are about any behaviour that begins as the parser
does and whose steps each parse one valid token or change nothing
(`AnyTokens`), so they hold of the tokens of a text as well as of those of a
run. `NoInternalError` is not inductive: a pop fails when the stack
is empty, so the stacks must be known. `StackShape` says that block levels and
node levels alternate on the state stack, and how its length, the length of the
node stack and the open braces go with the current state; it is inductive
together with `TypeOK`, and it implies that every state that pops has something
to pop (`NoStackIsEmpty`, `FailureIsOfTheInput`). The inductive invariant is
`IInv == TypeOK /\ StackShape /\ NoInternalError`. To keep the forty handlers
apart from the arithmetic of stacks, `StackStep` shows that each is one of a few
*moves* (enter or leave a node, a block, an annotation, or stay), and
`PushKeepsShape`, `PopKeepsShape` and `MoveKeepsShape` treat the moves.
`OutputStep`, `HeldStep` and `FlagsStep` do the same for the document, the held
tokens and the flags.

The three invariants after `OnlyInputErrors` are each inductive together with `IInv`:
`ContinuationStaysInNode` because every token that leaves the node's parameters
is not a line fill (`LineFillKeys`), `HeldTokenHasAnOwner` because what lies under
a type annotation is known (`StateBelow`), `SuppressedBlocksCounted` by counting at
each `{` and `}`.

`DocumentFollowsText` maps each step. `ContentMoves` shows that a handler adds an
argument or a property to the current node, adds a node, or leaves the
tree alone; `StackStep` shows how it moves the stacks; `TreeStep` combines the two.
That a hidden block stays hidden, and that a node declared in one is left out, is
where `SuppressedBlocksCounted` is needed (`SInv`): the code looks at a counter,
`NodeTree` at the open blocks. `CoveredTextIsDropped` needs one more invariant,
`CoveredNodesDetached`: an open node inside a covered block is in no document.

`HeldValuesAreKept` rests on the three ways the handlers take a held value out of
the context (`HeldValueMoves`): it becomes an argument, it becomes the key of a
property, or a `/-` drops it.
`CommentsAreKept` counts the places where comments are (the pending one, and
those before and after each node). Each
handler that touches one keeps them, reads one, or moves what is pending before
or after a node (`CommentMoves`), and a move is a bijection of
places (`CommentPlacesAre`). Counting needs the places to be finite, which is the
invariant behind this action property.

**Recent tokens.** The invariant says that the window on the ring, oldest slot
first, is the end of the stream, padded in front with slots never written;
`AddSlides` is the step, also when the head wraps. The loops of `Get` and
`TrailingNewlines` are recursive functions of the slots walked. Each gets a
closed form: every set of positions has a least one (`Least`), so two functions that agree
at the start, and whose agreement is passed on, agree everywhere
(`LoopsAgree`). From the ring to the stream goes a map of positions, of the window
to the end of what was fed: a slot holds a blank line if and only if
one stands at its position (`BlanksStandInStream`), and so there are as many
(`BlanksAreAsMany`).

**The scanner's buffer.** Its operators take the scanner through states in the middle of an
action, so the invariant is about a scanner and how far the document was
consumed: `Sound` holds whatever the reader does (indices in
the buffer, marks in order, what is peeked at within what is buffered), and
`Exact` says that each cell holds the position it should, that what is peeked at is
what comes next and that a mark is as far back as the text read since. `Exact`
holds until a refill gets nothing, and the code does break it then, which is what
`marked_text` shows. `RefillIsSound` and `RefillIsExact` treat the
refill; `TopUpIsExact` that a refill before a character leaves more than a
rune after it, which is why one refill is enough; and a lemma for each call carries the
invariant through it. `SmallDocument`
is why `Parse` of a document below the size of the buffer is safe: the reader is
used up before the first token, so there is one array, and it never moves.

**Reading.** Every recogniser ends after where it starts and inside
the text, or fails, or is one of the two endings of `NothingUnread`
(`ReadNextReads`, from a lemma for each kind of token). The nested comment is the
one recogniser that is a recursion of its own: `CommentWalkExists` shows
that the function is well defined, and a least counterexample that it moves
forward. For the parser, `NextRound` gives `Parse` a valid token, and the step
lemmas of the parser's proofs, which are stated for any valid token,
carry its invariants over; `ReaderImplementsParser` carries over the rest,
the refinement among them. `TruncationIsRefused` needs one more:
`BetweenNodesAfterLines` says that after a token that ends a line or opens a
block the parser is between nodes, where `EOF` with a block open is refused
(`LineEndStep`, `LineFillStep`, `EndStep`).
`SuffixesOnlyAdd` compares the values that were read with those of the whole text
read with the flag, which is a recursive function of the positions. The
invariant, `NothingIsMissed`, cuts the text in two: what was read so far, and what
the function gives from there on, are what it gives from the start. Each round
moves one token over, because a token that is accepted without the flag is the
same with it: an integer that the flag would make longer is refused without it.

**Writing.** `LossIsReported` is not inductive: what was lost may have been
forgotten long ago. `WriterInv` says of every moment that the loops are over
nodes of the document (`WriterTyped`), that only an error that `Generate` returned
is pending, that the last call succeeded whenever the loop is that of the
document (an error that a block forgets is followed by another write, of the `}`
at least), and, if there is nothing to forget errors by, that no block is ever
open and a loss is an error at once (`Flawless`, `Noticed`). That a sequence of
pieces keeps this is shown along the sequence (`WritePieces` is a recursive
function of it).

A string is read back in two steps: the scanner must find where it ends, and the
token must be unquoted to what it was. For a quoted string the scanner looks at
each quote for the number of backslashes before it. What `AppendQuotedString`
writes is a sequence of parts, one a character, and each part ends in an even
number of them (`Parity`, `EscapesAreSkipped`), so that no quote in the string ends
it and the last one does. Unquoting goes part by part (`EscapesAreUndone`). For a raw
string `EnoughHashes` says that the text does not hold a quote and the hashes that
end it. A word is read by the same classes of characters that
`IsBareIdentifier` asks for, except at its start; `WordsAreScanned` goes through the
cases of `readNext`, for keywords too, and what it excludes is exactly what
`Misread` lists (`WordsReadBack`, `KeywordsReadBack`). `Following` lists what
a written document has after a name, and none of it goes on with a word
(`FollowingIsNotAWord`).

For an integer the digits must say the number they are the digits of. Both are
recursive functions, one of the number and one of the positions: appending a digit
multiplies what was said by the base and adds to it (`NumberGrows`), and the digits
of n are those of n \div base and one more (`NumeralIs`, by the least number for which
it fails). The digits are then scanned to the character after them
(`DecimalIsScanned`, `BasedIsScanned`), which must separate numbers: for a base other
than ten, space alone, as `readNumericBase` asks for.

**The static scanner.** A private scanner has no buffer, no marks and nothing
peeked at, so a step of the shared one maps to one of the caller's only if the
shared state is the holder's: `HolderOnItsText` says that a scanner that was laid
out is on its holder's text, behind what the holder got, that what is peeked at is
what comes next and that the mark is where the token starts; `CallsWait` says
that who waits for the mutex has been given nothing yet. Laying out must reset
every field the first invariant mentions, which is the content of the proof.

**The registry.** None of the last three properties is inductive, for they speak
of handlers and the code looks at flags an operation computed earlier.
`IndexIsRight` relates them: every entry of an index belongs to some type of that
name that the operation works on, says no more than is registered, and says
what was registered at the first operation, pending registrations aside.
`FirstIsFirst` says that who is past the check is pending, and `IndexesItsFields`
that an operation indexes what it stores. Two facts about steps complete it:
a handler never becomes nil again (`HandlersKept`), and storing moves a thing from
what is to be stored to what was (`StoringKeepsThings`). `WhatIsAsked` says which maps
a place asks, from `Consulted` and `KindCalled`.

**Only model-checked.** Out of the prover's reach are liveness (the other half of
`ImplementsPrivateScanner`), `ENABLED`, and what is computed by recursion over
data. `GoValues`, `KdlUnmarshal`, `KdlMarshal` and `KdlMarshaler` use `RECURSIVE`
operators, for Go types and values, so that nothing of `KdlMarshaler` is
proved. `TextReadsBack` and `CommentsReadBack` compare whole documents, by a
`RECURSIVE` operator; of `TextReadsBack` the part about strings, integers and keywords
is proved, one token at a time, as above, and the part about floats and suffixed
numbers is not. A loop over
positions, as in `RecentRing`, `KdlLexer` and `KdlWriter`, is a
recursive function and is within reach: a least counterexample replaces the
induction.

## 5. Not modelled

`components` in `PROJECT.json` lists every part with its status. Left out:

- `internal/coerce`, and with it what a number becomes in a field of a Go type
  (`SetInt(coerce.ToInt64(val))`, `unmarshal.go:482`), `AsNumber`, `AsDuration`,
  times, byte slices and `format` tags: conversions without state.
- Error text, line and column numbers, logging and debugging output.
- `ScanAll`, which is `Scan` in a loop; `Node.WriteValueTo`, `Node.TextString` and the accessors
  of `document`; the ordered properties of the build tag `kdldeterministic`, which
  are one of the orders that the models choose from.
- The bytes of a rune where the ring drops the first byte of a newline
  (`recent.go:42`), and the limit of 64 hashes of `AppendRawString`.
- A comment or a `/-` that ends a document or a node (`context.go:84`,
  `transitions.go:225`) is in the model, but no property is about it: neither
  code nor docs say what should happen.
- Reflection itself, the benchmarks and the examples.
