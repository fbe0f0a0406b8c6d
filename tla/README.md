# TLA+ verification of oxidizePdf

oxidizePdf (crate `oxidize-pdf-core`) reads, writes, splits, signs and incrementally edits PDF
files.  This directory models the parts of it whose correctness depends on the order of steps:
threads, chains of file revisions, caches and object numbers.  Each part is checked with TLC on
small instances, and the properties that matter most are proved with TLAPS for every instance.

Paths below are relative to `oxidize-pdf-core/src/`.  `PROJECT.json` maps every definition to the
lines it translates, and every property to the hazards it addresses.

## 1. Inventory

| Component (code) | State | Operations | Interacts with | What is hard | What makes it correct |
|---|---|---|---|---|---|
| Batch worker pool (`batch/worker.rs`, `batch/progress.rs`) | job channel, receiver mutex, result channel, atomics (`cancelled`, three counters), one vector of results | `process_jobs`, `shutdown`, worker loop, `BatchProgress::*` | caller thread, N workers, progress thread, `BatchProcessor::cancel` | every interleaving; workers that die; cancellation at any moment; snapshots read one atomic at a time | one outcome per job, counters agree with outcomes, no job starts after a cancel, every call returns |
| Batch processor (`batch/mod.rs`, `job.rs`, `result.rs`) | options, pool, progress | `execute`, `cancel` | worker pool | progress thread must end | as above |
| Cross-reference resolution (`parser/xref.rs`, `parser/trailer.rs`) | `entries`, `extended_entries`, trailer, list of revisions | `parse_with_options`, recovery, hybrid scan, `advance_revision` | every reader; history checks of signatures | two maps merged newest first; /Prev cycles; lost tables | the newest definition of an object wins; history does not see the future |
| Historical readers (`PdfReader::at_revision`, `advance_revision`, `signatures/permissions/field_lock.rs`) | xref snapshot, object caches | `at_revision`, `advance_revision`, `enforce_history` | xref chain | caches of one revision read in the next; refusal half way | the replay ends in the reader's own view |
| Incremental update (`writer/incremental_update.rs`, `incremental_objects.rs`, dedicated editors, tagged recovery of `operations/reorder.rs`) | replacements, next number, /Size, reservations, retired numbers | allocate, replace, retire, finish, drop | base file, reader | forward references, number reuse across revisions, pending xref stream | one transaction, all or nothing, fresh numbers |
| Lossless page mutations (`operations/reorder.rs`) | batch of operations, plan of pages, copied objects | move, rotate, delete, duplicate, insert, plan, mutate, reorder | reader, incremental update, imported files | inherited attributes, references between pages, a dry run beside the real one | pages keep what they show, nothing dangles, the dry run tells the truth |
| Object reader (`parser/reader.rs`) | object cache, object-stream cache, in-progress guard, depth, clock | `get_object`, `load_object_from_disk`, `get_compressed_object` | xref table, encryption handler | recursion through object streams, cycles, errors and timeouts half way through a load | a cached object is what the file says; guards are released |
| Encryption (`encryption/`, `EncryptionHandler`) | key, unlock state | `unlock*`, decrypt | reader, caches | order of unlock and cached reads | nothing decrypted with the wrong key is cached |
| Page tree and document (`parser/document.rs`, `parser/page_tree.rs`, `page_tree.rs`) | `RefCell` reader, page cache | `get_page`, `resolve` | reader | cyclic trees, inherited attributes | page count equals pages reached |
| `PdfWriter` (`writer/pdf_writer/mod.rs`, `object_streams.rs`, `xref_stream_writer.rs`) | next object id, xref positions, buffered object streams, encryption state | `write_document`, `write_incremental_document` | document, encryption | ids of object streams, what may be packed, order of flush, xref and trailer | every object written once and found by a reader |
| Lazy and cached documents (`memory/`) | LRU map and order, counters | `get_object`, `preload_page`, `clear_cache` | reader behind a mutex | check-then-act between cache and reader | cache bounded, never stale |
| Pools (`performance/memory_pool.rs`, `resource_pool.rs`) | buffer queues, size estimate, resource maps, counters | get, drop, clear, add | threads | `try_lock` on drop, multi-lock clear | counters agree with contents |
| Streaming writer (`performance/streaming_writer.rs`) | offsets and numbers of what is written, buffered bytes, `failed` | `write_page_streaming`, `flush`, `finalize` | a sink that may fail | a write that fails after its number and offset were recorded | a file reported as written is complete |
| Parallel generation, metrics (`performance/`) | thread pool, counters | generate, record | pages | ordering of pages | pages in order |
| Recursion control (`parser/stack_safe.rs`) | depth, clock, active stack | `enter`, `exit`, `clear_parse_context`, guards | reader | `enter` counts a level before it looks at the clock; the guards and the stack of references are used by nothing in the library | what timed out can be read again |
| Streaming readers (`streaming/`) | pending bytes, scan mode, nesting, chunk under way | `feed`, `process_incrementally`, `process_in_chunks` | any `Read` | a read may end anywhere | the cut does not matter; chunks are the content |
| OCR of scanned pages (`operations/page_analysis.rs`) | vector of results behind a mutex, threads | `process_scanned_pages_with_ocr`, `.._batch`, `.._parallel` | OCR provider | threads that panic, results out of order | every recognised page once |
| Calculated forms (`forms/calculations.rs`, `calculation_system.rs`) | values, calculations, dependencies, order, events | set, add, update, remove, recalculate | none | three structures for one graph; a failure half way | dependents follow; all or nothing |
| Recovery tools (`recovery/`) | report of damage | scan, repair | reader | heuristics | none stated in the code beyond best effort |
| Signatures (`signatures/`, `writer/incremental_form_fill.rs`) | signatures, form fields, their locks and slots in every revision; byte ranges, certificates | sign, timestamp, create, draw and remove slots, fill; embed, verify | incremental update, history | permissions signed in any revision, fields written again later; cryptography | what a signer ruled out stays ruled out, nothing else is refused |
| Content: `text/`, `graphics/`, `fonts/`, `forms/` (but calculations), `page*.rs`, `layout/`, `pipeline/`, `ai/`, `charts/`, `operations/` (split, merge, rotate), `structure/`, `pdfa/`, `semantic/` | documents in memory | builders, extractors | writer, reader | numeric and textual algorithms, sequential | input-output relations |

`dev-tools/`, `tools/`, `lints/`, `benches/`, `fuzz/`, `landing/`, `docs/` and the test corpora hold
no program state of the library and are left aside.

## 2. Plan

1. Batch pool: `BatchPool`, its contract `BatchContract`, proofs. *(done)*
2. Resolution of revisions: `XRefChain`. *(done, and its properties are proved)*
3. Incremental editing: `RevisionStore` (abstract) and `IncrementalRevision`. *(done; see
   section 7 for what is proved)*
4. Object reader: `ObjectReader`, with caches, load guard, object streams and unlock.  What it
   promises is that every answer to a question agrees with every other. *(done)*
5. `PdfWriter`: numbering, object streams, encryption dictionary, xref table and stream. *(done,
   with the reader's lookup rules written into its properties; a composition of the two modules is
   left)*
6. `PageMutation`: lossless batches over the page tree, imports and reorders. *(done)*
7. `PageTree`: the walk with its visited set, inheritance along /Parent and the page cache; that
   the index, the order of pages and what they inherit are exact, as theorems. *(done)*
8. `LruCache` and `LazyDocument` by several threads, refined to `PlainDocument`. *(done)*
9. `MemoryPool` and `ResourcePool`; time limits of `stack_safe` in `ObjectReader`. *(done)*
10. Streams: `IncrementalParser`, `ContentChunks`, `StreamingWriter`; threads: `ScannedPages`;
   forms: `CalculationEngine`, `FormCalculation`. *(done)*
11. Proofs, in the modules `*Proofs`: the batch pool, its counters and its contract; `XRefChain`;
   `ObjectReader`; `PdfWriter`; `IncrementalRevision` with its inventory; `LazyDocument` and its
   refinement; the locks and counters of `ResourcePool` and `MemoryPool`; the rollback of `FormCalculation` and the
   results of `ScannedPages`; the index, the order and the inheritance of
   `PageTree`; what signers allow, over all revisions of a document; the files of `StreamingWriter`.
   *(done)*
12. `TaggedProjection`: what deleting pages makes of a structure tree and its indexes. *(done)*
13. `SignaturePolicy`, `SignedHistory`: what signatures permit, over the revisions of a document. *(done)*
14. Models still to be written: parallel generation, and a composition in which `ObjectReader`
   reads what `PdfWriter` has written.

## 3. Modules and how they correspond to the code

### BatchPool, BatchContract, MCBatchPool, BatchPoolProofs

`BatchPool` has one step per access to shared memory.  A worker's program counter walks the loop of
`worker.rs`: `LockReceiver`, `ReceiveJob`, `CheckCancelled` (cancel flag, then the zero time budget,
then `start_job`), `FinishJob` or `WorkerDies`, `StopBatch`, the three counter updates of
`complete_job`/`fail_job`, `SendOutcome`.  The main thread dispatches, closes the channel (by
dropping the sender), joins, drains the result channel and fails every job nobody reported.
`fail_unreported_job` is `LoadRunning` and `ExchangeRunning`, a compare-exchange loop.  The progress
thread reads the counters in the order of `get_info`.  `Cancel` may happen at any moment.  A job is
its index; its operation has an outcome and no other effect.  All atomics in the code are `SeqCst`,
so interleaving is the right memory model.

`BatchContract` is what a caller of `process_jobs` may rely on; `KeepsContract` says that
`BatchPool` implements it, with a job's outcome read from the results, or from the result channel
while it is on its way.

### XRefChain, MCXRefChain, XRefChainProofs

A file is its sections by offset, a `startxref` value and the headers a byte scan would find.
`MergeSection` is one round of the loop in `parse_revision`, `EndWalk` its end, `FallBack` and
`Recover` what `parse_with_options` does on errors, `FillMissing` the hybrid scan of lenient
options, `CheckTrailer` the checks of `PdfReader::new_with_options`.  `Rewind` and `TakeSnapshot`
are `at_revision`; `NextRevision` and `AdvanceRevision` replay the history as `enforce_history`
does, with `ReadObject` filling the snapshot's cache in between.  The location of an object is the
offset of the section that lists it, so that two revisions of an object are different locations.
Object streams are not opened here: a packed object resolves to the section that packs it.

### RevisionStore, IncrementalRevision, MCIncrementalRevision, IncrementalRevisionProofs

`IncrementalRevision` keeps of a file what a reader resolves each number to (`view`), its newest
revision, and the numbers any revision ever defined.  That a reader does resolve to the newest
definition is `NewestRevisionWins` of `XRefChain`.  A session is one `IncrementalUpdate`, in one
of three hands: `IncrementalObjectEditor` (the public transaction), a dedicated editor (any
sequence of `allocate_id` and `replace`, on objects it has read or allocated), or the tagged
recovery of `reorder.rs` (whose replacements and retired numbers are settled before it writes).  An
object is how it is stored and the numbers it refers to.  `Finish` is `finish` with everything it
calls; `Abandon` is an error returned or an editor dropped.

`RevisionStore` is the transactional map that incremental editing implements: `IsTransactional` is
the refinement, with `doc <- view`, `reserved <- allocated` and `staged <- Changes`.

`IncrementalRevisionProofs` proves the invariants; see section 7.

### ObjectReader, MCObjectReader, ObjectReaderProofs

One `PdfReader` on one file.  The file says of each number how its cross-reference entry describes
it and what stands at that place.  Loads nest where a packed object needs its object stream, so the
state has a stack `calls` of frames, each with the name of the function and a program counter, and
`answer`, what the inner call has just returned.  `being_loaded` is `objects_being_reconstructed`:
it holds numbers, while `object_cache` is indexed by number and generation.  `Loaded`, `Unpacked`
and `Recovered` are the branches of `load_object_from_disk`, `get_compressed_object` and
`attempt_manual_object_reconstruction`; `RetainWith` is the index of decoded object streams that is
emptied when it would exceed its bytes.  `Unlock` is a successful `unlock*`, which clears both
caches.  `parse_context` is the `StackSafeContext` of the reader: its depth, and whether its 120
seconds are over (`TimeRunsOut`, at any moment).  `enter` goes down a level and then looks at both
limits, and nothing comes back up when it fails, so an expired context loses a level with every load
until `ClearParseContext` makes a new one.  `AnswersAgree` compares the answers that are given, not
the failures of an expired reader: once the context is cleared they must be what they were before.  The model assumes `MaxDepth >= 2`: with a depth of one, whether an object is too deep
depends on what is cached.  Left out are lenient parsing with reconstruction switched off, the
search for a lost catalog or page tree, and the temporary reader that loads the encryption
dictionary while a file is opened (it is thrown away with its caches).

### PdfWriter, MCPdfWriter, PdfWriterProofs

One `PdfWriter`, for `write_document` or `write_incremental_document`.  `phase` is the position in
the function: reserved numbers, body, (revision: the page tree once more,) catalog, metadata,
encryption dictionary, object streams, cross-reference data.  What pages, fonts, forms and outlines
write is any sequence of `AllocateObjectId` and `WriteAllocated`, in any order and with any split
between packable and stream objects; every allocated number is written before the catalog.  A
position is an index into the bodies written.  `Found` and `InClear` are the rules by which
`PdfReader` looks up and decrypts an object, stated over the finished file.

### PageMutation, MCPageMutation

A document is a map from object numbers to objects; a page or a /Pages node keeps its parent, kids,
count, inheritable attributes and its other references, and any other object its references.  A
batch is built up one operation at a time as `planned`, which is what `apply_page_mutation` makes of
the operations in order; in the code they are collected by `push` and applied when the call is made,
so `InvalidOperation` stands for a call that stops at a bad one.  `MutateBatch` is
`mutate_pdf_bytes_lossless` with `materialize`, and what comes before and after it in
`mutate_pdf_pages_lossless`: the dry run (`Unreachable`), the revision (`Built`, `Revision`), the
comparison of the two and the validation of the finished file (`Valid`).  `plan_pdf_page_mutations`
is its first half and changes nothing.  `ReorderPages` is `reorder_pdf_pages_lossless`, which does
not look at page labels.  The walk of the page tree (`Below`) is bounded by the number of objects:
a longer walk repeats one and is refused.  /Resources stands for a set of references, /CropBox is
left out beside /MediaBox, copies are numbered in the order of their sources (the code follows the
sorted keys), and `tied` marks pages that are tagged or carry widgets.

`NoDanglingReference` speaks of the catalog and of the pages that are kept.  A copy whose original
is deleted may still refer to another deleted page, because the code searches only the originals;
and resources are taken to lead to no page, since neither check of the code looks into those that
an inner node or the root passes on.  `AttributesPreserved` lets an imported page without a
rotation take the one of the root it is placed under, as the code does.

### LruCache, LazyDocument, PlainDocument, LazyDocumentProofs

`LruCache` has the operations of `memory/cache.rs` on a value of map, queue and capacity.
`LazyDocument` has threads that call `get_object`, `get_page`, `preload_page` and `clear_cache`: the
lookup, the parse behind the mutex and the insertion are three steps, a panic of the parser poisons
the mutex, and `preload_page` gets the objects of a page one after another.  `PlainDocument` is the
same interface without a cache; `AnswersFromFile` is the refinement.  `CacheIsLru`, which the run checks
as a part of `PoolsKeepAccount`, says that queue and map hold the same keys and that these are the
ones used last.

### MemoryPool, ResourcePool, ServicesProofs

One step per lock.  In `MemoryPool`, `get_buffer` takes the statistics and then the queues; a
dropped buffer goes back only if `try_lock` gets the queues at that moment.  In `ResourcePool` an
addition holds one map and then the statistics, and `clear` and `memory_usage` go through the maps
one after another.  `missed` and `topped_up` are histories that say where the code's counters
cannot be exact: what is added between the two halves of a clear, and what `preallocate` finds
in a pool in use.

### Absence, PageObjects, PageTree, PageTreeProofs

`Absence` declares the value `None` that page trees and signatures share.  `PageObjects` says what a file is to its page tree; the file is arbitrary, with kids that are shared,
broken, untyped or ancestors.  `PageTree` has the search for the root (catalog, references to it, a
tree made up from scanned pages), one iteration of the loop of `flatten_page_tree` as a step, and
`get_page` and `page_count` with inheritance along /Parent and the page cache.

### IncrementalParser, ContentChunks

Parsers as values: `Feed` maps a parser and a sequence of symbols to a parser, and the actions read pieces of any length and hand events or chunks on.  A byte is a symbol and words
of several letters have two, which is enough to cut any of them.  `CutsDoNotMatter` compares the
events delivered with those of the file fed at once; `ChunksPreserve` compares the chunks with the
content.  Reads may fail and parser or callback may stop the call; a read that is interrupted and
retried is a stutter.  In `IncrementalParser` a strict parse of a complete record is abstracted to
whether it holds the symbol "!".

### StreamingWriter, ServicesProofs

One item of the file is a byte.  `content` is what the buffered writer has accepted, `disk` how much
of it the sink has.  Every write and flush may fail, after the number and the offset of the object
were recorded.  Numbers and offsets end at small bounds, so that both limits are met.  Its operators
have names of their own (`WriterInit`, `WriterNext`, `Report`, `Referenced`), so that `MCServices` can
extend it together with `PageTree` and `SignaturePolicy`.

### ScannedPages, ServicesProofs

OCR one page after another, in batches and by threads.  The provider's outcome of a page is text, an
error or a panic.  `chunks` is how `process_scanned_pages_parallel` divides the pages; a thread
recognises its chunk and puts all it has found into `results` under the mutex, and the caller joins
the threads in turn.

### CalculationEngine, FormCalculation, ServicesProofs

`CalculationEngine` is the engine below, with `calculations`, `dependencies` and
`calculation_order`.  `FormCalculation` is the system on top, with settings, formats and events: a
change runs in stages, one calculation a step, and either ends or restores what was before.
Expressions are sums; what else an expression can be is a way to fail.

### TaggedProjection

What `operations/tagged_split.rs` makes of the structure tree when pages of a tagged document are
deleted (`DeletePages`), or when `reorder.rs` recovers its indexes (`Recover`, all pages kept and the
shape preserved).  A call is one step, `Projected`, which is the whole of `project_impl`: a look at
the old indexes, the walk of the tree (`Kid` with `Items`, `Element`, `Follow`, `Content` and
`ObjectContent`, on a projector that is a value), keys for the pages that have none, and the new
ParentTree and IDTree in the place of the old.  Calls repeat, so that a second one reads what the
first has written.  `StructureSurvives` compares the result with the first file, not with the walk:
every content of a page that is left has the owner and the page it had, the elements that stay are
those with a reason to, the indexes are the exact inverse of the tree, and what was projected once
is not refused later.  Which numbers the recovery takes or retires is in `IncrementalRevision`.

### SignaturePolicy, SignedHistory, ServicesProofs

A document whose revisions are appended one by one: by the signing calls (`Sign`, `Timestamp`), the
calls on prepared slots (`CreateSlot`, `DrawSlot`, `RemoveSlot`), the form filler (`FillForm`), the
editors of pages and annotations (`EditPages`), the object editor (`EditObjects`), and by other
programs, which ask nobody (`OtherProgram`).  A view is what a reader resolves in one revision;
`revisions` are all views, as `at_revision` and `advance_revision` give them to `enforce_history`
(that they give the right ones is a matter of `XRefChain`).  `SignaturePolicy` is what the code decides from them, what a document is like
(`IsView`, `SoundView`) and the properties.  `HistoryAllows` is `enforce_history`, `ViewAllows` what it asks of one revision: the certification behind /Perms, and the /Lock of each
signed field.  `LocksAllow` is the check of FieldMDP locks, which reads the newest revision only.
An answer is "done", "refused" for a policy, or "unfit" when the call asks for something the form
does not have.  The marks of a field stand for the entries of its dictionary that say it is a slot,
that it has an appearance, and that this appearance is final.  Only what was done is followed by another call, since a failed call changes nothing.

`terms` keeps what each signer asked for when the signature was made, and `SignedTermsHold` compares
every later call with it, not with the views.  `TermsAreKept` holds whatever other programs do to
the fields.  `RefusedForCause` leaves out documents in which a signed field was written otherwise
than by signing (`reworked`): there a definition is outside the byte ranges, and every change is
refused by design.

Fields are named by their object and have one name; aliases, inherited field types and malformed
policies are left out, as are geometry, the limit of 100 slots, and files whose cross-reference
chain is lost, of which only the newest view is looked at.

### MCServices

`MCServices` extends `PageTree` and `SignaturePolicy`, whose properties the run lists under the names
the theorems state them by, and instantiates the other parts; its own specification is
`ServicesSpec`.  The parts from `LazyDocument` on share nothing with each other, so one run checks them all: the
variable `exercised` names the part that is at work and stays as it is, and all others stay in their
initial state.  The state space is the sum of theirs.  The properties of the parts are joined under
the names the run lists: `PoolsKeepAccount` (with `CacheIsLru`), `PagesAsInTree`, `CutsDoNotMatter` (with `ChunksPreserve`),
`FormsKeepUp` and `CallsReturn`.

## 4. Runs

| Run | Instance | Shows |
|---|---|---|
| `batch_safety` | 2 workers (symmetric), 3 jobs, every option, both calls | types (so no counter wraps), honest and final progress (`SnapshotsAreHonest`), agreement of counters and outcomes, visible failures, one place per job, joined workers |
| `batch_contract` | 2 workers, 2 jobs, with fairness | refinement of the contract; every call returns |
| `xref_history` | 1 object, 3 offsets, every section kind, any /Prev | each section merged once, into one of two maps; the newest revision wins; history does not see the future; replay ends where the file does |
| `incremental` | up to 6 numbers, base and two updates, 26 base files | fresh numbers, exact /Size, no dangling references, retired stays retired, exact inventory, refinement of `RevisionStore` |
| `recovered_base` | a file of two objects whose xref is lost | the first finding of section 6 |
| `object_reader` | 144 files of four objects, 3 parsing modes, encrypted or not; depth 2, cache of 3 bytes; time may run out, one level of parsing, and the context may be cleared | balanced guard, no invented nulls, each object decrypted once, container at hand in a bounded cache (`StreamCacheSound`), answers that agree |
| `object_generation` | the same files | the second finding |
| `pdf_writer` | 4 base files and none, every configuration; numbers to 7, object streams from 7, two objects each | objects found and in clear; each number defined once, below /Size, and new unless it is a page's (`NumberingSound`) |
| `encrypted_writer` | the same | the third finding |
| `page_mutation` | a nested, a flat and a labelled document, three refused ones; two operations in one batch or over two, with reorders before or after; reorders of up to 3 pages | pages keep box, resources and rotation; output valid, rotations included (`PassesValidation`); nothing dangles |
| `page_plan` | a nested document whose inner node has resources of its own | the fourth finding |
| `services` | the twelve parts of `MCServices`, see below | caches, cycles, cuts and threads are not seen by callers; pools keep account; streamed files are complete; forms keep up; structure trees survive deleted pages; what signers ruled out stays ruled out; every call returns |

Why the bounds are enough.

* Two workers give every race between two threads and the main thread, and a worker that survives
  one that dies.  Three jobs let one job be in hand, one in the queue and one reported.
* Resolution treats every object number by itself (each map is indexed by it and no step relates
  two), so one object suffices; object sets enter only in the /Size check.  Three sections give a
  newest, a middle and an oldest one, and cycles of length one to three.
* An update reads of the file only its view and /Size, so two updates in a row show what the second
  makes of the first; six numbers leave room for allocations and an xref stream in both.
  References go to nothing or to number 4, which is fresh in the plain files and possibly absent in
  the tagged ones.  The number space is used up within the bound, so exhaustion is exercised.

* Four objects in a file are a leaf, two objects that may be its container and one packed beside
  it: enough for a container that is itself packed, a container packed in itself, a leaf listed in
  a container that does not hold it, and a cache that retains one of two containers.  Depth 2 makes
  the depth limit bite on the second nested load.
* A document writes three fixed objects, perhaps an encryption dictionary, and up to four others,
  of which any number is packed, so that object streams are partly filled, full and exceeded.
  `StreamBase` is 1,000,000 in the code; here it is in reach of the writer's counter, and
  `BelowStreams` says where the two meet.

* Two operations give every pair that can disturb each other (copy and delete, turn and copy, move
  and turn), a second revision shows what a flattened tree with copies in it is good for, and the
  documents have each relation between pages once: siblings under an inner node, attributes that
  differ from the root's, a link through an object, a layer, a reference from the catalog.

* `services`.  Two threads and three calls give every race of two calls and what a third finds
  afterwards; caches of 0 to 2 entries with three keys are empty, full and exceeded.  Two classes of
  buffers of capacity one are full at once.  Page trees are all graphs of a root and two nodes with
  the listed kids, trees with more leaves than an index holds, every chain of parents of three nodes
  (cycles among them), every attribute sound or not, and files whose catalog leads nowhere.  Fed
  files have any body of up to three symbols, and contents any two words: every pair of modes that
  a cut can separate.  The streaming writer meets the end of the numbers and of the offsets within
  three calls.  One to four scanned pages are given to fewer, as many and more threads.  Three
  fields make chains and cycles; a number above 300 stands for one that is not finite and is reached
  by two inputs; the engine needs four calls for a removal to be followed by a change that misses
  what was removed.  Structure trees have up to four objects and three pages, so that contents lie on
  an element's page, on another and on one that goes, and keys are missing, taken or shared; two
  calls show what the second makes of the first; the limits on values (13), content numbers (4),
  nesting (9) and slots (8) are just met by some trees and just exceeded by others.  Signed documents
  have a text field and one to sign, with a lock of each kind or none, or were certified before,
  soundly or not; six ways to sign, and four revisions: a signature, what another program or the
  library makes of it, and a call that must not forget it.

`CHECK_DEADLOCK FALSE` appears only where a model ends: by its bound on the number of revisions
(`MaxRevisions`), of batches (`MaxBatches`)
or of calls (`MaxCalls`), and when a document has been written or read.  In `xref_history` deadlock checking stays on and, with
`EachSectionOnce` bounding the walk, shows that opening a file always ends.

`HistoryIsIsolated` is stated for chains whose oldest section has no /Prev.  Where /Prev of the
oldest section leads back to a newer one, `at_revision` walks into the newer sections.

## 5. Fairness

`FairSpec` of `BatchPool` has weak fairness of each worker's step, of the main thread and of the
progress thread.  The operating system schedules runnable threads, a job's
operation ends (its outcome includes the overrun of a time budget), and a blocked receive is not
enabled until a message arrives or the channel closes.  `WorkerDies` and `Cancel` are not fair:
nothing makes them happen.

`ServicesSpec` of `MCServices` has weak fairness of each thread's next step inside a call, and of the parts
that run alone (the page tree, the incremental parser, and the steps of a scan together, whose caller
and threads are all scheduled).  Locks need no more: a lock is released by the next steps of the
thread that holds it, and no thread takes one again and again without end, since calls are bounded.
New calls, panics of the parser and failures of a read are not fair.  The chunk reader, the streaming writer
and the forms do nothing that could go round, and nothing is assumed of them.

## 6. Findings

`recovered_base`: when no cross-reference table can be read, recovery rebuilds a trailer whose
/Size is the number of objects found (`parser/xref.rs:1210`).  Object 0 has no header, so for
objects 1..n the value is n where n + 1 is due.  `IncrementalUpdate::from_reader` allocates from
/Size, hence a dedicated editor's first new object is written under number n and replaces an
object of the base.  `docs/CLAIMS.md:48` says that incremental OCR "preserves the base revision".
The object editor and `PdfWriter::initialize_incremental_info` both guard against a short /Size.

`object_generation`: lenient reading of an object whose header has another generation than the one
asked for reports that it is "using available" (`parser/reader.rs:780`), yet `load_object_from_disk`
goes on to decrypt with the requested generation (`parser/reader.rs:962`).  With RC4 and AES-128 the
key depends on the generation, so an encrypted object is decrypted with a key that is not its own.

`encrypted_writer`: `write_xref_stream` writes a trailer without /Encrypt and /ID
(`writer/pdf_writer/mod.rs:3707`), which only `write_trailer` adds.  A document that is encrypted
and written with cross-reference streams is encrypted object by object and read as a file in clear.

`page_plan`: flattening writes the attributes a page inherited from an inner node into its own
dictionary (`operations/reorder.rs:922`), but the dry run looks for what the new catalog reaches
only in the entries the page had before (`operations/reorder.rs:1402`).  Where an inner /Pages node
has an indirect /Resources, the dry run reports these resources as unreachable, and the same batch
then fails with "dry-run reachability report differs".  `operations/reorder.rs:264` says "This is
an exact dry run".

Two configurations are excluded from `EveryObjectFound` and `ReadableInClear` because no preset
and no documented use leads to them: object streams with a classic cross-reference table, where no
entry leads to a packed object, and object streams with encryption, where the encryption dictionary
may be packed although `writer/object_streams.rs:9` says it cannot.

What was met while modelling and contradicts no statement of the repository strongly enough for a
finding is listed here.

* `MemoryPool` never enforces `max_total_size`: `current_size` is raised when a buffer returns and
  lowered nowhere when one is taken, and `preallocate` overwrites it.  `return_buffer`, which nothing
  calls, takes the two locks in the other order than `get_buffer`.
* `ResourcePool` finds a resource by a hash of part of its data, so that two different resources may
  share an entry.
* `process_incrementally` and `process_in_chunks` stop at an error with what earlier reads gave;
  events or chunks of the same read that came before the error are not handed on, so that what a
  caller has got of a damaged file depends on the cuts.
* The lenient search for pages looks only at numbers below the number of cross-reference entries.
* `process_scanned_pages_parallel` works on mock image data (`operations/page_analysis.rs:2244`).
* The clock of `StackSafeContext` starts when a reader is opened, not when a parse begins, so that a
  reader older than 120 seconds answers from its caches only, until `clear_parse_context`.
* `CalculationEngine::remove_calculation` forgets which fields depend on the removed one, and a later
  `set_field_value` leaves them as they are (`DependentsFollow` excepts them by `forgotten`).
  `add_calculation` does not recalculate fields that depend on the new one.  An expression with
  empty parentheses is accepted and fails when evaluated: `add_calculation` then returns an error
  and keeps the calculation, and `recalculate_all` stops at it.
* `fill_many` does not look at the type of a field.  Filling a signed signature field overwrites its
  value, and where its lock has a permission every later change is refused, by an invalid policy in
  the revision just written.
* `remove_signature_slot` writes an indirect form into the catalog; `fill_many`, which needs an
  indirect one, refuses the document from then on.
* A slot that is signed without an appearance makes `list_signature_slots` fail, and with it every
  later `create_signature_slot`.
* Signing does not look at the lock of the field it signs: a /Lock with an invalid /P is noticed by
  the next change.

## 7. What is proved

TLAPS proves the theorems below for every value of the constants, from the named assumptions of
the modules only: as many workers, threads, jobs, object numbers, offsets and revisions as one
likes, and every file of the stated shape.  `LazyDocument`, `ResourcePool`, `MemoryPool` and `ScannedPages` are
instantiated by `MCServices` and have a hypothesis `SoundConstants` instead, which `MCServices` assumes of its
instances, so that TLC evaluates it.  `ServicesProofs` has the proofs of six parts of `services`:
those of `SignedHistory` and `StreamingWriter`, which it extends, and those of `ResourcePool`,
`MemoryPool`, `FormCalculation` and `ScannedPages`, which it instantiates as `Pool`, `Buffers`,
`Forms` and `Scanned`.  Each proof has an inductive invariant of named parts, of
which the properties are consequences; one lemma per part and group of actions shows that a step
keeps it.

`BatchPoolProofs`.  The inductive invariant `IInv` joins `TypeOK` with the facts about control that
make it inductive: which worker holds which job at which program counter, who holds the mutex, and
what the main thread's position says about the channel and the workers.  From it follow

* `TypeCorrect`: `[]TypeOK`, in particular no counter wraps below zero;
* `StopIsVisible`: `[]FailureVisibleAfterStop`;
* `MutexScope`: `[]MutexHeldOnlyInReceive`;
* `JoinsWorkers`: `[]WorkersJoined`.

`Account` adds where each job is (`Placement`), what main's walk over the result vector has filled
(`Walk`), which set of jobs each counter is the size of (`Tally`), and that what `get_info` has read
is a lower bound of what the counters are now (`SnapshotPast`).  The difficult counter is
`running_jobs`.  Until main walks, it is the number of jobs that have been started and not answered
by a decrement, those that died with a worker included.  During the walk `fail_unreported_job`
decrements it for every gap in the results, also for jobs that never ran, but never below zero; so
the invariant is only that it is at most the number of gaps that the walk has yet to meet, which is
zero at the end.  From `Account` follow

* `EachJobInOnePlaceAlways`, `ProgressMatchesResultsAlways` and `SnapshotsAreHonestAlways`;
* `ImplementsContract`: the pool implements `BatchContract`.  An outcome becomes final in the
  contract when it is sent or, for a job a worker died with, when main fills the gap; all other
  steps stutter.

`XRefChainProofs`.  `IInv` says, for every file and every /Prev, cycles included, how the sections
that have been walked are linked (`WalkLinked`), that the table so far says of each object what the
newest of them does (`WalkResolves`), what the reader keeps while it rewinds (`HistoryKept`,
`RewindInside`), and that the snapshot at a revision says what that revision and the older ones do
(`ReplayResolves`).  `NewestRevisionWins` alone is not inductive: that a section merged later is an
older one needs the links.  From it follow `SectionsMergeOnceAlways`, `NewestRevisionWinsAlways`,
`HistoryIsIsolatedAlways` and `ReplayAgreesAlways`.

`IncrementalRevisionProofs`.  `IInv` is `TypeOK /\ FileInv /\ ClosedInv /\ SessionInv /\ StagedInv`.
The properties are not inductive by themselves: that a reference does not dangle after `Finish`
needs that the staged objects, taken together, refer only to numbers that are live or staged, which
needs that a session's allocated numbers start at /Size and that /Size exceeds every number ever
used.  These are `SessionInv`, `StagedInv` and `FileInv`.  From `IInv` follow

* `TypeCorrect`, `SizeCovers`, `NothingDangles` and `RetiredForever`;
* `NumbersAreFresh`: the numbers a session takes were never used, unless the base was recovered
  from damage, which is what `recovered_base` shows;
* `InventoryExact`: the report of a recovery is what its revision changes, since a recovery stages
  only what it planned and allocates nothing (`RecoveryInv`);
* `Transactions`: where no base was recovered from damage, the specification implements
  `RevisionStore`, initial states to initial states and every step to a step or a stutter
  (`SoundInv`, which is `IInv` for intact bases, gives each step its witness).

`ObjectReaderProofs`.  What a question may be answered with is a function of the file alone
(`Verdict`, `Meaning`): one answer, except that an object stream packed in itself may be an error
or null.  `IInv` says that both caches, the retained streams, the answer on its way and every answer
told are as the file says (`CachesAgree`, `AnswerAgrees`, `ToldAgree`), whatever was evicted, taken
or timed out.  It needs the shape of the stack of loads (`StackShape`: a frame that waits has the
container of its object above it, so that a load of a number under way is met again) and that the
guard marks just the numbers of the stack (`GuardMarks`).  From it follow `GuardIsStackAlways`,
`NullOnlyIfSaidAlways`, `DecryptedOnceAlways`, `AnswersAgreeAlways` and `StreamCacheSoundAlways`.
Of files the proofs assume what the definitions of a file's entries say, and that an object in an
object stream is no object stream; of limits, that the depth is at least 2.

`PdfWriterProofs`.  `IInv` says which numbers are taken, which are owed and which are written
(`Reserved`, `Fresh`), that an object is either buffered or in the body at the position recorded
for it (`Whereabouts`), what is written under a number (`Content`), and what the bodies, the object
streams and the trailer are (`Bodies`, `Packs`, `Trailer`).  The step that takes most is
`FlushObjectStreams`: the object streams are numbered without a gap from `StreamBase`, so that the
bodies appended for them stand where their positions say.
From it follow `NumberingSoundAlways`, `EveryObjectFoundAlways` and `ReadableInClearAlways`.
`BoundsAssumption` and `BasesAssumption` say only that the bounds of the model leave room for the
object streams and for what a revision begins with.

`LazyDocumentProofs`.  `IInv` says of each thread what its call has still to get (`CallOf`), of the
cache that it holds only objects that can be had, and that the queue of the cache is the beginning
of the history of uses, its map having just the keys of the queue (`LruOf`).  From it follow

* `CacheIsLruAlways`: the cache holds what was used last;
* `ImplementsDocument`: the document with a cache implements `PlainDocument`, which has none.

`ServicesProofs`, signatures.  `SignedTermsHoldAlways`: for every original and every way to sign, and
however many revisions follow each other, `[]SignedTermsHold`.  The property compares the last call
with `terms`, which the code does not have, so `IInv` has to say where they are in the file.  In the
revision a signature was made in, all it asked for can be read (`TermsReadable`); since
`enforce_history` looks at every revision, this is enough for permissions, whatever is written
later.  Locks of fields are read from the latest revision only, and `SignaturesStay` says that
signatures, unlike fields, are in all later revisions.  The other direction, that nothing else is
refused, needs that as long as signed fields are written by signing only, every revision is a
`SoundView` (`Unbroken`): each signature covers its definition, the certification is the only
signature that certifies, and each lock in force is what its signer asked for.  The lock of a
field not yet signed is bounded by the revision it stands in, so that a signature made later covers
it.  `OriginalsAssumption` says that the terms of an
original are in it, and only those if it is called sound; `SignersAssumption`, that a signer
certifies with a permission of 1 to 3 or not at all.

`ServicesProofs`, streaming writer.  `StreamedFileSoundAlways`: for every number of pages, streams and
calls, every buffer and every limit on numbers and offsets, `[]StreamedFileSound`.  The property
speaks of a file only when it is reported as written, so `WriterIInv` says of one that is `Open` what
makes its end come out right: the numbers given so far are those with an offset, the object with a
number is at its offset, everything written has one of these numbers and nothing is torn (`Placed`);
and the listed pages are the acknowledged ones, each with its streams before it (`PageWhole`).  After a failure
the writer is no longer open and nothing more is said or needed, because nothing succeeds; of a
finished file everything accepted is on disk, so that a later flush cannot fail.  `EndingIs` is what
`finalize` writes behind an open file: a table of either kind that lists every number, a stream
listing its own.  `WriterAssumption` says that there is a number besides those of catalog and page
tree, in the code `u32::MAX`, and that the absent value is no number.

`ServicesProofs`, resource pool.  `PoolIInv` says which locks a thread holds at which step
(`MapLocks`) and what the counters of a type say of its map (`TypeCounters`), also between the two halves of a clear.  From it
follow `StatsMatchPoolAlways` and `NoWaitInCircleAlways`: who holds a map for writing waits for the
statistics alone, whose holder waits for nothing, so that no wait closes a circle.

`ServicesProofs`, memory pool.  A request is counted before it is known whether a queue has a buffer
for it, and as a miss before the buffer is allocated.  `BuffersIInv` says by how much the counters
differ at each of these steps (`RequestsCounted`), which matters because the thread at one of them
has the statistics (`BufferLocks`), and that the buffer just taken is the last one of its thread,
of the class asked for and large enough (`BufferFits`).  From it follow `RequestsAddUpAlways`,
`QueuesBoundedAlways` and `QueuesAreReleasedAlways`.  `SoundConstants` says of the classes that
`preallocate` makes no more buffers than one may have, as the 16, 8, 4 and 0 of the code against 32,
16, 8 and 2.  That each size has a class uses that the numbers are well-founded.  Of
`UsageCoversPool` only the half about lengths is proved; `current_size` is compared with a sum over
queues, which is a fold.

`ServicesProofs`, calculated forms.  `FailureLeavesNoTraceAlways`: a call that fails has undone all
its steps.  The property looks at the end of a call only; `FormsIInv` says at each step before it
that what the call has kept is what it found.  The events it found are the first ones of those
there are now, up to the length it has kept (`EventsKept`); of the calculations only the one that
was added differs, and the one it took the place of is kept (`CalculationsKept`); and the values are
kept, unless none is to be calculated any more, when nothing can fail (`SavedValues`).  Nothing is
assumed of fields, values, calculations and limits.

`ServicesProofs`, scanned pages.  `EachPageOnceAlways`: for every list of pages in order, every
outcome of each page and every number of threads and processors.  `ScanIInv` says of each thread
that it has found what can be recognised in the part of its chunk that it has done (`ThreadsExact`),
and of the results that they are what the ended threads have found, the pages of each chunk together
(`VectorExact`).  That a thread's pages stay together when another puts its own behind them needs
that chunks have no page in common and no page is missing from all (`ChunksSound`), which is
arithmetic: with chunks of `ceil(n / threads)` pages every position is in exactly one
(`PositionInOneChunk`), however little is left for the last.  `SoundConstants` says that the pages to
scan ascend, as `find_scanned_pages` lists them, and that there is a processor.

`PageTreeProofs`.  `IndexExact`: for every file that satisfies `FilesAssumption`, and every bound on
pages and sizes (`SizesAssumption`), `[]PageIndexIsExact`: the index has no page twice, only leaves
that the root reaches, and all of them unless it is full.  `PageIndexIsExact` speaks only of a
finished walk.  `IInv` says of one under way that what it has visited or put on the stack is reached
from the root, that the kids of all it has visited are visited or wait on the stack, and that the
leaves it has visited are in the index, each once.  When the stack is empty, what it has visited is
closed under kids, and since `Reached` is the smallest such set the index is complete.

`AnswersFromTreeAlways`: whatever was asked before and is cached, a page handed out has each
attribute of its own or of its nearest ancestor with one, for every file, parents in a cycle
included.  `AnswerInv` says that the last answer and every cached page are what the finished index
and the file say; and the loop along the parents, which gives up at a parent it has met, agrees with
the definition by distances, which goes on round the cycle: by then it has been at all ancestors
there are, for from there the parents lead back (`LeadsBack`).  Induction over the rounds of the
loop is a statement about sets of numbers (`UpTo`), which the provers can instantiate.
`NoneAssumption` says that the absent value is neither a number nor a page.

`PagesAsInTreeAlways` adds the order: for every file and every bound, `[]PagesAsInTree`, of which
`PagesInOrderAlways` is the other half.  Kids may be shared or their own ancestors, so a page has
many paths from the root, and the claim is about the earliest.  `OrderInv` gives each visited node
and each entry of the stack a path (`Ordered`): that of a visited node is before all other paths to
it (`Soonest`), those on the stack ascend and continue the path of a visited node (`Waiting`), all
visited ones come before all that wait (`Later`), and each kid of a visited node is visited or waits
(`NoneLost`).  A path to a node that is not visited must leave the visited ones somewhere, so that
it begins with a path on the stack or comes after one (`Frontier`): what is popped next is next in
the order of the document (`VisitKeeps`).  `PagesInDocumentOrder` compares paths of bounded length
with bounded steps; that every path without a repeated node is within the bounds is the counting in
`WaysArePaths`.

`JoinsWorkers`, `SizeCovers`, `NoWaitInCircleAlways` and `QueuesAreReleasedAlways` prove definitions that no run lists;
`CacheIsLruAlways`, `StatsMatchPoolAlways`, `RequestsAddUpAlways`, `QueuesBoundedAlways`,
`EachPageOnceAlways`, `FailureLeavesNoTraceAlways` and `ImplementsDocument` prove what `services`
checks as part of `PoolsKeepAccount`, `ScanResultsExact` and `FormsKeepUp` and as `AnswersFromFile`; `IndexExact`, `PagesAsInTreeAlways`,
`StreamedFileSoundAlways` and `SignedTermsHoldAlways` state properties of that run as they are.

## 8. What is only model-checked, and what is not modelled

Only model-checked: `CallReturns` and `CallsReturn`, which are liveness; `PassesValidation`,
`AttributesPreserved` and `NoDanglingReference` of `PageMutation`, whose operations are folds and
walks over trees, which is induction over data and out of the provers' reach; `current_size` of
`MemoryPool`, a sum by folds; that the results of `ScannedPages` are those of its threads one behind
the other, which `ScanResultsExact` says with folds; of `FormCalculation` that dependents are up to
date, the depth is exact and events lead to the values, as calculations are ordered and summed by
folds; and everything of the other parts of `services`.  What the parsers and chunkers compute is defined by folds over any input, which
is induction over data again.

Not modelled:

* encryption, the cryptography, certificates, byte ranges and verification of signatures, filters, the lexer and the syntax of objects: functions
  from bytes to values, whose outcomes are inputs of the models;
* text, graphics, fonts, forms, layout, operations, analysis and export: sequential algorithms over
  documents in memory, which reach the modelled state only through the reader and the writer;
* recovery tools: best effort without a stated guarantee, except the recovery that opening a file
  performs, which `XRefChain` has;
* tagged pages that are copied or imported, the limits on depth and numbers of pages, and
  `PageReorderer`, which rebuilds a document from its pages;
* parallel generation and metrics, which join independent jobs in order; memory mapping; the page
  and text streamers, which hand out what other parts have parsed; split, merge and rotate, which
  copy pages through reader and writer in one thread; the other parts of forms (actions, validation,
  the script engine), which compute values from values;
* of the modelled parts: what an unfinished streaming writer writes when it is dropped, errors of
  `find_scanned_pages`, statistics of hits and sizes, the guards and the reference stack of
  `stack_safe.rs`, which the library does not use;
* I/O errors of `PdfWriter` and of incremental updates, and byte offsets there: a failed write ends
  the call and leaves no file to speak of (`StreamingWriter`, whose caller may go on, has them).
