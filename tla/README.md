# Verification of 2i_bench

2i_bench builds and queries inverted indexes: for every term of a document
collection, the increasing list of the documents that have it (docids) and, for
each, how often (freqs). It holds about twenty index types, which differ in how a
list is compressed, and behind all of them the same builders, enumerators and
query operators. This directory has TLA+ models of those parts, the TLC
configurations that check them, and proofs checked by TLAPS.

Paths below are relative to `src/`; `ds2i/` stands for `include/ds2i/`, `dint/`
for `include/dint/`, `opt_vbyte/` for `include/opt_vbyte/`.

## The system

Data flows through it in one direction:

    collection files -> builder + job queue -> index (frozen, mapped)
                                                -> document_enumerator -> query operator

- **Job queue** (`ds2i/semiasync_queue.hpp`). State: the batch being filled, the
  deque of running batches with their threads, the expected work. Operations:
  `add_job`, `complete`, and inside them `spawn_next_thread` and `commit_thread`.
  Worker threads run `prepare()` of the jobs of a batch; the main thread joins the
  batch at the front, runs the `commit()`s and pops it. With no workers
  everything happens in `add_job`. There is no lock: what separates threads is
  `join()`. Hard: every order in which workers finish, waiting for the oldest
  batch when all workers are in use, the partial batch at the end, an exception in
  `prepare()`. Right when commits happen once, in call order, after `prepare()`,
  and `complete()` returns with nothing left.
- **Builders** (`ds2i/block_freq_index.hpp`, `ds2i/freq_index.hpp`,
  `dint/dict_freq_index.hpp`, `ds2i/sequence_collection.hpp`,
  `ds2i/bitvector_collection.hpp`). State: one or two streams of encoded lists and
  their endpoints. `add_posting_list` makes a job whose `prepare()` encodes into
  its own buffer and whose `commit()` appends it; other overloads append bytes at
  once; `build` completes the queue and freezes the streams; `operator[]` finds a
  list by its endpoints. Hard: the direct calls beside queued ones, endpoints one
  more than the lists, buffers that must be dropped. Right when list *i* of the
  index is the list of call *i*, whole.
- **Block posting lists** (`ds2i/block_posting_list.hpp`). A list is blocks of 128
  gaps and 128 freqs with an array of block maxima and endpoints.
  `document_enumerator` decodes a block when it enters it and its freqs when
  asked. Operations: `write`, `write_blocks`, `get_blocks`, `decode`, `reset`,
  `next`, `next_geq`, `next_geq_non_forward`, `move`, `freq`. Hard: the lazily
  decoded buffers, a last shorter block, values computed in 32 bits on both sides,
  blocks laid out in another order, two strategies to find a block.
- **Sequences** (`ds2i/compact_elias_fano.hpp`, `compact_ranked_bitvector.hpp`,
  `all_ones_sequence.hpp`, `indexed_sequence.hpp`, `strict_elias_fano.hpp`,
  `strict_sequence.hpp`, `partitioned_sequence.hpp`,
  `uniform_partitioned_sequence.hpp`, `positive_sequence.hpp`). Increasing integer
  sequences as bits, with sampled pointers, and enumerators with `move`, `next`,
  `next_geq` and `prev_value` in any order, forward and back. A partitioned
  sequence cuts the values into runs that are stored relative to the one before,
  each in its cheapest encoding. Hard: what the enumerator of the high bits has
  already consumed, pointers on the boundaries of runs, short scans beside long
  jumps, the universe and length of a partition, which are not stored but rebuilt.
- **freq_index posting lists** (`ds2i/freq_index.hpp`, `positive_sequence.hpp`).
  Documents as one sequence, the sums of the freqs as another, whose enumerator is
  moved only by `freq()` and remembers a sum. Right when it is the same cursor as
  that of a block posting list.
- **Query operators** (`ds2i/queries.hpp`). `and_query`, `or_query`,
  `ranked_and_query`, `ranked_or_query`, `wand_query`, `maxscore_query` over the
  enumerators of one query, with a `topk_queue` kept from query to query. Hard:
  skipping by upper bounds, the order of enumerators that is repaired locally, a
  loop without an exit condition, calls of `next_geq` that may not be forward.
  Right when the answer is that of an exhaustive search.
- **Optimal partitioning** (`ds2i/optimal_partition.hpp`): where `partitioned_sequence`
  cuts. An approximate shortest path from position to position, with one sliding
  window per cost bound. State: the windows and their ends, the cost and the
  predecessor of every position. Hard: the two ends of a window move separately and
  each changes its universe; the two approximations. Right when the result is a cut
  and costs no more than the approximations allow.
- **opt-vbyte indexes** (`opt_vbyte/`): a builder that encodes docs and freqs of a
  list in two tasks; an optimizer that cuts a list in blocks of vbyte codes and
  bitvectors in one pass, remembering for each type the end where a block would gain
  most; enumerators over partitions of both types. Hard: thresholds and ends around
  the posting that was read last; `block_sequence::move`. Right when the blocks
  follow one another and take the whole list at the least cost.
- **DINT indexes** (`dint/`): blocks encoded with codewords of a dictionary that is
  built from statistics of the collection and cached in a file; a posting list like
  that of the block indexes. Targets are the most frequent sub-blocks of 1 to 16
  values; compaction merges them in one table. Hard: a priority queue with entries
  that have died, a parse with runs, entries and two exceptions, a dictionary of
  another collection. Right when every target is found where its codeword points and
  blocks decode whatever the dictionary.
- **Integer codes and block codecs** (`ds2i/integer_codes.hpp`, `bits_enumerator.hpp`,
  `interpolative_coding.hpp`, `block_codecs.hpp`, `qmx_codec.hpp`, `VarIntG8IU.h`,
  `varintgb.h`, `mixed_block.hpp`, `dec_time_prediction.hpp`). A block codec appends
  the bytes of up to 128 values to a buffer, and its decoder returns the pointer
  behind them, where the next block starts. Hard: partial blocks, values that need
  all bits, decoders that read words and store groups past what was asked for.
- **Wand data, bm25** (`ds2i/wand_data.hpp`, `bm25.hpp`): float weights and maxima
  per term.
- **Collections, tools, benchmarks** (`ds2i/binary_*.hpp`, `verify_collection.hpp`,
  `src/*.cpp`, `benchmarks/`).
- **External**: the submodules succinct (bit vectors), FastPFor and s_indexes are
  not in the tree; CRoaring is vendored.

Nothing is persisted step by step and nothing is sent over a network: there are no
crashes to recover from and no messages to lose. Concurrency is in the job queue
and in the opt-vbyte builder only.

## Modules

| Module | What it models |
| --- | --- |
| `OrderedBuild` | abstract: what a builder promises. Lists handed over are appended once, in order; the build finishes when all are in |
| `SemiasyncQueue` | the queue with its threads; implements `OrderedBuild` |
| `IndexBuilder` | the builders on top of the queue: EXTENDS `SemiasyncQueue` and gives its jobs buffers, streams and endpoints; implements `OrderedBuild` once more, for the bytes between endpoints |
| `IndexBuilderProofs` | the inductive invariant and the theorems of the queue; those of the builders, on top of them |
| `Postings`, `PostingCursor` | abstract: a cursor over a set of documents, answering `next`, `next_geq`, `move`, ... |
| `BlockPostingList` | the layout of a list and the methods of its enumerator as operators on records |
| `BlockEnumerator` | one list, one enumerator, one action per method; implements `PostingCursor` |
| `CommonProofs` | lemmas that the proofs about several modules need: least elements, induction, division, sums over finite sets, the first posting from a bound on |
| `BlockEnumeratorProofs` | what is stored, the invariant of the enumerator and the theorems |
| `UnaryEnumerator` | external: succinct's `unary_enumerator` and `predecessor1` over the set of ones of a bit vector |
| `EliasFano`, `RankedBitvector` | write and the enumerator of the two encodings |
| `IndexedSequence` | `indexed_sequence` and `strict_sequence`: choose among them and all_ones |
| `BlockSequence` | `block_sequence` of opt-vbyte |
| `PartitionedSequence` | `partitioned_sequence`, the uniform one over it, that of opt-vbyte, and `positive_sequence` |
| `SequenceEnumerator` | one sequence of any kind, one enumerator, one action per method |
| `SequenceProofs` | what is stored of a sequence in each encoding, and what every method of every enumerator reads of it |
| `SequenceEnumeratorProofs` | the invariant of `SequenceEnumerator` and its theorems |
| `FreqIndexEnumerator` | a list of `freq_index` or of opt-vbyte; implements `PostingCursor` |
| `FreqIndexProofs` | what is stored of a list of `freq_index`, the invariant of its enumerator and the theorems |
| `RankedQuery` | what the query operators share, and the `topk_queue` |
| `AndQuery`, `OrQuery`, `Wand`, `Maxscore` | the query operators, each a state machine whose loops are steps |
| `Queries` | EXTENDS the four: they share the variables of `RankedQuery`, and a query is answered by one of them |
| `QueryProofs` | lemmas about the `topk_queue`, the best k of a set, sums of scores, sorted enumerators and upper bounds; the inductive invariant of the operators and the theorems |
| `OptimalPartition`, `Optimizer` | the two algorithms that cut a list, each a state machine whose loops are steps |
| `PartitionProofs` | their inductive invariants and theorems |
| `Words` | external: shifts, masks and memory, a word being the set of its one bits |
| `Qmx` | `qmx_codec`: lengths, promotion, the stripes and what each decode stores |
| `ByteCodes`, `BitCodes` | TightVariableByte, varint-G8IU, group varint; gamma, delta, Rice, zeta and interpolative codes over `bits_enumerator` |
| `BlockCodecs` | the block codecs made of them, with the table of delta codes |
| `Codecs` | mixed blocks; a list through a codec, block after block, and through `block_transformer` |
| `DintDictionary` | targets and their compaction, statistics and the three dictionaries |
| `DintBlock`, `DintCodecs` | greedy and optimal parse, decode; `Codecs` with a dictionary that is built, stored, loaded and used |
| `MC*` | instances for TLC; the queue and the builders have theirs in the `.cfg` |

`BlockPostingList` takes a codec by its contract (what is encoded with a sum and a
size decodes to itself with the same), which is what the run `codecs` checks of each.

The state of a module has the names of the members it stands for (`next_thread`
for `m_next_thread`, `running_threads`, `endpoints`, `docid`). In
`SemiasyncQueue` a `pc` says where the main thread is in `add_job`, `complete` and
`commit_thread`; workers step at each `prepare()` begin and end, and so interleave
with every step of the main thread. In the enumerators a method is a pure operator
from the state of the enumerator to the next (`EFNextGeq`, `EnumeratorMove`), so
that it can be used inside another one as it is in the code, and an invariant can
ask for the result of *every* call in *every* state the others can lead to.

The codecs are modelled to the bit: a word is the set of its ones and a buffer a
sequence of bytes, so that shifts, masks, words read across the end of a block and
groups stored past the last value are what they are in the code. `DintCodecs`
extends `Codecs`, whose blocks it encodes with a dictionary; `MCPartitions` runs the
two cutting algorithms one after the other.

What is abstracted elsewhere: bits. An Elias-Fano sequence is the set of the positions of
its ones, the array of low parts and the two arrays of sampled pointers; a block is
what was encoded with the sum it was encoded with, and decodes to itself only for
that sum and size; lists in a builder are sequences of cells that name the call,
the stream and the place they belong to. Widths are kept where they matter:
`uint32_t` sums of `block_posting_list` wrap at `Modulus`, and the `int` a single
partition's bound goes through wraps at `IntLimit`. Scores are positive integers.

Operators under "Plausible slips" are not part of any specification: each is what a
definition above or below it would be with a likely mistake, and is substituted for
it to see that a property notices.

## Runs

| Run | Instance | Shows |
| --- | --- | --- |
| `queue` | up to 6 jobs of work 1 or 2, threshold 2, 0 to 3 workers | commits in order, once, after prepare; nothing lost; `complete()` complete and returns; refinement of `OrderedBuild` |
| `builder` | 3 queued and 2 direct lists, one and two streams, 0 to 2 workers | every list whole and in call order, buffers freed, refinement for the bytes stored |
| `block_cursor` | blocks of 2, lists of 1 to 5 of 6 documents, arithmetic modulo 8, block orders of up to 3 blocks | the enumerator is a cursor, position and freq belong to the docid, what was written is read |
| `block_seek` | 19 and 20 blocks, the code's threshold of 16 | the binary search of `next_geq_non_forward` finds the right document |
| `sequences` | all increasing sequences of up to 6 values below 7 (all weakly increasing of up to 5 for Elias-Fano), nine kinds, every partitioning | from every state of the enumerator every `move`, `next`, `next_geq`, `prev_value` is right, and partitions are opened as they were written |
| `freq_index` | all lists over 4 documents, the three `freq_index` types and opt-vbyte, every pair of partitionings (in opt-vbyte one of the two is cut, in every mix of block types), two kinds of freqs | same cursor as the block lists, freqs follow documents |
| `codecs` | whole blocks of 128 and partial ones, with and without a sum, over patterns of widths for every stripe, group size and code length; ten codecs, mixed blocks, four dictionaries from the list's own or another collection | blocks encoded one behind the other are found and decoded, nothing is stored past the overflow, every target is in the table, the optimal parse is the shortest |
| `partitions` | every increasing list below 11 for `optimal_partition`, every list of up to 9 postings with gaps 1, 2 and 6 for the optimizer | the cuts are cuts; `cost_opt` is what the blocks cost; what the cuts cost against the best cut by exhaustive search |
| `queries` | up to 3 lists over 4 documents, k 1 and 2, a clean and a used queue, the four operators | the answer of an exhaustive search, the loop invariants behind it, forward calls, termination |
| `block_seek_position` | 19 blocks | finding 1 |
| `maxscore_forward` | 3 documents | finding 2 |
| `seek_beyond_universe` | the singleton of a test | finding 3 |

### Bounds

They are small so that the interesting case is common, not rare. Blocks have 2
postings, so five postings are two full blocks and one short one. Six jobs with a
threshold of two give batches of one and two jobs, three workers at once, a fourth
batch that waits, and a partial batch at the end. The scan threshold of the
sequences is 1 where the code has 8, and pointers are sampled every 4 values (every
2 in `freq_index`), where it has 256 and 512: with sequences of six values every
short scan, long jump, jump from the current position and jump from a pointer is
taken, in each encoding, and pointers fall on the first and the last position of
runs. Weights in `queries` differ in where the maximum of a list is met, so bounds
are tight for some documents and loose for others. `block_seek` and
`seek_beyond_universe` keep the code's thresholds. A bound that stands for a width
or a limit of the code (`Modulus`, `IntLimit`, `NoSampling` for 63) is a CONSTANT
and named where it is declared.

`codecs` has the block size of the code, 128, because promotion near the end of a
block, runs of zeros and table lookups depend on it; values are below 2^30 in bit
codes and any 32-bit word in byte codes, QMX and DINT, and sums are below 2^30.
`NumEntries` is 40 where the code has 65536, so that dictionaries are full and have
to leave targets out, and `NumNarrow` is 16 where it has 256 codewords of 8 bits, so that
each width of `multi_dictionary`'s blocks is the shorter one for some list, and is decoded.
Hashes of targets are taken to be injective. In `partitions`
the approximations are 50 and 30 percent, so that windows differ and the last one
does not always reach: the property allows what they allow and no more.
`PvbBlockSize` is 2, and what lies behind a buffer is `Garbage`.

### Fairness

`queue` assumes weak fairness of the caller, of the code of the queue on the main
thread, and of each worker: threads are `std::thread`s on a preemptive system, a
worker waits for nobody, and the caller of the tools goes on adding lists until it
calls `complete()`. `queries` assumes weak fairness of the step of the one thread
that runs the query. No strong fairness is needed. The other runs are about safety.

`CHECK_DEADLOCK` is turned off in `codecs` only: a list that is decoded is at its
end. The other models stutter explicitly where the code has returned.

## Findings

1. **`next_geq_non_forward` may not move** (`block_seek_position`,
   `ds2i/block_posting_list.hpp:221`). In lists of more than 17 blocks, when the
   bound equals the maximum of a block that the binary search probes, only the
   docid is set: position, freq and next still belong to the posting before. No
   test calls it on such a list.
2. **`maxscore_query` asks to go back** (`maxscore_forward`, `ds2i/queries.hpp:548`).
   A list that was essential may be past the document when it becomes non
   essential, and `next_geq` asserts that it is not asked to go back. Without
   assertions the answer is right: the document is not in that list, and
   `CallsAreSafe` shows that both readings find the same posting.
3. **`next_geq` beyond the universe** (`seek_beyond_universe`,
   `ds2i/compact_elias_fano.hpp:191`). From the end, a bound slightly above
   universe leads to position `size() + 1`. `test/test_generic_sequence.hpp:130`
   asks for `size()`, but that test is never instantiated: `has_next_geq`
   (`include/util.hpp:109`) looks for `has_next`.

Other doubtful places met while modelling, with no statement of the repository to
check them against or outside the models:

- `block_sequence::move` (`opt_vbyte/block_sequence.hpp:51`) takes the count of
  decoded blocks for the number of the current one. Out of the decoded block it reads
  past the buffer, and back it does not end. `freq()` after a jump, as in the AND
  queries (`ds2i/queries.hpp:73`, `:367`), meets it in lists of more than one block.
  `freq_index` stops at such calls; `FreqOfDocid` says exactly where they are.
- `decode_sequence` (`ds2i/decode.hpp:15`) calls `next()` after `move(0)`, adds the
  base twice and reads past the last value; only a benchmark calls it and nobody
  compares what it returns. That of `opt_vbyte/` is no better.
- `block_posting_list::decode` (`ds2i/block_posting_list.hpp:126`) sums over a whole
  block where a part was decoded, and writes behind the values asked for; `get_blocks`
  (`:334`) takes the order blocks lie in for their order.
- `interpolative_coding.hpp:86` and `bits_enumerator.hpp:69` read a word that may
  begin behind the last byte of a block; the models have arbitrary bytes there.
- `varintgb_block` (`ds2i/block_codecs.hpp:516`) keeps a thread-local buffer of the
  size its first call asked for.
- `multi_dictionary.hpp:301` asserts what does not hold for a dictionary that was just
  built rather than loaded; the last entries of a multi dictionary that is not full
  are never mapped; a dictionary file cut short by a crash is loaded like any other.
- `compute_overlap` (`dint/dictionary_building_utils.hpp:63`) stops at the first
  mismatch, so some overlaps are not found: the table is longer, never wrong.
- `swap` of the builders' indexes leaves out `m_num_docs`.

## Proofs

`IndexBuilderProofs` proves of the queue, for any number of jobs, any work values and any
numbers of worker threads (assumption `QueueAssumption`: naturals, a positive
threshold):

- `TypeCorrect`, `CommitsInOrder`, `CommitsPrepared`, `WorkersBounded`,
  `JobsConserved`, `CompleteMeansComplete`: the safety invariants of the run `queue`;
- `QueueImplementsOrderedBuild`: the refinement.

The inductive invariant `IInv` is `TypeOK`, `CommitInOrder`,
`PreparedBeforeCommit`, `ThreadsBounded` and

- `Progress`: a worker has finished at most what it started and is inside at most
  one `prepare()`; what it finished is prepared. Needed because `commit_thread`
  relies on `join()`, that is, on a batch being finished, for each of its jobs;
- and, as long as no encoder has failed, `Control` (what the main thread has
  established at each point of its code), `JobsInPlace` (committed, running,
  collected and inline jobs follow one another without gap or overlap) and
  `KnownJobs` (workers hold only jobs that were added).

`CommitInOrder` alone is not inductive: that the next job of the front batch is the
successor of the last one committed is a fact about every batch behind it, and that
the batch chain survives `push_back` and `pop_front` is most of the proof. There is
one lemma per conjunct and step (`TypeStep`, `ProgressStep`, `ControlStep`,
`JobsStep`, `CommitOrderStep`, ...), one case per action. For the refinement,
`CompleteIsComplete` follows from `JobsInPlace` at `pc = "done"`, which makes the
step to `"done"` a `Finish` of `OrderedBuild`; commits are its `AppendNext`.

`PartitionProofs` proves, of the optimizer, for every list, every cost of a gap and of a block
(`CostAssumption`: integers and a natural; `ListAssumption`: lists are sequences of
gaps whose first is free):

- `BlocksAreInOrder`: the blocks are nonempty, follow one another and take the list;
- `GainStaysBetweenBest`: the assertions on the gains (`opt_vbyte/optimizer.hpp:63`,
  `:75`, `:109`, `:121`) hold;
- `CutIsCheapest`: the cut costs at most one bit more than the cheapest of all cuts
  (`CutsAtLeastCost`).

That a block ends behind where it begins is a fact about the *next* one: when it is
closed, the best end of the other type becomes the posting just read. The inductive
invariant `OptimizerInv` therefore has `BestInside` (a best gain that is not 0 was met
inside the current block, and before the last posting if the gain has moved since) and
`Signs`, which together say that a block that is worth closing is not empty, and
`Closing` for the three steps at the end.

`CutIsCheapest` compares one cut with all of them, and its invariant `CheapInv` adds what
makes that possible. Costs are counted from `Total("encoder", n)`, what `n` postings take
in codes without a block, so that a posting in a bit vector counts minus its `Gain`. A
*chain* (`IsChain`) is a lower bound for every position: two numbers, at most what the
postings so far cost if the last block is a bit vector, or codes, each of which goes on or
pays `FixCost` for the other (`GoesOn`). What a chain says is below every cut
(`FloorIsBelowCuts`, by following the blocks of a cut) and so below `LeastCutCost`
(`LeastCutIsAbove`, over the table that the definition fills in). `CheapInv` says that
there is a chain which ends with two numbers given by the gains the pass keeps, by one of
three formulas: no block yet (`NoBlockYet`), the last one a bit vector
(`AfterBitvector`), the last one codes (`AfterEncoder`). The thresholds of the code, `F` for
the first block and `2F` from then on with a loss of more than `2F`, are what the four
inequalities of `GoesOn` need at the posting where a block is closed: there the formula
changes, and the chain must not rise. `close()` then
pays the one block that the two numbers of the chain leave open (`EncoderLeft`,
`RestLeft`). The one bit is `Base`: `curr_gain` starts from -1, so until there is a block it
is one below what was saved.

And of `optimal_partition`, for every increasing list, cost function and choice of windows:

- `PartitionIsACut`: the path leads from the end to the begin of the list;
- `WindowsStartWhereLookedFrom`: `assert(window.start == i)` holds;
- `CostIsThatOfBlocks`: `cost_opt` is what the blocks found cost one by one, as they are
  stored, unless no cut was cheaper than one block of the whole universe (`CostIsFound`).

Its invariant `CutInv` has `EndsInTheList` (a window that is looked from ends past the
position it is looked from, so that only later positions get predecessors),
`WindowsStartAt` (where each window starts, before and after the current one was moved)
and `PathLeadsBack`.

`CostInv` is what `CostIsThatOfBlocks` adds to it. `WindowsShow` says that a window has
the base and the last value of the block it stands for, however its two ends were moved;
the base of a block that starts behind another is one past that one's last value, so a
list that increases is needed for costs to be asked of a universe that exists.
`CostsAddUp` says of every position (`Reached`) that its cost is that of its predecessor
and a block, or that nothing was cheaper than the list in one block. It is inductive because the cost
of a predecessor does not change any more: predecessors are at most `i`, and only ends
past `i` are relaxed (`EndsInTheList`). `FollowsPath` has the partition follow the
predecessors, and the theorem sums the costs along it.

`IndexBuilderProofs` proves of the builders, for any number of queued and direct calls, any lengths of
the encoded lists and any builder (`BuilderAssumption`: natural numbers, nonempty
encodings, one stream or two), the properties of the run `builder`:

- `BuilderTypeCorrect`, `BuffersAreFreed`, `IndexHasWholeLists`, `IndexInCallOrder`;
- `BuilderImplementsOrderedBuild`: the refinement, for the bytes between endpoints.

`BInv` is the queue's `IInv` and

- `StreamsRight`: endpoints divide a stream into as many sections as there are lists
  (`Layout`), each section is the list of one call in *every* stream (`SectionsWhole`),
  each call has one (`CallsPlaced`), the sections of queued calls are in their order
  (`JobsInOrder`), and all are when no direct call found jobs pending (`QuietOrder`).
  `ListsInCallOrder` speaks of the finished index only, so it has to be followed
  through every append;
- `BatchesOrdered`: no job is in two batches. Two workers would otherwise write to one
  buffer;
- `BuffersEncoded` and `BuffersFreed`: from the end of its `prepare()` to its commit a
  buffer holds the whole list, and at no other time; a list committed empty or twice is
  what they exclude;
- `IndexFrozen`: `build()` is the last to read the streams.

`BlockEnumeratorProofs` proves, for every block size, modulus, number of documents and set
of lists of documents below it, in every order of the blocks that `write_blocks` accepts
(`BlockListAssumption`, `EnumeratorAssumption`: lists are increasing and not empty, and
`num_docs` fits in the integers), the properties of the runs `block_cursor` and
`block_seek`:

- `ListsRoundTrip`: blocks are decoded with the sum and the length they were encoded with,
  and `decode()` returns the list;
- `SeeksFindTheDocid`: a caller that only seeks always gets the right document, through
  the binary search and its hits;
- `EnumeratorTypes`, `EnumeratorAtPosting`, `EnumeratorIsACursor`: every field in its
  range, position, docid and freq of one posting, and the refinement of `PostingCursor`.
  They are stated for behaviours without a `SeekHit`, a call of `next_geq_non_forward`
  whose binary search meets its bound (hypothesis `[][~SeekHit]_vars`): after one, position
  and docid belong to different blocks (finding 1), so a weaker condition on single
  calls would not do;
- `ScannedListsAreCursors`: on lists of at most `linear_scan_threshold + 1` blocks there
  is no such call, and all three hold of every behaviour. Those are the lists of the run
  `block_cursor`.

The invariant has three layers. `ListRight`: the items behind the endpoints are those of
the list (`Stored`), whichever layout they have. `BlockRight`: the enumerator's block is a
block of the list, its size, maximum and `freqs_ptr` are that block's, the buffer holds its
first docid and then its gaps, and its frequencies if `freqs_decoded`; nothing is said of
what lies behind them, which is another block's. `CursorRight`: short of the end, the docid
is that of the posting at the position. A hit breaks the third and keeps the others, which
is why `SeeksFindTheDocid` needs no condition. `DecodedDocs` (entering a block), `WalkedTo`
and `ScannedBlock` (adding gaps up to a position or a bound, in `uint32_t`) carry the
layers through the methods; `BinarySearchFinds` says that no block before
the one where the scan starts reaches the bound, for any threshold, and `FirstGeqInBlock` that the
first posting met there is the first of the list. The sums and the binary search are
recursive functions: that they are what their equations say (`WalkIsUnique`,
`SearchExists`) is proved from a least counterexample, too.

`QueryProofs` proves, for every set of terms, collection of lists, number of documents,
k and queue left behind (`QueryAssumption`: finitely many terms, nonempty lists of
documents below `NumDocs`, positive weights and k), all safety properties of the run
`queries`:

- `QueriesFindTheAnswer`: the four operators return what a search of all the lists
  returns;
- `NothingIsSkipped`, `WhatIsSkippedCannotEnter`, `EnumeratorsStaySorted`: the reasons;
- `NextGeqIsCalledSafely`: how enumerators are asked to move (`EnumeratorsMoveForward`,
  `GoingBackIsHarmless`);
- `QueryTypeCorrect`, and `QueryInvariant`, which they follow from.

`QInv` has one conjunct per operator, its loop invariant, besides `Common` and `Fresh`:

- `AndInv`: the queue and the count are those of `AllBefore(candidate)`; the
  enumerators already asked are at the candidate; none is past it but at its first
  posting, which is why every call is forward;
- `OrInv`: those of `AnyBefore(cur_doc)`, and `OrMoved`: each enumerator is at its first
  posting from `cur_doc` on, or behind it when it was looked at, and `next_doc` is the
  least of the latter, so that the next turn leaves none out;
- `WandInv`: the enumerators are in order (`InOrder`) and a document before some
  enumerator that has it cannot enter (`WandLoop`). It is kept because the score of such
  a document is at most the upper bound of the enumerators before the pivot;
- `MaxscoreInv`: `OrMoved` for the essential lists (`EssentialMoved`); the maxima of the
  others together cannot enter, and each is where a forward `next_geq` would leave it
  (`NonEssential`, `Completed`). That the threshold only rises makes essential lists
  non essential for good.

The rest of the module is what they rest on. The best k scores of a set are defined by a
fold that inserts and drops the lowest; `BestFacts` says that the result does not depend
on the order of insertion, and `BestWithoutTheRest` that documents which cannot enter
the queue of some others change nothing. Then: `ScoreBound` (a score is at most the
upper bound of the lists that have the document), and `BubbleSorts` (moving one
enumerator forward and swapping it down restores the order). Facts about finite sets and
sequences that ask for induction are proved from a least counterexample, an element of a
nonempty set of naturals (`CommonProofs`), since induction theorems cannot be instantiated.

`SequenceEnumeratorProofs` proves all safety properties of the run `sequences`, for every
universe, every set of sequences of every kind (`InputAssumption`: not empty, below the
universe, increasing, or not decreasing for `compact_elias_fano`), every way to cut
one in partitions, every sampling of the pointers, every `linear_scan_threshold` and every
order of calls:

- `SequenceMoves`, `SequenceSeeks`, `SequenceLooksBack`: from wherever the calls have led,
  `move()`, `next()`, `next_geq()` and `prev_value()` answer as the sequence does;
- `SequenceOpens`: a partition is read with the universe and the length it was written
  with, which only its bounds tell;
- `SequenceTypes`, and `SequenceIsRead`, which they follow from.

The invariant says that what is stored is right and that the enumerator reads *one* position
of it. `SequenceProofs` has both parts for each encoding:

- `EFParts`: the ones, the low parts and the two arrays of pointers are those of the values;
  `WritesParts` gets it from the loop of `write()`, whose pointers to the zeros are set run by
  run (`PointerToZero`). `RBParts` adds the samples of the ranks; `IndexedRight`
  joins them with `all_ones`, and with the shorter universe of `strict_elias_fano`;
- `PartitionedRight`: each part is right for its own values, base and universe,
  and the bounds and ends are stored as sequences in their turn (`PartitionedWritten`);
- `EFAt`, `RBAt`, `IndexedAt`, `PartitionedAt`: position, value and the enumerator of the bits
  belong together. For the bits this is `AtValue`: the enumerator stands on the one of the
  position *and has consumed it* (`AtOne`), or has at the end nothing left to read.
  Every method starts from there, and the short scan, the jump through a pointer, the count of ones
  from a sample and the switch to another partition all lead back to it
  (`EFNextGeqAt`, `RBNextGeqAt`, `PartitionedNextGeqAt`, ...).

`Pow2`, the ends of uniform partitions and the values a scan goes through are recursive functions, or found by
`CHOOSE`; facts about them are proved from a least counterexample (`InductionFrom`).
Only one thing about the width of integers is assumed, that universes are at most
`IntLimit` (hazard at `partitioned_sequence.hpp:141`).

`FreqIndexProofs` proves, of the three indexes of `freq_index`, both properties of the run
`freq_index`, for every set of lists (`InputAssumption`: increasing documents below the
universe, as many positive freqs, whose sum is below `IntLimit`), every way to cut the
documents and the frequencies, every sampling and threshold and every order of calls:

- `FreqBelongsToDocid`: `position()`, `docid()` and `freq()` belong to one posting, wherever
  `freq()` was called before;
- `ListIsACursor`: the refinement of `PostingCursor`, so that a query cannot tell these lists
  from the block lists of `EnumeratorIsACursor`;
- `ListIsRead`, which they follow from.

`ListRight` says that documents and the sums of the freqs are stored right, each as a
sequence of `SequenceProofs` with its own universe, and that the length, which is stored
in as many bits as the sum of the freqs needs, is read back. `ReadsAt` says that the
enumerator of the documents is at a position *p* with its docid, and that of the sums at
a position *q* of its own with the sum there in `cur`: only `freq()` moves it.
`FreqReads` takes it from any *q* to *p*: by the step that keeps `cur` as the sum before
when *p* is *q* + 1, by a jump to 0 or to *p* - 1 otherwise. That a sum less the one
before is the freq is `SumsStep`, from the sums over finite sets of `CommonProofs`; that
the sums increase, as a sequence that is written has to, is where freqs must be positive.
The theorems are about `input.kind # "opt_vbyte"`: with the mixed blocks of opt-vbyte
`freq()` does not always return (see Findings).

Only model-checked:

- liveness (`CompleteReturns`, `Returns`), which the prover does not treat;
- that `optimal_partition`'s cut is near the best (`NearBestCut`): it needs a cost that grows
  with the block and windows whose bounds grow by a factor, with truncated products;
- the lists of opt-vbyte (`FreqIndexEnumerator` with `opt_vbyte`): `SequenceProofs` leaves out
  `BlockSequence`;
- codecs and dictionaries. Their decoders are recursive operators over bytes, and the prover
  has no arithmetic in modules that reach one.

## Not modelled

- Codecs that are one call of code that is not in the tree (Simple9, Simple16,
  Simple8b, StreamVByte, MaskedVByte); of OptPFor only the wrapper is, with the
  library's coder as external. Predicted times, by which mixed blocks choose, are
  floats: the model lets every offered point be chosen.
- The enumerator and layout of `dict_posting_list`, which are those of
  `block_posting_list` with longer buffers: `DintBlock` has what differs.
- DINT decoding into a buffer that is not zeroed. A run stores no more than
  `max_entry_size` zeros and counts as all of them, so the rest has to be in the buffer.
  `document_enumerator` fills it with zeros first (`dint/dict_posting_list.hpp:382`, `:398`)
  and `benchmarks/decode.cpp:65` does for `decode`; `block_data` resizes it with ones (`:308`,
  `:314`), and nothing in the repository calls that for DINT. `DecodesWhatWasEncoded` is
  about the first two only.
- What a caller could do after `prepare()` threw without worker threads: no caller catches it.
- Calls of `next`, `move` or `next_geq` on an enumerator of a block posting list that is past its end.
- The two tasks of `opt_vbyte`'s `add_posting_list`: each appends to a collection of
  its own and both are awaited, so nothing can interleave visibly.
- Floats (wand data, bm25), file formats, memory maps, command lines, profiling,
  benchmarks and the tools around the builders.
- `decode()` of the `freq_index` types, `partition_type()` and
  `positive_sequence::next()`.

## Plan

What is left, in order:

1. Proofs about the partitions of opt-vbyte: `BlockSequence` as a third encoding in
   `SequenceProofs`, with the calls its `move` can answer.
2. The pipeline of tools: term ids of index, wand data and queries when lists are
   filtered by length.
