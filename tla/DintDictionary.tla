---------------------------- MODULE DintDictionary --------------------------
(***************************************************************************)
(* The dictionaries of DINT: rectangular_dictionary, with a row of         *)
(* max_entry_size words for each codeword, single_dictionary and           *)
(* multi_dictionary, whose offsets lead into one compacted table.  The     *)
(* first codewords are reserved: two for exceptions and five for runs of   *)
(* zeros, whose entry is the zeros the table starts with.                  *)
(*                                                                         *)
(* dictionary_building_utils.hpp: how the targets of a dictionary, the     *)
(* short sequences of words that may get a codeword, are compacted into    *)
(* one table in which every target can be found.  `packed` drops a target  *)
(* that is a prefix of another; `overlapped` drops one that lies inside    *)
(* another and then lets the end of one and the start of another share     *)
(* their words, the longest overlap first.                                 *)
(*                                                                         *)
(* Entries are looked up by a 64-bit hash in the code, by themselves here. *)
(***************************************************************************)
EXTENDS Words

CONSTANTS
  NumEntries,   \* constants::num_entries, 65536
  NumNarrow,    \* how many of them a codeword of 8 bits may stand for, 256
  NumSelectors  \* constants::num_selectors: the dictionaries of a multi one

MaxEntrySize == 16
EXCEPTIONS == 2
RunSizes == <<256, 128, 64, 32, 16>>
Reserved == EXCEPTIONS + 5
TargetSizes == {16, 8, 4, 2, 1}

-----------------------------------------------------------------------------
(* Targets: shorter ones first, and by their words.                          *)

WordLess(v, w) == v # w /\ Max((v \ w) \cup (w \ v)) \in w

TargetLess(s, t) ==
  IF Len(s) # Len(t) THEN Len(s) < Len(t)
  ELSE \E i \in 1 .. Len(s) :
         WordLess(s[i], t[i]) /\ SubSeq(s, 1, i - 1) = SubSeq(t, 1, i - 1)

(* The elements of a set in an order, each at the place of its rank.         *)
Placed(rank) ==
  [i \in 1 .. Cardinality(DOMAIN rank) |-> CHOOSE x \in DOMAIN rank : rank[x] = i]
SortedTargets(S) == Placed([t \in S |-> 1 + Cardinality({s \in S : TargetLess(s, t)})])

FoundAt(s, t, p) == SubSeq(t, p + 1, p + Len(s)) = s

PrefixOverlap(s, t) == Len(s) < Len(t) /\ FoundAt(s, t, 0)
Contained(s, t) == Len(s) < Len(t) /\ \E p \in 0 .. Len(t) - Len(s) : FoundAt(s, t, p)

WithoutPrefixes(all) ==
  SelectSeq(all, LAMBDA s : ~\E k \in 1 .. Len(all) : PrefixOverlap(s, all[k]))
WithoutContained(all) ==
  SelectSeq(all, LAMBDA s : ~\E k \in 1 .. Len(all) : Contained(s, all[k]))

(* What is left of the targets before anything overlaps.                     *)
Reduced(policy, targets) ==
  IF policy = "overlapped" THEN WithoutContained(SortedTargets(targets))
  ELSE WithoutPrefixes(SortedTargets(targets))

-----------------------------------------------------------------------------
(* Overlaps.  Entries are [entry, valid]; overlaps name two entries.         *)

Entries(targets) == [k \in 1 .. Len(targets) |-> [entry |-> targets[k], valid |-> TRUE]]

(* The first length at which end and start differ ends the search.           *)
Differing(s, t) ==
  {l \in 1 .. Min({Len(s), Len(t)}) : SubSeq(s, Len(s) - l + 1, Len(s)) # SubSeq(t, 1, l)}
ComputeOverlap(s, t) == Min({Min({Len(s), Len(t)})} \cup {l - 1 : l \in Differing(s, t)})

OverlapsOf(entries, pairs) ==
  {o \in {[left |-> p[1], right |-> p[2],
           overlap |-> ComputeOverlap(entries[p[1]].entry, entries[p[2]].entry)] : p \in pairs} :
     o.overlap > 1}

AllOverlaps(entries) ==
  OverlapsOf(entries, {p \in (DOMAIN entries) \X (DOMAIN entries) : p[1] # p[2]})

(* The tops a priority queue may give.                                       *)
Tops(overlaps) == {o \in overlaps : \A other \in overlaps : other.overlap <= o.overlap}

Stale(entries, o) == ~entries[o.left].valid \/ ~entries[o.right].valid

(* A plausible slip.                                                         *)
OverlapCopied(left, right, overlap) == left \o SubSeq(right, overlap + 2, Len(right))

Joined(left, right, overlap) == left \o SubSeq(right, overlap + 1, Len(right))

(* Both entries become invalid, and their union a new one.                   *)
MergedEntry(entries, o) == Joined(entries[o.left].entry, entries[o.right].entry, o.overlap)
Merged(entries, o) ==
  Append([entries EXCEPT ![o.left] = [entry |-> MergedEntry(entries, o), valid |-> FALSE],
                         ![o.right].valid = FALSE],
         [entry |-> MergedEntry(entries, o), valid |-> TRUE])

NewOverlaps(entries) ==
  LET new == Len(entries)
      others == {j \in 1 .. new - 1 : entries[j].valid}
  IN OverlapsOf(entries, (others \X {new}) \cup ({new} \X others))

OnlyValid(entries) == SelectSeq(entries, LAMBDA e : e.valid)

(* Last, each entry in its turn takes over one that starts with the word it  *)
(* ends with.                                                                *)
Followers(entries, i) ==
  {j \in 1 .. Len(entries) : j # i /\ entries[j].valid
                               /\ entries[j].entry[1] = Last(entries[i].entry)}

TakeOver(entries, i, j) ==
  [entries EXCEPT ![j].valid = FALSE,
                  ![i].entry = Joined(entries[i].entry, entries[j].entry, 1)]

SingleMerge(entries, i) ==
  IF ~entries[i].valid \/ Followers(entries, i) = {} THEN entries
  ELSE TakeOver(entries, i, Min(Followers(entries, i)))

RECURSIVE SingleMergesFrom(_, _)
SingleMergesFrom(entries, i) ==
  IF i > Len(entries) THEN OnlyValid(entries)
  ELSE SingleMergesFrom(SingleMerge(entries, i), i + 1)

SingleMerges(entries) == SingleMergesFrom(entries, 1)

EntriesOf(entries) == FlattenSeq([k \in 1 .. Len(entries) |-> entries[k].entry])

(* Where std::search finds an entry.                                         *)
Places(table, entry) ==
  {p \in 0 .. Len(table) - Len(entry) : FoundAt(entry, table, p)}

-----------------------------------------------------------------------------
(* Statistics: the aligned sub-blocks of every target size, the most         *)
(* frequent ones first.  The cost filter drops none of a collection of less  *)
(* than 3 * 10^8 integers.                                                   *)

Jumps(vals, size) ==
  [j \in 1 .. Len(vals) \div size |-> SubSeq(vals, size * (j - 1) + 1, size * j)]

Occurrences(vals, entry) ==
  Cardinality({j \in DOMAIN Jumps(vals, Len(entry)) : Jumps(vals, Len(entry))[j] = entry})

Frequencies(vals) ==
  [entry \in UNION {ToSet(Jumps(vals, size)) : size \in TargetSizes} |-> Occurrences(vals, entry)]

(* freq_length_sorter, and in what order the rest is left.                   *)
Before(freq, s, t) == \/ freq[s] > freq[t]
                      \/ freq[s] = freq[t] /\ TargetLess(t, s)
FreqLengthSorted(freq) ==
  Placed([t \in DOMAIN freq |-> 1 + Cardinality({s \in DOMAIN freq : Before(freq, s, t)})])

(* selector: by the number of bits of the largest value, its logarithm.      *)
BitLength(w) == IF w = {} THEN 0 ELSE Msb(w) + 1
Selector(vals) ==
  LET bits == Max({BitLength(w) : w \in ToSet(vals)})
  IN IF bits <= 1 THEN 0 ELSE Min({c \in 0 .. 5 : 2 ^ c >= bits})

(* Only whole blocks count for the dictionary of their selector.             *)
ContextValues(vals, s, block_size) ==
  FlattenSeq(SelectSeq(Jumps(vals, block_size), LAMBDA block : Selector(block) = s))

Statistics(kind, vals, block_size) ==
  IF kind = "multi"
    THEN [s \in 1 .. NumSelectors |->
            FreqLengthSorted(Frequencies(ContextValues(vals, s - 1, block_size)))]
    ELSE <<FreqLengthSorted(Frequencies(vals))>>

-----------------------------------------------------------------------------
(* The builders.                                                             *)

Row(entry) == [ints |-> entry \o Zeros(MaxEntrySize - Len(entry)), size |-> Len(entry)]

(* A plausible slip.                                                         *)
OneException(i) == IF i < EXCEPTIONS THEN 1 ELSE RunSizes[Min({i - EXCEPTIONS + 1, 5})]

ReservedSize(i) == IF i <= EXCEPTIONS THEN 1 ELSE RunSizes[i - EXCEPTIONS]
RunOffsets == [i \in 1 .. Reserved |-> [size |-> ReservedSize(i), offset |-> 0]]
RunRows == [i \in 1 .. Reserved |-> [ints |-> Zeros(MaxEntrySize), size |-> ReservedSize(i)]]

NewBuilder(kind) ==
  [kind |-> kind, size |-> Reserved,
   targets |-> [s \in 1 .. IF kind = "multi" THEN NumSelectors ELSE 1 |-> <<>>],
   starts |-> <<>>,
   offsets |-> IF kind = "single" THEN RunOffsets ELSE <<>>,
   table |-> IF kind = "rectangular" THEN RunRows ELSE Zeros(MaxEntrySize)]

(* What append() takes until the builder is full.                            *)
Room(b) == NumEntries * Len(b.targets) - b.size

AppendEntries(b, s, accepted) ==
  IF b.kind = "rectangular"
    THEN [b EXCEPT !.table = @ \o [k \in 1 .. Len(accepted) |-> Row(accepted[k])],
                   !.size = @ + Len(accepted)]
    ELSE [b EXCEPT !.targets[s] = accepted, !.size = @ + Len(accepted)]

(* decreasing_static_frequencies::build, up to compaction.                   *)
AppendBlocks(b, s, all) ==
  AppendEntries(b, s, SubSeq(all, 1, Min({NumEntries, Len(all), Room(b)})))

RECURSIVE AppendFrom(_, _, _)
AppendFrom(b, s, statistics) ==
  IF s > Len(statistics) THEN b
  ELSE AppendFrom(AppendBlocks(b, s, statistics[s]), s + 1, statistics)

AppendAll(b, statistics) == AppendFrom(b, 1, statistics)

AllTargets(b) == UNION {ToSet(b.targets[s]) : s \in 1 .. Len(b.targets)}

(* std::search gives the end of the table if an entry is not there.          *)
OffsetIn(table, entry) == Min(Places(table, entry) \cup {Len(table)})
OffsetsIn(table, targets) ==
  [i \in 1 .. Len(targets) |->
     [size |-> Len(targets[i]), offset |-> OffsetIn(table, targets[i])]]

WithDictionary(b, s) ==
  [b EXCEPT !.starts = Append(@, Len(b.offsets)),
            !.offsets = @ \o RunOffsets \o OffsetsIn(b.table, b.targets[s])]

RECURSIVE WithDictionaries(_, _)
WithDictionaries(b, s) ==
  IF s > NumSelectors THEN b ELSE WithDictionaries(WithDictionary(b, s), s + 1)

WithOffsets(b) ==
  IF b.kind = "multi" THEN WithDictionaries(b, 1)
  ELSE [b EXCEPT !.offsets = @ \o OffsetsIn(b.table, b.targets[1])]

(* build(): the table and the offsets of what was compacted.                 *)
BuildTable(b, ints) == WithOffsets([b EXCEPT !.table = @ \o ints])

(* A builder that was stored and loaded: no targets, and in a multi          *)
(* dictionary room behind the last entry.                                    *)
Reloaded(b) ==
  [b EXCEPT !.targets = [s \in 1 .. Len(b.targets) |-> <<>>],
            !.table = IF b.kind = "multi" THEN @ \o Zeros(MaxEntrySize) ELSE @]

-----------------------------------------------------------------------------
(* Codewords.                                                                *)

StartOf(b, s) == IF b.kind = "multi" THEN b.starts[s] ELSE 0

EntrySize(b, s, i) ==
  IF b.kind = "rectangular" THEN b.table[i + 1].size ELSE b.offsets[StartOf(b, s) + i + 1].size

(* Behind the table of an index that was just built there is anything.       *)
TableInts(table, offset, n, behind) ==
  [k \in 1 .. n |-> IF offset + k <= Len(table) THEN table[offset + k] ELSE behind]

EntryInts(b, s, i, n, behind) ==
  IF b.kind = "rectangular" THEN SubSeq(b.table[i + 1].ints, 1, n)
  ELSE TableInts(b.table, b.offsets[StartOf(b, s) + i + 1].offset, n, behind)

GetEntry(b, s, i) == EntryInts(b, s, i, EntrySize(b, s, i), {})

(* copy(): always max_entry_size words, and how many of them count.          *)
CopyEntry(b, s, i, behind) ==
  [ints |-> EntryInts(b, s, i, MaxEntrySize, behind), size |-> EntrySize(b, s, i)]

(* multi_dictionary leaves the last `reserved` entries of each dictionary    *)
(* unmapped: a full one has `reserved` more than num_entries.                *)
NextStart(b, s) == IF s = NumSelectors THEN Len(b.offsets) ELSE b.starts[s + 1]
MappedEnd(b, s) ==
  IF b.kind = "multi" THEN NextStart(b, s) - b.starts[s] - Reserved ELSE b.size

MappedEntries(b, s, log2_num_entries) ==
  [i \in {k \in Reserved .. MappedEnd(b, s) - 1 : log2_num_entries = 8 => k < NumNarrow} |->
     GetEntry(b, s, i)]

(* Of equal entries the last one stays, also over a run.                     *)
IndexOf(entry, mapped, known) ==
  IF entry \in known THEN Max({i \in DOMAIN mapped : mapped[i] = entry})
  ELSE EXCEPTIONS - 1 + CHOOSE r \in DOMAIN RunSizes : RunSizes[r] = Len(entry)

MapOf(mapped, known) ==
  [entry \in known \cup {Zeros(n) : n \in ToSet(RunSizes)} |-> IndexOf(entry, mapped, known)]

MapOfMapped(mapped) == MapOf(mapped, {mapped[i] : i \in DOMAIN mapped})

PrepareForEncoding(b) ==
  [s \in 1 .. Len(b.targets) |->
     [log2 \in IF b.kind = "multi" THEN {8, 16} ELSE {16} |->
        MapOfMapped(MappedEntries(b, s, log2))]]
=============================================================================
