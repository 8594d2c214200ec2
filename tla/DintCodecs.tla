------------------------------ MODULE DintCodecs ----------------------------
(***************************************************************************)
(* DINT: a dictionary is built from the statistics of a collection, or is  *)
(* loaded from a file of that name, which an earlier build of any          *)
(* collection left; then lists are encoded and decoded with it as with the *)
(* codecs of Codecs.  Equal overlaps leave a priority queue in any order.  *)
(***************************************************************************)
EXTENDS Codecs, DintBlock

CONSTANTS
  DintWorkloads(_),  \* a DINT index's lists, as Workloads
  Collections(_, _)  \* the values a dictionary for a list may come from

VARIABLES
  collection,  \* what the dictionary is built from
  stage,       \* how far it is
  builder,     \* the dictionary builder
  entries,     \* compact()'s targets, and
  overlaps,    \*   its priority queue
  maps         \* m_map, m_maps

dictVars == <<collection, stage, builder, entries, overlaps, maps>>

(* index_types.hpp, and the dictionary and the coder no index uses.          *)
Dictionaries ==
  [single_rect_dint |-> [kind |-> "rectangular", policy |-> "none", coder |-> "opt"],
   single_packed_dint |-> [kind |-> "single", policy |-> "packed", coder |-> "opt"],
   multi_packed_dint |-> [kind |-> "multi", policy |-> "packed", coder |-> "multi"],
   single_overlapped_dint |-> [kind |-> "single", policy |-> "overlapped", coder |-> "greedy"]]

IsDint == codec \in DOMAIN Dictionaries
Kind == Dictionaries[codec].kind
Policy == Dictionaries[codec].policy

NoDictionary ==
  /\ collection = <<>> /\ stage = "none" /\ builder = <<>>
  /\ entries = <<>> /\ overlaps = {} /\ maps = <<>>

NewDintList ==
  /\ codec \in DOMAIN Dictionaries
  /\ blocks \in DintWorkloads(codec)
  /\ behind \in Behind
  /\ values = [k \in 1 .. Len(blocks) |-> blocks[k].vals]
  /\ out = <<>> /\ ends = <<>> /\ decoded = <<>>
  /\ collection \in Collections(codec, blocks)
  /\ stage = "statistics" /\ builder = <<>>
  /\ entries = <<>> /\ overlaps = {} /\ maps = <<>>

DintInit ==
  \/ Init /\ NoDictionary
  \/ NewDintList

-----------------------------------------------------------------------------
(* Building the dictionary.                                                  *)

AppendTargets ==
  /\ stage = "statistics"
  /\ builder' = AppendAll(NewBuilder(Kind), Statistics(Kind, collection, BlockSize))
  /\ stage' = IF Kind = "rectangular" THEN "built" ELSE "targets"
  /\ UNCHANGED <<vars, collection, entries, overlaps, maps>>

Compact ==
  /\ stage = "targets"
  /\ entries' = Entries(Reduced(Policy, AllTargets(builder)))
  /\ overlaps' = IF Policy = "overlapped" THEN AllOverlaps(entries') ELSE {}
  /\ stage' = "compacting"
  /\ UNCHANGED <<vars, collection, builder, maps>>

PopOverlap ==
  /\ stage = "compacting"
  /\ \E o \in Tops(overlaps) :
       IF Stale(entries, o)
         THEN overlaps' = overlaps \ {o} /\ UNCHANGED entries
         ELSE /\ entries' = Merged(entries, o)
              /\ overlaps' = (overlaps \ {o}) \cup NewOverlaps(entries')
  /\ UNCHANGED <<vars, collection, stage, builder, maps>>

CompactedEntries ==
  EntriesOf(IF Policy = "overlapped" THEN SingleMerges(OnlyValid(entries)) ELSE entries)

CreateTable ==
  /\ stage = "compacting" /\ overlaps = {}
  /\ builder' = BuildTable(builder, CompactedEntries)
  /\ stage' = "built"
  /\ UNCHANGED <<vars, collection, entries, overlaps, maps>>

(* A later build_or_load_dict() finds the file.                              *)
StoreAndLoad ==
  /\ stage = "built"
  /\ builder' = Reloaded(builder)
  /\ stage' = "loaded"
  /\ UNCHANGED <<vars, collection, entries, overlaps, maps>>

Prepare ==
  /\ stage \in {"built", "loaded"}
  /\ maps' = PrepareForEncoding(builder)
  /\ stage' = "ready" /\ entries' = <<>>
  /\ UNCHANGED <<vars, collection, builder, overlaps>>

-----------------------------------------------------------------------------
EncodeWithDictionary ==
  /\ stage = "ready" /\ Len(ends) < Len(blocks)
  /\ Encoded(DintEncode(Dictionaries[codec].coder, maps, NextVals, NextSum))
  /\ UNCHANGED dictVars

DecodeWithDictionary ==
  /\ stage = "ready" /\ Len(ends) = Len(blocks) /\ Len(decoded) < Len(blocks)
  /\ decoded' = Append(decoded,
       LET k == Len(decoded) + 1
       IN DintDecode(builder, Memory(out, behind),
                     IF k = 1 THEN 0 ELSE Last(decoded).in,
                     blocks[k].sum, Len(values[k]), behind))
  /\ UNCHANGED <<codec, blocks, behind, values, out, ends, dictVars>>

DintNext ==
  \/ ~IsDint /\ Next /\ UNCHANGED dictVars
  \/ AppendTargets
  \/ Compact
  \/ PopOverlap
  \/ CreateTable
  \/ StoreAndLoad
  \/ Prepare
  \/ EncodeWithDictionary
  \/ DecodeWithDictionary

DintSpec == DintInit /\ [][DintNext]_<<vars, dictVars>>

-----------------------------------------------------------------------------
(* However the targets were dropped, merged and shared, every one of them is *)
(* in the table, where the offset of its codeword says: build() asserts that *)
(* std::search has found it.                                                 *)
EveryTargetFound ==
  stage = "built" /\ Kind # "rectangular" =>
    \A s \in 1 .. Len(builder.targets) : \A i \in 1 .. Len(builder.targets[s]) :
      GetEntry(builder, s, Reserved + i - 1) = builder.targets[s][i]

(* The reference for the optimal parse, backwards: costs[i] is the least     *)
(* number of 16-bit words for all values from the i-th on.                   *)
LeastCost(map, lens, vals, costs, i) ==
  Min({1 + costs[len] : len \in {l \in lens : /\ l <= Len(vals) - i
                                             /\ Ahead(vals, i, l) \in DOMAIN map}}
      \cup {costs[1] + IF Low(vals[i + 1], 16) = vals[i + 1] THEN 2 ELSE 3})

RECURSIVE LeastCosts(_, _, _, _, _)
LeastCosts(map, lens, vals, costs, k) ==
  IF Len(costs) > Len(vals) THEN costs
  ELSE IF k = 0 THEN <<LeastCost(map, lens, vals, costs, Len(vals) - Len(costs))>> \o costs
  ELSE LeastCosts(map, lens, vals, LeastCosts(map, lens, vals, costs, k - 1), k - 1)

LeastWords(map, vals) ==
  LeastCosts(map, {Len(entry) : entry \in DOMAIN map}, vals, <<0>>, 7)[1]

(* With one dictionary, no sequence of codewords and exceptions for the      *)
(* block is shorter than the one that was written: not the greedy one        *)
(* either.                                                                   *)
ShortestParse ==
  stage = "ready" /\ Dictionaries[codec].coder = "opt" /\ decoded = <<>> /\ ends # <<>>
    /\ Len(values[Len(ends)]) = BlockSize =>
      LET k == Len(ends)
          vals == values[k]
      IN ends[k] - (IF k = 1 THEN 0 ELSE ends[k - 1])
           = 2 * LeastWords(maps[1][16], vals)
=============================================================================
