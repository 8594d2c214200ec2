---------------------------- MODULE IndexBuilder ----------------------------
(***************************************************************************)
(* The builders of block_freq_index, dict_freq_index, freq_index and       *)
(* sequence_collection: each add_posting_list becomes a job of the         *)
(* semiasync_queue.  prepare() encodes the list into a buffer of its own;  *)
(* commit() appends the buffer to the builder's shared stream(s) and       *)
(* records where it ends.  build() first completes the queue, then freezes *)
(* streams and endpoints into the index that operator[] reads.             *)
(*                                                                         *)
(* The byte indexes have one stream, m_lists.  freq_index has two          *)
(* bitvector_collections, for docs and for freqs.  A list is a sequence of *)
(* cells; a cell names the call, the stream and the place it belongs to.   *)
(***************************************************************************)
EXTENDS SemiasyncQueue, SequencesExt

CONSTANTS
  Builders,     \* the builders' streams: {"lists"}, {"docs", "freqs"}
  EncodedSizes, \* the lengths an encoded list may have in a stream; none is
                \* empty, every encoder writes a length or a type first
  NumDirect     \* bound: direct add_posting_list(bytes) calls

ASSUME BuilderAssumption ==
  /\ \A streams \in Builders : streams # {}
  /\ EncodedSizes \subseteq Nat \ {0}
  /\ NumDirect \in Nat

VARIABLES
  size,         \* how long the encoding of each job's list is in each stream
  buffer,       \* list_adder's own buffers: job -> stream -> cells
  stored,       \* m_lists, or m_bitvectors of each collection
  endpoints,    \* m_endpoints of each stream, which starts as <<0>>
  direct,       \* the direct calls: after how many jobs, and were all committed
  index         \* what build() has frozen; NoIndex before

dataVars == <<size, buffer, stored, endpoints, direct, index>>

NoIndex == <<>>

Streams == DOMAIN stored

Encoded(j, s) == [i \in 1 .. size[j][s] |-> <<j, s, i>>]

(* A list handed over already encoded, by the n-th direct call.              *)
DirectBytes(n, s) == <<<<NumJobs + n, s, 1>>>>

NoBytes == [s \in Streams |-> <<>>]

BuilderInit ==
  /\ Init
  /\ stored \in {[s \in streams |-> <<>>] : streams \in Builders}
  /\ size \in [Jobs -> [Streams -> EncodedSizes]]
  /\ buffer = [j \in Jobs |-> NoBytes]
  /\ endpoints = [s \in Streams |-> <<0>>]
  /\ direct = <<>>
  /\ index = NoIndex

-----------------------------------------------------------------------------
(* Plausible slips, as in SemiasyncQueue.                                    *)
EndpointFirst(streams, ends, bytes) ==
  [s \in Streams |-> Append(ends[s], Len(streams[s]))]
OverwriteBytes(streams, bytes) == bytes
AllEndpoints(ends) == ends
BuildAnyTime == pc # "terminated" /\ commit_pc # "commit"
KeepBuffer(j) == [buffer EXCEPT ![j] = [s \in Streams |-> buffer[j][s] \o buffer[j][s]]]

-----------------------------------------------------------------------------
(* add_posting_list of an empty list throws before anything changes; every   *)
(* other call hands a job to the queue.                                      *)
AddPostingList ==
  /\ (\E w \in WorkValues : AddJob(w)) \/ AddJobInline
  /\ UNCHANGED dataVars

(* The insert of commit(): at the end of each shared stream.                 *)
InsertBytes(streams, bytes) == [s \in Streams |-> streams[s] \o bytes[s]]

(* The push_back of commit(): the stream's size after the insert.            *)
PushEndpoints(streams, ends, bytes) ==
  [s \in Streams |-> Append(ends[s], Len(streams[s]) + Len(bytes[s]))]

AppendList(bytes) ==
  /\ stored' = InsertBytes(stored, bytes)
  /\ endpoints' = PushEndpoints(stored, endpoints, bytes)

(* What prepare() leaves in the buffer of job j when it returns, and in the  *)
(* middle: block_posting_list::write has sized the output but not filled it, *)
(* freq_index has written its docs and not its freqs.                        *)
EncodeList(j) == [s \in Streams |-> Encoded(j, s)]

HalfEncoded(j) ==
  [s \in Streams |-> IF s = "docs" THEN Encoded(j, s) ELSE <<>>]

(* j.reset(): the job and its buffer are freed after the commit.             *)
FreeBuffer(j) == [buffer EXCEPT ![j] = NoBytes]

RunInlineList ==
  /\ RunInline
  /\ AppendList(EncodeList(added))
  /\ UNCHANGED <<size, buffer, direct, index>>

BeginEncoding(k) ==
  /\ BeginPrepare(k)
  /\ LET j == running_threads[k].jobs[running_threads'[k].started]
     IN buffer' = [buffer EXCEPT ![j] = HalfEncoded(j)]
  /\ UNCHANGED <<size, stored, endpoints, direct, index>>

EndEncoding(k) ==
  /\ EndPrepare(k)
  /\ LET j == running_threads[k].jobs[running_threads[k].started]
     IN buffer' = [buffer EXCEPT ![j] = EncodeList(j)]
  /\ UNCHANGED <<size, stored, endpoints, direct, index>>

CommitList ==
  /\ CommitJob
  /\ LET j == FrontBatch.jobs[next_commit] IN
       /\ AppendList(buffer[j])
       /\ buffer' = FreeBuffer(j)
  /\ UNCHANGED <<size, direct, index>>

(* The overload of block_freq_index's builder that takes encoded bytes       *)
(* appends at once, past the queue; it takes one list, in one stream.        *)
AddBytes ==
  /\ pc = "idle"
  /\ Streams = {"lists"}
  /\ Len(direct) < NumDirect
  /\ direct' = Append(direct, [after |-> added, quiet |-> Len(committed) = added])
  /\ AppendList([s \in Streams |-> DirectBytes(Len(direct'), s)])
  /\ UNCHANGED vars
  /\ UNCHANGED <<size, buffer, index>>

QueueOnly ==
  /\ \/ Complete \/ Drain \/ MakeRoom \/ SpawnThread \/ Join \/ PopFront
     \/ PrepareThrows
  /\ UNCHANGED dataVars

(* build(), after m_queue.complete() has returned.  m_size lists; only their *)
(* m_size start positions are stored, the last endpoint is the stream's end. *)
QueueCompleted == pc = "done"

StoredEndpoints(ends) == SubSeq(ends, 1, Len(ends) - 1)

Build ==
  /\ QueueCompleted
  /\ index = NoIndex
  /\ index' = [s \in Streams |-> [starts |-> StoredEndpoints(endpoints[s]),
                                  bytes |-> stored[s]]]
  /\ UNCHANGED vars
  /\ UNCHANGED <<size, buffer, stored, endpoints, direct>>

Idle ==
  /\ pc = "terminated" \/ index # NoIndex
  /\ UNCHANGED vars
  /\ UNCHANGED dataVars

Encoding == \E k \in 1 .. Len(running_threads) : BeginEncoding(k) \/ EndEncoding(k)

BuilderNext ==
  \/ AddPostingList
  \/ AddBytes
  \/ RunInlineList
  \/ Encoding
  \/ CommitList
  \/ QueueOnly
  \/ Build
  \/ Idle

BuilderVars == <<vars, dataVars>>

BuilderSpec == BuilderInit /\ [][BuilderNext]_BuilderVars

-----------------------------------------------------------------------------
(* operator[](i): the i-th start position, and what is stored from there to  *)
(* the next start (warmup reads exactly this range).                         *)
Size(s) == Len(index[s].starts)

EndOf(s, i) == IF i = Size(s) THEN Len(index[s].bytes) ELSE index[s].starts[i + 1]

ListAt(s, i) == SubSeq(index[s].bytes, index[s].starts[i] + 1, EndOf(s, i))

-----------------------------------------------------------------------------
(* Properties.                                                               *)

(* Everything in its range; in particular an endpoint is a place in its      *)
(* stream.                                                                   *)
Cells == (1 .. NumJobs + NumDirect) \X Streams \X Nat

BuilderTypeOK ==
  /\ TypeOK
  /\ size \in [Jobs -> [Streams -> EncodedSizes]]
  /\ \A j \in Jobs : buffer[j] \in [Streams -> Seq(Cells)]
  /\ Streams \in Builders
  /\ stored \in [Streams -> Seq(Cells)]
  /\ \A s \in Streams : endpoints[s] \in Seq(0 .. Len(stored[s]))
  /\ Len(direct) <= NumDirect
  /\ index = NoIndex \/ DOMAIN index = Streams

(* Which call's list is stored between two successive endpoints, whole and   *)
(* in every stream: that of a job, of a direct call, or (0) of none.         *)
Section(s, i) == SubSeq(stored[s], endpoints[s][i] + 1, endpoints[s][i + 1])

ListOf(c, s) == IF c \in Jobs THEN Encoded(c, s) ELSE DirectBytes(c - NumJobs, s)

Owner(i) ==
  LET whole == {c \in 1 .. NumJobs + Len(direct) : \A s \in Streams :
                  /\ i + 1 <= Len(endpoints[s])
                  /\ Section(s, i) = ListOf(c, s)}
  IN IF whole = {} THEN 0 ELSE CHOOSE c \in whole : TRUE

(* The calls in the order of their lists, leaving out the direct ones: the   *)
(* k-th of them is the one with k sections of jobs up to its own.            *)
Owners ==
  LET s == CHOOSE s \in Streams : TRUE
      owner == [i \in 1 .. Len(endpoints[s]) - 1 |-> Owner(i)]
      ofJobs == {i \in DOMAIN owner : owner[i] <= NumJobs}
      UpTo(i) == {j \in ofJobs : j <= i}
  IN [k \in 1 .. Cardinality(ofJobs) |->
        owner[CHOOSE i \in ofJobs : Cardinality(UpTo(i)) = k]]

(* The bytes themselves keep the builder's promise, and not only the order   *)
(* of the commits: read back between the endpoints, the streams hold whole   *)
(* lists, docs next to freqs of the same list, appended one by one in the    *)
(* order of the calls, whatever direct calls append in between, and the      *)
(* index is only built when all are there.                                   *)
Store == INSTANCE OrderedBuild
           WITH accepted <- added,
                appended <- Owners,
                status <- CASE pc = "terminated" -> "aborted"
                            [] index # NoIndex -> "built"
                            [] OTHER -> "open"

ImplementsOrderedStore == Store!AbsSpec

(* The i-th list of the index is the list of the i-th call, whole, when      *)
(* direct calls were only made with no job pending (the i-th call is the job *)
(* or the direct call with i - 1 calls before it).                           *)
DirectAt(i) == {d \in 1 .. Len(direct) : direct[d].after + d = i}

DirectBefore(i) == {d \in 1 .. Len(direct) : direct[d].after + d < i}

CallBytes(s, i) ==
  IF DirectAt(i) # {}
    THEN DirectBytes(CHOOSE d \in DirectAt(i) : TRUE, s)
    ELSE Encoded(i - Cardinality(DirectBefore(i)), s)

ListsInCallOrder ==
  index # NoIndex /\ (\A d \in 1 .. Len(direct) : direct[d].quiet) =>
    \A s \in Streams :
      /\ Size(s) = added + Len(direct)
      /\ \A i \in 1 .. Size(s) : ListAt(s, i) = CallBytes(s, i)

(* Even with direct calls in between, when the order is not that of the      *)
(* calls, no list is cut or lost: the lists the index returns are exactly    *)
(* the lists of all the calls.                                               *)
ListsWhole ==
  index # NoIndex =>
    \A s \in Streams :
      /\ Size(s) = added + Len(direct)
      /\ {ListAt(s, i) : i \in 1 .. Size(s)} =
           {Encoded(j, s) : j \in 1 .. added}
             \cup {DirectBytes(d, s) : d \in 1 .. Len(direct)}

(* The memory taken by encoded lists is bounded by what the workers hold: a  *)
(* buffer is filled only while its job is in a running batch, and is freed   *)
(* by the commit.                                                            *)
RunningJobs ==
  UNION {ToSet(running_threads[k].jobs) : k \in 1 .. Len(running_threads)}

BuffersFreed ==
  \A j \in Jobs : buffer[j] # NoBytes =>
    j \in RunningJobs /\ j \notin ToSet(committed)
=============================================================================
