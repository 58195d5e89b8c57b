------------------------------ MODULE Playback ------------------------------
(***************************************************************************)
(* Reading recordings back (src/record/playback.rs and src/record/lazy):   *)
(* every file is indexed by the log times of its chunks; a read of a       *)
(* numeric channel decodes the chunks that overlap its window through a    *)
(* byte-bounded cache, or, when they are too many, serves the min/max      *)
(* envelope built at load; the lines of a text channel are kept whole.     *)
(*                                                                         *)
(* A recording is a sequence of files, a file a sequence of chunks, a      *)
(* chunk a sequence of messages [log, samples]: the samples of the channel *)
(* that is read, and log, the time the message was recorded under. Samples *)
(* are [ts, val].                                                          *)
(***************************************************************************)
EXTENDS Integers, Sequences, FiniteSets, SequencesExt, FiniteSetsExt

CONSTANTS
  Recordings,  \* the recordings opened
  Windows,     \* the windows read: [start, end) records
  Ends,        \* the times asked of latest_at
  ChunkBudget, \* CHUNK_BUDGET: more chunks than that are read as an overview
  CacheCap,    \* CACHE_BYTES, counted in samples
  Buckets,     \* ENVELOPE_BUCKETS
  Workers      \* worker threads tried for the envelope

VARIABLES
  files,   \* the recording
  type,    \* of the channel that is read: "numeric" or "text"
  lru,     \* keys of the cached chunks, least recently used first
  retained,\* the cache's own count of what it holds
  read,    \* the last read: [kind, start, end]
  answer   \* the samples it returned

vars == <<files, type, lru, retained, read, answer>>

Keys == {key \in (DOMAIN files) \X (1..Max({Len(files[si]) : si \in DOMAIN files})) :
           key[2] \in DOMAIN files[key[1]]}
Chunk(key) == files[key[1]][key[2]]

(* ChunkDecodeBuf: the samples of a chunk in the order of its messages. *)
Decoded(key) == FlattenSeq([i \in DOMAIN Chunk(key) |-> Chunk(key)[i].samples])

(* ChunkSpan: the bounds of the log times, from the chunk index. *)
Logs(key) == {Chunk(key)[i].log : i \in DOMAIN Chunk(key)}
SpanStart(key) == Min(Logs(key))
SpanEnd(key) == Max(Logs(key))

InFileOrder(a, b) == a[1] < b[1] \/ (a[1] = b[1] /\ a[2] < b[2])

(* The stable sorts by start time: files and chunks break ties in order. *)
StartsBefore(a, b) ==
  \/ SpanStart(a) < SpanStart(b)
  \/ SpanStart(a) = SpanStart(b) /\ InFileOrder(a, b)

-----------------------------------------------------------------------------
(* ChunkCache::get_or_insert_with *)

Bytes(key) == Len(Decoded(key))
Weight(keys) == FoldSeq(LAMBDA key, n : n + Bytes(key), 0, keys)

(* Evict the least recently used entries until the rest fits, but never the *)
(* one just inserted, the last. *)
Evicted(keys) ==
  LET n == Min({i \in 0..(Len(keys) - 1) :
                  i = Len(keys) - 1 \/ Weight(SubSeq(keys, i + 1, Len(keys))) <= CacheCap})
  IN SubSeq(keys, n + 1, Len(keys))

(* The cache is [lru, retained]. *)
GetForgetsBytes(key, cache) ==
  IF key \in ToSet(cache.lru)
  THEN [cache EXCEPT !.lru = Append(SelectSeq(@, LAMBDA x : x # key), key)]
  ELSE [lru |-> Evicted(Append(cache.lru, key)), retained |-> cache.retained + Bytes(key)]

Get(key, cache) ==
  IF key \in ToSet(cache.lru)
  THEN [cache EXCEPT !.lru = Append(SelectSeq(@, LAMBDA x : x # key), key)]
  ELSE LET kept == Evicted(Append(cache.lru, key)) IN
       [lru |-> kept,
        retained |-> cache.retained + Bytes(key)
                     - (Weight(Append(cache.lru, key)) - Weight(kept))]

Cached(keys) == FoldLeft(LAMBDA cache, key : Get(key, cache),
                         [lru |-> lru, retained |-> retained], keys)

-----------------------------------------------------------------------------
(* Envelope: per bucket the first smallest and the first largest sample.    *)

AllLogs == UNION {Logs(key) : key \in Keys}
StartNs == Min(AllLogs)
Duration == Max(AllLogs) - StartNs

Clamp(x, lo, hi) == IF x < lo THEN lo ELSE IF x > hi THEN hi ELSE x

BucketOfExclusive(ts) ==
  (Clamp(ts - StartNs, 0, Duration) * Buckets) \div (IF Duration = 0 THEN 1 ELSE Duration)

(* The span includes the end sample. *)
BucketOf(ts) == (Clamp(ts - StartNs, 0, Duration) * Buckets) \div (Duration + 1)

Empty == [b \in 0..(Buckets - 1) |-> << >>]

(* A cell is << >> or <<min, max>>; Join keeps the earlier one on ties. *)
Join(c, o) ==
  IF o = << >> THEN c ELSE IF c = << >> THEN o
  ELSE << IF o[1].val < c[1].val THEN o[1] ELSE c[1],
          IF o[2].val > c[2].val THEN o[2] ELSE c[2] >>

FoldNumeric(env, s) ==
  IF BucketOf(s.ts) \in DOMAIN env
  THEN [env EXCEPT ![BucketOf(s.ts)] = Join(@, <<s, s>>)] ELSE env

FoldChunk(env, key) == FoldLeft(FoldNumeric, env, Decoded(key))

MergeSwapped(a, b) == [i \in DOMAIN a |-> Join(b[i], a[i])]

Merge(a, b) == [i \in DOMAIN a |-> Join(a[i], b[i])]

(* load_many_with: the chunks of all files, in order, are dealt to workers  *)
(* in consecutive runs; their envelopes are merged in order. *)
Jobs == FlattenSeq([si \in DOMAIN files |->
                      SetToSortSeq({key \in Keys : key[1] = si}, StartsBefore)])

DealtTo(w, workers) ==
  SubSeq(Jobs, (w * Len(Jobs)) \div workers + 1, ((w + 1) * Len(Jobs)) \div workers)

Partial(w, workers) == FoldLeft(FoldChunk, Empty, DealtTo(w, workers))

EnvelopeBy(workers) ==
  FoldLeft(Merge, Empty, [w \in 1..workers |-> Partial(w - 1, workers)])

(* The text of the channel, merged like the envelopes and then sorted by    *)
(* time, lines of one time in the order in which they were merged. *)
Merged(workers) ==
  FlattenSeq([w \in 1..workers |->
    FlattenSeq([i \in DOMAIN DealtTo(w - 1, workers) |-> Decoded(DealtTo(w - 1, workers)[i])])])

TextUnsorted(workers) == Merged(workers)

TextBy(workers) ==
  LET lines == Merged(workers)
      order == SetToSortSeq(DOMAIN lines,
                 LAMBDA i, j : lines[i].ts < lines[j].ts \/ (lines[i].ts = lines[j].ts /\ i < j))
  IN [i \in DOMAIN lines |-> lines[order[i]]]

(* Envelope::read: both extremes of each bucket in time order, clipped to   *)
(* the window, a single sample once. *)
InOrder(cell) == IF cell = << >> THEN << >>
                 ELSE IF cell[1] = cell[2] THEN << cell[1] >>
                 ELSE IF cell[1].ts <= cell[2].ts THEN cell ELSE << cell[2], cell[1] >>

Within(s, w) == w.start <= s.ts /\ s.ts < w.end

Overview(w) ==
  LET env == EnvelopeBy(1)
  IN SelectSeq(FlattenSeq([i \in 1..Buckets |-> InOrder(env[i - 1])]),
               LAMBDA s : Within(s, w))

-----------------------------------------------------------------------------
(* The reads. *)

OverlappingOpen(w) == {key \in Keys : SpanStart(key) < w.end /\ SpanEnd(key) > w.start}

Overlapping(w) == {key \in Keys : SpanStart(key) < w.end /\ SpanEnd(key) >= w.start}

(* clip: partition_point on the decoded timestamps, at both ends. On sorted *)
(* timestamps it keeps the samples of the window. *)
Clip(key, w) == SelectSeq(Decoded(key), LAMBDA s : Within(s, w))

extend(acc, snap) == acc \o snap

Snapshot(w) ==
  LET keys == SetToSortSeq(Overlapping(w), StartsBefore)
      exact == Len(keys) <= ChunkBudget
      cache == Cached(keys)
  IN /\ type = "numeric"
     /\ read' = [kind |-> IF exact THEN "exact" ELSE "overview", start |-> w.start, end |-> w.end]
     /\ IF exact
        THEN /\ answer' = FoldLeft(extend, << >>, [i \in DOMAIN keys |-> Clip(keys[i], w)])
             /\ lru' = cache.lru /\ retained' = cache.retained
        ELSE answer' = Overview(w) /\ UNCHANGED <<lru, retained>>
     /\ UNCHANGED <<files, type>>

(* last_le: the last of the samples at or before the end, or none. *)
LastOf(s) == IF s = << >> THEN << >> ELSE << Last(s) >>

LastBefore(key, end) == LastOf(SelectSeq(Decoded(key), LAMBDA s : s.ts < end))

LastLe(key, end) == LastOf(SelectSeq(Decoded(key), LAMBDA s : s.ts <= end))

(* latest_at: candidate chunks from the latest start to the earliest, up to *)
(* the first that holds such a sample. *)
LatestAt(end) ==
  LET candidates == Reverse(SetToSortSeq({key \in Keys : SpanStart(key) <= end}, StartsBefore))
      hits == {i \in DOMAIN candidates : LastLe(candidates[i], end) # << >>}
      visited == SubSeq(candidates, 1, IF hits = {} THEN Len(candidates) ELSE Min(hits))
      cache == Cached(visited)
  IN /\ type = "numeric"
     /\ read' = [kind |-> "latest", start |-> 0, end |-> end]
     /\ answer' = IF hits = {} THEN << >> ELSE LastLe(candidates[Min(hits)], end)
     /\ lru' = cache.lru /\ retained' = cache.retained
     /\ UNCHANGED <<files, type>>

(* A text channel is read from its lines, at every zoom. *)
TextSnapshot(w) ==
  /\ type = "text"
  /\ read' = [kind |-> "exact", start |-> w.start, end |-> w.end]
  /\ answer' = SelectSeq(TextBy(1), LAMBDA s : Within(s, w))
  /\ UNCHANGED <<files, type, lru, retained>>

TextLatestAt(end) ==
  /\ type = "text"
  /\ read' = [kind |-> "latest", start |-> 0, end |-> end]
  /\ answer' = LastOf(SelectSeq(TextBy(1), LAMBDA s : s.ts <= end))
  /\ UNCHANGED <<files, type, lru, retained>>

-----------------------------------------------------------------------------
Init ==
  /\ files \in Recordings /\ type \in {"numeric", "text"}
  /\ lru = << >> /\ retained = 0
  /\ read = [kind |-> "none", start |-> 0, end |-> 0] /\ answer = << >>

Next ==
  \/ \E w \in Windows : Snapshot(w) \/ TextSnapshot(w)
  \/ \E end \in Ends : LatestAt(end) \/ TextLatestAt(end)

Spec == Init /\ [][Next]_vars

-----------------------------------------------------------------------------
(* Properties. *)

Samples == UNION {ToSet(Decoded(key)) : key \in Keys}
TimeOrdered(s) == \A i \in 1..(Len(s) - 1) : s[i].ts <= s[i + 1].ts

TypeOK ==
  /\ lru \in Seq(Keys) /\ retained \in Nat
  /\ read.kind \in {"none", "exact", "overview", "latest"}
  /\ ToSet(answer) \subseteq Samples

(* A detailed read returns every sample of the window once, whichever files *)
(* and chunks hold them and whatever the cache evicted. *)
SnapshotComplete ==
  read.kind = "exact" =>
    /\ ToSet(answer) = {s \in Samples : Within(s, read)}
    /\ Len(answer) = Cardinality(ToSet(answer))

(* "Chunks are internally time-sorted and decoded in start-time order, so   *)
(* the result stays time-ordered" (SnapshotAcc). *)
SnapshotOrdered == read.kind = "exact" => TimeOrdered(answer)

(* A detailed read is the samples of the window, all of them and in order.  *)
SnapshotExact == SnapshotComplete /\ SnapshotOrdered

(* latest_at returns the "Newest sample at or before end_ns", though it     *)
(* stops at the first chunk that holds one. *)
LatestIsNewest ==
  read.kind = "latest" =>
    LET before == {s \in Samples : s.ts <= read.end} IN
    /\ (answer = << >> <=> before = {})
    /\ answer # << >> => \A s \in before : s.ts <= answer[1].ts

(* The overview shows true samples in time order, and one over the whole    *)
(* recording shows its smallest and its largest value. *)
OverviewShowsExtremes ==
  read.kind = "overview" =>
    /\ TimeOrdered(answer)
    /\ \A s \in ToSet(answer) : Within(s, read)
    /\ (\A s \in Samples : Within(s, read)) =>
         {Min({s.val : s \in Samples}), Max({s.val : s \in Samples})}
           \subseteq {s.val : s \in ToSet(answer)}

(* The envelope and the text do not depend on how many workers built them. *)
EnvelopeDeterministic ==
  \A w \in Workers : EnvelopeBy(w) = EnvelopeBy(1) /\ TextBy(w) = TextBy(1)

(* The cache's count is the weight of what it holds, so it stays under the  *)
(* cap unless one chunk alone exceeds it. *)
CacheBounded ==
  /\ retained = Weight(lru)
  /\ retained <= CacheCap \/ Len(lru) = 1

(* A read answers with the samples asked for, whatever was evicted: all of  *)
(* a window in order, or the newest before a time. *)
ReadsExact == SnapshotExact /\ LatestIsNewest

(* The overview hides no extreme, is the same however many workers built    *)
(* it, and the cache it is drawn through keeps to its budget. *)
OverviewSound == OverviewShowsExtremes /\ EnvelopeDeterministic /\ CacheBounded
=============================================================================
