----------------------------- MODULE Monitoring -----------------------------
(***************************************************************************)
(* Request samples on their way to Redis: StoreMonitoringData appends a    *)
(* sample to MonitoringCollection in a goroutine of its own after every    *)
(* request, and a ticker's goroutine calls FlushMonitoringData, which      *)
(* sends the samples older than the tick and removes each from the slice   *)
(* while it ranges over it.                                                *)
(*                                                                         *)
(* A slice is a header, a backing array and a length; headers share        *)
(* arrays, so removing an element shifts what the range loop has still to  *)
(* visit.  Nothing in the code keeps two accesses to the slice apart.  An  *)
(* append is an interval here; the flush uses memory from an answer of     *)
(* Redis to its next command.  As long as no two of these overlap, memory  *)
(* is what they make of it one after the other.  Once two have, it may be  *)
(* anything: a header is three words and a sample more, the words may be   *)
(* of different writes, and stores may be seen in another order.           *)
(***************************************************************************)
EXTENDS Integers, Sequences, FiniteSets

CONSTANTS
    Samples,   \* the requests measured, each with a nanosecond stamp of its own
    Blank,     \* a cell of a backing array not written yet
    Failures   \* TRUE: Redis may fail

ASSUME SamplesAreFinite == IsFiniteSet(Samples) /\ Blank \notin Samples
ASSUME SwitchIsTyped == Failures \in BOOLEAN

VARIABLES
    arrays,     \* the backing arrays: a sequence of cells each
    slice,      \* MonitoringCollection
    overlapped, \* two accesses have overlapped: arrays and slice say nothing more
    stage,      \* of each sample: what StoreMonitoringData has done with it
    \* FlushMonitoringData
    pc,         \* the step it is at
    ranged,     \* the slice it ranges over
    i,          \* the index of the loop
    monitor,    \* the element it visits, a copy
    old,        \* the samples stamped before lastFlush
    \* Redis
    hashes,     \* samples that have their hash
    index,      \* samples in the set of their endpoint
    \* history
    begun       \* the collection when the flush began; <<>> once it is disturbed

memory == <<arrays, slice, overlapped>>
loop == <<ranged, i, monitor, old>>
redis == <<hashes, index>>
vars == <<memory, stage, pc, loop, redis, begun>>

Nil == [arr |-> 0, len |-> 0]

Cells(a) == IF a = 0 THEN <<>> ELSE arrays[a]
Elements(s) == SubSeq(Cells(s.arr), 1, s.len)
InMemory(x) == \E k \in 1..slice.len : Elements(slice)[k] = x

Stages == {"new", "stamped", "append", "stored"}

Slices == [arr : 0..Len(arrays), len : 0..Cardinality(Samples)]

\* a slice within its backing array
WellFormed(s) == s \in Slices /\ s.len <= Len(Cells(s.arr))

TypeOK ==
    /\ \A a \in 1..Len(arrays) : \A k \in 1..Len(arrays[a]) :
         arrays[a][k] \in Samples \cup {Blank}
    /\ stage \in [Samples -> Stages]
    /\ WellFormed(slice) /\ (~overlapped => WellFormed(ranged))
    /\ pc \in {"idle", "connect", "visit", "hmset", "sadd", "remove", "panic"}
    /\ i \in 0..Cardinality(Samples)
    /\ monitor \in Samples \cup {Blank} /\ (~overlapped /\ pc = "hmset" => monitor \in old)
    /\ old \subseteq Samples
    /\ hashes \subseteq Samples \cup {Blank} /\ index \subseteq Samples \cup {Blank}
    /\ begun \in Seq(Samples) /\ overlapped \in BOOLEAN

Init ==
    /\ arrays = <<>> /\ slice = Nil /\ overlapped = FALSE
    /\ stage = [x \in Samples |-> "new"]
    /\ pc = "idle" /\ ranged = Nil /\ i = 0 /\ monitor = Blank /\ old = {}
    /\ hashes = {} /\ index = {}
    /\ begun = <<>>

Appending == {x \in Samples : stage[x] = "append"}

\* the flush uses memory
Looping == pc \in {"visit", "remove"}

\* an access to the slice begins: if it meets another, memory may be anything
\* from now on
Access(busy) ==
    IF busy \/ overlapped
    THEN overlapped' = TRUE /\ arrays' = <<>> /\ slice' = Nil
    ELSE UNCHANGED memory

Advance(x, to) == stage' = [stage EXCEPT ![x] = to]

\* the sample takes its stamp and its host
Stamp(x) ==
    /\ pc # "panic" /\ stage[x] = "new"
    /\ Advance(x, "stamped")
    /\ UNCHANGED <<memory, pc, loop, redis, begun>>

BeginAppend(x) ==
    /\ pc # "panic" /\ stage[x] = "stamped"
    /\ Access(Appending # {} \/ Looping)
    /\ Advance(x, "append")
    /\ UNCHANGED <<pc, loop, redis, begun>>

Room(s) == s.len < Len(Cells(s.arr))

Grown(s) == IF s.len = 0 THEN 1 ELSE 2 * s.len

\* append by itself: the sample goes into the next cell, or into the copy in an
\* array of twice the capacity
EndAppend(x) ==
    /\ pc # "panic" /\ stage[x] = "append"
    /\ Advance(x, "stored")
    /\ LET more == [k \in 1..Grown(slice) |->
                       CASE k <= slice.len    -> Cells(slice.arr)[k]
                         [] k = slice.len + 1 -> x
                         [] OTHER             -> Blank]
       IN  \/ overlapped /\ UNCHANGED <<arrays, slice>>
           \/ /\ ~overlapped /\ Room(slice)
              /\ arrays' = [arrays EXCEPT ![slice.arr][slice.len + 1] = x]
              /\ slice' = [slice EXCEPT !.len = @ + 1]
           \/ /\ ~overlapped /\ ~Room(slice)
              /\ arrays' = Append(arrays, more)
              /\ slice' = [arr |-> Len(arrays) + 1, len |-> slice.len + 1]
    /\ begun' = <<>>
    /\ UNCHANGED <<overlapped, pc, loop, redis>>

\* the flush ends or returns an error, which its caller drops
Return ==
    /\ pc' = "idle" /\ ranged' = Nil /\ i' = 0 /\ monitor' = Blank /\ old' = {}
    /\ begun' = <<>>
    /\ UNCHANGED <<memory, stage>>

\* MonitoringPush calls FlushMonitoringData with the time of the tick
Tick ==
    /\ pc = "idle"
    /\ Access(Appending # {})
    /\ overlapped' \/ slice.len > 0
    /\ pc' = "connect"
    /\ old' = {x \in Samples : stage[x] # "new"}
    /\ UNCHANGED <<stage, ranged, i, monitor, redis, begun>>

\* connect, PING and SELECT; then the range loop takes the slice
BeginLoop ==
    /\ pc = "connect"
    /\ \/ Failures /\ Return /\ UNCHANGED redis
       \/ /\ Access(Appending # {})
          /\ pc' = "visit" /\ ranged' = slice' /\ i' = 0
          /\ begun' = Elements(slice')
          /\ UNCHANGED <<stage, monitor, old, redis>>

\* slip: the samples that came after the tick are taken for the older ones
Newer(x) == x \notin old

Older(x) == x \in old

\* the loop ends, skips an element, breaks, or takes it
Visit ==
    /\ pc = "visit" /\ ~overlapped
    /\ LET m == Cells(ranged.arr)[i + 1]
       IN  \/ i >= ranged.len /\ Return
           \/ /\ i < ranged.len /\ ~Older(m)
              /\ i' = i + 1
              /\ UNCHANGED <<memory, stage, pc, ranged, monitor, old, begun>>
           \/ i < ranged.len /\ Older(m) /\ i > slice.len /\ Return
           \/ /\ i < ranged.len /\ Older(m) /\ i <= slice.len
              /\ monitor' = m /\ pc' = "hmset"
              /\ UNCHANGED <<memory, stage, ranged, i, old, begun>>
    /\ UNCHANGED redis

\* slip: the hash is not written
NoHash(x) == hashes

WithHash(x) == hashes \cup {x}

\* send the hash
Hmset ==
    /\ pc = "hmset"
    /\ \/ /\ hashes' = WithHash(monitor) /\ pc' = "sadd"
          /\ UNCHANGED <<memory, stage, loop, begun>>
       \/ /\ Failures /\ Return
          /\ hashes' \in {hashes, WithHash(monitor)}
    /\ UNCHANGED index

\* send the pointer to the hash
Sadd ==
    /\ pc = "sadd"
    /\ \/ /\ index' = index \cup {monitor} /\ pc' = "remove"
          /\ Access(Appending # {})
          /\ UNCHANGED <<stage, loop, begun>>
       \/ /\ Failures /\ Return
          /\ index' \in {index, index \cup {monitor}}
    /\ UNCHANGED hashes

\* slip: the test for the end is dropped
NotAtEnd(k) == FALSE

AtEnd(k) == k = slice.len

\* slip: the elements are not shifted, and the last one goes
LastDropped(k) == arrays

\* the arrays once the elements after index k are copied over it
Shifted(k) ==
    [arrays EXCEPT ![slice.arr] =
       [j \in 1..Len(@) |-> IF j \in (k + 1)..(slice.len - 1) THEN @[j + 1] ELSE @[j]]]

\* take the element at the loop's index out of the slice, whichever it is now
Remove ==
    /\ pc = "remove" /\ ~overlapped
    /\ \/ /\ AtEnd(i)
          /\ slice' = Nil /\ UNCHANGED arrays
          /\ pc' = "visit" /\ i' = i + 1
       \/ /\ ~AtEnd(i) /\ i >= slice.len                 \* slice bounds out of range
          /\ pc' = "panic" /\ UNCHANGED <<arrays, slice, i>>
       \/ /\ ~AtEnd(i) /\ i < slice.len
          /\ arrays' = Shifted(i)
          /\ slice' = [slice EXCEPT !.len = @ - 1]
          /\ pc' = "visit" /\ i' = i + 1
    /\ UNCHANGED <<overlapped, stage, ranged, monitor, old, redis, begun>>

\* in memory that may be anything the loop ends, goes on with any element, a
\* sample or not, or dies; what it worked with says nothing more
Astray ==
    /\ Looping /\ overlapped
    /\ \/ Return
       \/ /\ pc' = "hmset" /\ monitor' \in Samples \cup {Blank}
          /\ ranged' = Nil /\ i' = 0 /\ old' = {} /\ begun' = <<>>
          /\ UNCHANGED <<memory, stage>>
       \/ pc' = "panic" /\ UNCHANGED <<memory, stage, loop, begun>>
    /\ UNCHANGED redis

Next ==
    \/ \E x \in Samples : Stamp(x) \/ BeginAppend(x) \/ EndAppend(x)
    \/ Tick \/ BeginLoop \/ Visit \/ Hmset \/ Sadd \/ Remove \/ Astray

Spec == Init /\ [][Next]_vars

\* Appends and the flush are scheduled; Redis, asked again and again, answers
\* at last.
Fairness ==
    /\ \A x \in Samples : WF_vars(Stamp(x)) /\ WF_vars(BeginAppend(x)) /\ WF_vars(EndAppend(x))
    /\ WF_vars(Tick) /\ WF_vars(BeginLoop) /\ WF_vars(Visit) /\ WF_vars(Hmset) /\ WF_vars(Sadd)
    /\ WF_vars(Remove) /\ WF_vars(Astray)
    /\ SF_vars(BeginLoop /\ pc' = "visit")
    /\ SF_vars(Hmset /\ pc' = "sadd")
    /\ SF_vars(Sadd /\ pc' = "remove")

FairSpec == Spec /\ Fairness

-----------------------------------------------------------------------------
\* A report follows the pointers of the index: each has its hash, whichever
\* command fails; and in whatever state a race has left the slice, both commands
\* are about the copy that the loop has made of an element.
IndexedHasHash == index \subseteq hashes

\* The loop's index outruns the slice it shrinks, and the two tests of it keep
\* every removal in range as long as accesses do not overlap.
RemovalsInRange == ~overlapped => pc # "panic"

\* what a flush keeps, and what it sends, of a slice of old samples
Kept(s) == IF Len(s) % 2 = 0 THEN <<>> ELSE [k \in 1..(Len(s) \div 2) |-> s[2 * k]]
Sent(s) == {s[k] : k \in {j \in 1..Len(s) : j % 2 = 1 \/ j = Len(s)}}

\* A flush that goes to its end and that no append disturbs sends every other
\* sample.  The rest stay in memory when their number is odd; when it is even,
\* the last is sent too and the rest are gone.
UndisturbedFlush ==
    [][pc = "visit" /\ pc' = "idle" /\ ~overlapped /\ begun # <<>>
         /\ (\A k \in DOMAIN begun : begun[k] \in old)
       => Sent(begun) \subseteq index /\ (Elements(slice))' = Kept(begun)]_vars

\* No sample stays in memory forever: what one flush skips, a later one takes.
\* If accesses overlap, nothing is said of what memory holds.
EverySampleLeaves == \A x \in Samples : InMemory(x) ~> ~InMemory(x) \/ overlapped

\* "Following method stores requested data and associated parameters into
\* redis" (monitor.go:17-18): a sample that left memory is in Redis, even if
\* no two accesses to the slice overlap.
NoSampleLost ==
    ~overlapped => \A x \in Samples : stage[x] = "stored" => x \in index \/ InMemory(x)
=============================================================================
