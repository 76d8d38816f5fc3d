--------------------------- MODULE BlockDownload ---------------------------
(* NetworkMonitor.downloadBlocksFromHeight and its cache of chunks (core-p2p): *)
(* a call cuts what is missing into chunks and fetches each from a peer of its *)
(* own; chunks above a failed one are kept for later calls. Peers may fail and *)
(* may send fewer blocks than asked, for they are behind or reach the payload  *)
(* limit. Our chain may change to another branch between two calls.            *)
EXTENDS Integers, Sequences, FiniteSets, FiniteSetsExt, Functions

CONSTANTS Peers, Branches,
          DefaultSize,  \* defaultDownloadChunkSize (400)
          Shrink,       \* what an empty download divides the size by (10)
          Parallel,     \* maxParallelDownloads (10)
          CacheMax,     \* chunks the cache holds (100)
          MaxHeight,    \* bound: the height of the peers' chains
          Froms,        \* bound: the blocks downloads begin after
          MaxCalls,     \* bound: calls, numbered as they begin
          Overlapping,  \* bound: calls that run at once
          ShortAnswers, \* a peer may send fewer blocks than it is asked for
          None

DownloadAssumption ==
    /\ IsFiniteSet(Peers) /\ MaxHeight \in Nat /\ Froms \subseteq 0..MaxHeight
    /\ DefaultSize \in Nat \ {0} /\ Shrink \in Nat \ {0}
    /\ Parallel \in Nat \ {0} /\ CacheMax \in Nat

VARIABLES size,    \* #downloadChunkSize
          cache,   \* of [low, high, data]; data is [low, count, branch, of: the job that fetched it]
          call,    \* the calls so far: [from, size: when it began, job: its jobs, state, got: what it returned]
          branch   \* the branch our chain and its peers that are not forked are on

vars == <<size, cache, call, branch>>

CallIds == 1..MaxCalls
Chunks(c) == Len(call[c].job)
CeilDiv(a, b) == (a + b - 1) \div b

\* A job: its result, the peer it waits for, how many blocks it asked for, the
\* peers it has left to try and whether it failed.
Job(result, peer, limit, left) ==
    [result |-> result, peer |-> peer, limit |-> limit, left |-> left, failed |-> FALSE]

\* ChunkCache.
Has(low, high) == \E i \in DOMAIN cache : cache[i].low = low /\ cache[i].high = high
Get(low, high) == cache[Min({i \in DOMAIN cache : cache[i].low = low /\ cache[i].high = high})].data

Put(entries, entry) ==
    LET longer == Append(entries, entry)
    IN  IF Len(longer) > CacheMax THEN Tail(longer) ELSE longer

\* Those of new at the given places, one after the other.
PutAll(entries, new, places) ==
    LET put[i \in 0..Len(new)] ==
            IF i = 0 THEN entries ELSE IF i \in places THEN Put(put[i - 1], new[i]) ELSE put[i - 1]
    IN  put[Len(new)]

\* What is left when these ranges are removed.
Unserved(ranges) ==
    PutAll(<<>>, cache, {i \in DOMAIN cache : <<cache[i].low, cache[i].high>> \notin ranges})

-----------------------------------------------------------------------------
Missing(from, networkHeight) ==
    IF networkHeight <= from THEN 1 ELSE CeilDiv(networkHeight - from, size)

\* All jobs run up to their first wait: the cache is asked for every chunk but
\* the last, whose range has another name. Backup peers are those no job tries
\* first, or, when there are none, all others.
Begin(from, networkHeight, notForked) ==
    LET c == Len(call) + 1
        n == Min({Missing(from, networkHeight), Cardinality(notForked), Parallel})
        low(i) == from + size * (i - 1) + 1
        high(i) == from + size * i
        hits == {i \in 1..n - 1 : Has(low(i), high(i))}
    IN  /\ c \in CallIds
        /\ Cardinality({d \in DOMAIN call : call[d].state = "running"}) < Overlapping
        /\ \E first \in {s \in [1..n -> notForked] : IsInjective(s)} :
              LET spare == notForked \ Range(first)
                  left(i) == IF spare = {} THEN notForked \ {first[i]} ELSE spare
              IN  call' = Append(call,
                     [from |-> from, size |-> size, state |-> "running", got |-> <<>>,
                      job |-> [i \in 1..n |->
                         IF i \in hits THEN Job(Get(low(i), high(i)), None, 0, {})
                         ELSE Job(None, first[i], size, left(i))]])
        /\ cache' = Unserved({<<low(i), high(i)>> : i \in hits})
        /\ UNCHANGED <<size, branch>>

DownloadBlocksFromHeight ==
    \E from \in Froms, networkHeight \in 0..MaxHeight, notForked \in SUBSET Peers \ {{}} :
       Begin(from, networkHeight, notForked)

ChunkLow(c, i) == call[c].from + call[c].size * (i - 1) + 1

\* What a peer may answer to a call for blocks.
Counts(low, limit) ==
    LET most == Max({0, Min({limit, MaxHeight - low + 1})})
    IN  IF ShortAnswers THEN 0..most ELSE {most}

Running(c, i) == /\ c \in DOMAIN call /\ i \in DOMAIN call[c].job
                 /\ call[c].state = "running" /\ call[c].job[i].peer # None

Downloaded(c, i) ==
    /\ Running(c, i)
    /\ \E count \in Counts(ChunkLow(c, i), call[c].job[i].limit) :
          /\ count > 0 \/ i = Chunks(c)
          /\ call' = [call EXCEPT ![c].job[i] = Job(
                [low |-> ChunkLow(c, i), count |-> count, branch |-> branch, of |-> <<c, i>>], None, 0, {})]
    /\ UNCHANGED <<size, cache, branch>>

Failed(job) == [job EXCEPT !.peer = None, !.failed = TRUE]

\* The peer fails, or has no block of a chunk that others should follow: the
\* next is asked, whether or not another job failed.
TryNext(c, i) ==
    /\ Running(c, i)
    /\ LET job == call[c].job[i]
       IN  IF job.left = {}
           THEN call' = [call EXCEPT ![c].job[i] = Failed(job)]
           ELSE \E p \in job.left :
                   call' = [call EXCEPT ![c].job[i] = Job(None, p, size, job.left \ {p})]
    /\ UNCHANGED <<size, cache, branch>>

NextSize(got) ==
    IF \A k \in DOMAIN got : got[k].count = 0 THEN CeilDiv(size, Shrink) ELSE DefaultSize

\* Faulty variant: chunks are kept under the next chunk's range.
EntryShifted(c, i) == [low |-> call[c].from + size * i + 1, high |-> call[c].from + size * (i + 1),
                       data |-> call[c].job[i].result]

\* The range a chunk is kept under is computed from the size that holds now.
Entry(c, i) == [low |-> call[c].from + size * (i - 1) + 1, high |-> call[c].from + size * i,
                data |-> call[c].job[i].result]

\* The first failure ends the call; results of jobs that go on are dropped.
Finish(c) ==
    LET job  == call[c].job
        done == {i \in DOMAIN job : job[i].result # None}
        stop == Min((1..Chunks(c) + 1) \ done)
        got  == [i \in 1..stop - 1 |-> job[i].result]
    IN  /\ call[c].state = "running"
        /\ done = DOMAIN job \/ \E i \in DOMAIN job : job[i].failed
        /\ cache' = PutAll(cache, [i \in DOMAIN job |-> Entry(c, i)], {i \in done : i > stop})
        /\ size' = NextSize(got)
        /\ call' = [call EXCEPT ![c] = [@ EXCEPT !.state = "ended", !.got = got, !.job = <<>>]]
        /\ UNCHANGED <<branch>>

SwitchBranch ==
    /\ Len(call) < MaxCalls
    /\ \E b \in Branches \ {branch} : branch' = b
    /\ UNCHANGED <<size, cache, call>>

Init ==
    /\ size = DefaultSize /\ cache = <<>> /\ call = <<>>
    /\ branch \in Branches

JobStep == \E c \in DOMAIN call : \E i \in DOMAIN call[c].job : Downloaded(c, i) \/ TryNext(c, i)
FinishStep == \E c \in DOMAIN call : Finish(c)

Next == DownloadBlocksFromHeight \/ JobStep \/ FinishStep \/ SwitchBranch

\* A request ends by an answer or by its timeout.
Spec == Init /\ [][Next]_vars /\ WF_vars(JobStep) /\ WF_vars(FinishStep)

-----------------------------------------------------------------------------
Ended == {c \in DOMAIN call : call[c].state = "ended"}
Got(c) == SelectSeq(call[c].got, LAMBDA d : d.count > 0)

\* Types; a chunk never becomes empty and the cache keeps its limit.
TypeOK ==
    /\ size \in 1..DefaultSize /\ branch \in Branches
    /\ Len(cache) <= CacheMax
    /\ \A c \in DOMAIN call : call[c].state \in {"running", "ended"} /\ call[c].from \in Froms

\* A kept chunk holds blocks of the range it is kept under.
CacheFits ==
    \A i \in DOMAIN cache :
       cache[i].data.low = cache[i].low /\ cache[i].low + cache[i].data.count - 1 <= cache[i].high

\* Every chunk that is returned, fetched or kept, lies at the place where the
\* call wanted it ("an uninterrupted sequence of blocks, starting from
\* `fromBlockHeight`, with sequential heights", network-monitor.ts).
ChunksInPlace ==
    \A c \in Ended : \A i \in DOMAIN call[c].got : call[c].got[i].low = call[c].from + call[c].size * (i - 1) + 1

\* No fetched chunk is returned by two calls ("so that it does not get served
\* many times from the cache", network-monitor.ts).
ServedOnce ==
    \A c, d \in Ended : \A i \in DOMAIN call[c].got, j \in DOMAIN call[d].got :
       call[c].got[i].of = call[d].got[j].of => c = d /\ i = j

\* Every call ends.
CallsEnd == \A c \in CallIds : c \in DOMAIN call ~> c \in Ended

\* Does not hold (README, section 5):
\* The blocks that are returned have no gap ("without gaps", network-monitor.ts).
NoGaps ==
    \A c \in Ended : \A i \in 1..Len(Got(c)) - 1 : Got(c)[i].low + Got(c)[i].count = Got(c)[i + 1].low

\* Does not hold (README, section 5):
\* The blocks that are returned are of one branch ("In case of network
\* reorganization or downloading flawed chunks we want to re-download from
\* another peer", network-monitor.ts): every chunk was fetched on the branch of
\* the one before.
OneBranch ==
    \A c \in Ended : \A i \in 1..Len(Got(c)) - 1 :
       Got(c)[i].of[1] # Got(c)[i + 1].of[1] => Got(c)[i].branch = Got(c)[i + 1].branch

\* Does not hold (README, section 5):
\* A job of a call in which another failed asks no further peer ("Giving up on
\* trying to download blocks", network-monitor.ts).
GivesUp ==
    [][\A c \in DOMAIN call : \A i \in DOMAIN call[c].job :
          Running(c, i) /\ Running(c, i)' /\ call[c].job[i].peer # call'[c].job[i].peer
             => \A j \in DOMAIN call[c].job : ~call[c].job[j].failed]_vars
=============================================================================
