--------------------------- MODULE ProcessMemory ---------------------------
(* The fragmented memory of a process: how its regions are listed, cut into   *)
(* chunks and fetched (src/boreal/src/scanner/process/sys), and the two users *)
(* of that listing: the search of strings, once through all of it, then the   *)
(* conditions, which start over for each integer they read and each hash they *)
(* compute (src/boreal/src/memory.rs).                                        *)
(*                                                                            *)
(* One object holds the position in the listing, and every reader moves it.   *)
(* On Linux the pages of a file that the process did not change are read from *)
(* the file. A byte is where it comes from: the properties are about bytes    *)
(* that are left out, seen twice, or taken from the wrong place.              *)
EXTENDS Integers, Sequences, FiniteSets

CONSTANTS
    Processes,      \* the processes, with the parameters of the scan
    Reads,          \* what conditions may read: [kind, start, end]
    MaxReads        \* bound on the reads of a behaviour

ASSUME ReadsAssumption ==
    \A r \in Reads : /\ r.kind \in {"integer", "range"}
                     /\ r.start \in Nat /\ r.end \in Nat /\ r.start < r.end

(* A process: os is "linux" or "other" (Windows and macOS), page_size, regions *)
(* by increasing addresses, private the pages it has changed, chunk the        *)
(* memory_chunk_size (0: unset), max_fetched, can_refetch. A region: start,    *)
(* length, listed (it may be read), fetchable (reading its memory works),      *)
(* file (its file can be opened), offset and file_size.                        *)

\* The regions are whole pages, by increasing addresses, and do not overlap.
ASSUME ProcessesAssumption ==
    \A p \in Processes :
        /\ p.page_size \in Nat \ {0} /\ p.chunk \in Nat /\ p.max_fetched \in Nat
        /\ p.can_refetch \in BOOLEAN
        /\ Len(p.regions) \in Nat /\ DOMAIN p.regions = 1..Len(p.regions)
        /\ \A i \in DOMAIN p.regions :
              LET r == p.regions[i]
              IN  /\ r.start \in Nat /\ r.length \in Nat \ {0}
                  /\ r.offset \in Nat /\ r.file_size \in Nat
                  /\ r.listed \in BOOLEAN /\ r.fetchable \in BOOLEAN /\ r.file \in BOOLEAN
                  /\ r.start % p.page_size = 0 /\ r.length % p.page_size = 0
                  /\ \A j \in DOMAIN p.regions :
                        i < j => r.start + r.length <= p.regions[j].start

VARIABLES
    process,
    maps_line,      \* lines of /proc/pid/maps that were read (Linux)
    current,        \* <<>>, or the region listed and the offset in it
    pc,
    scanned,        \* what the search of strings was given, in order
    read,           \* the read under way, or the last one; resumes, a history
                    \* variable, is the address its listing goes on from
    slices,         \* what its callback was given
    reads           \* the number of reads
vars == <<process, maps_line, current, pc, scanned, read, slices, reads>>

Regions == process.regions
IsLinux == process.os = "linux"
Least(x, y) == IF x < y THEN x ELSE y

RegionAt(c) == Regions[c.line]
-----------------------------------------------------------------------------
(* The listing.                                                               *)

\* Rounds down, but never to 0.
round_to_page_size(value, page) ==
    IF value < page THEN page ELSE value - (value % page)

ChunkSize == IF IsLinux THEN round_to_page_size(process.chunk, process.page_size)
             ELSE process.chunk
MaxFetched == IF IsLinux THEN round_to_page_size(process.max_fetched, process.page_size)
              ELSE process.max_fetched

region_description(c) ==
    LET left == RegionAt(c).length - c.offset
    IN  [start  |-> RegionAt(c).start + c.offset,
         length |-> IF process.chunk = 0 THEN left ELSE Least(left, ChunkSize)]

\* Whether the current region has a next chunk: the size is not rounded here.
update_to_next_chunk(at) ==
    /\ at # <<>> /\ process.chunk # 0
    /\ at[1].offset + process.chunk < RegionAt(at[1]).length

\* The first region that may be read after a line of the listing.
Listed(line) ==
    {i \in DOMAIN Regions : i > line /\ Regions[i].listed
                            /\ \A j \in (line + 1)..(i - 1) : ~ Regions[j].listed}

\* The position after next, from line on: the next chunk, or the next region.
NextPosition(at, line) ==
    IF update_to_next_chunk(at)
    THEN <<[at[1] EXCEPT !.offset = @ + process.chunk]>>
    ELSE IF Listed(line) = {} THEN <<>>
    ELSE <<[line |-> CHOOSE i \in Listed(line) : TRUE, offset |-> 0]>>

\* Linux reads on in a file; the others ask for what follows the current region.
FromLine == IF IsLinux THEN maps_line
            ELSE IF current = <<>> THEN 0 ELSE current[1].line

\* next: the region listed, as <<>> or <<position>>.
NextRegion == NextPosition(current, FromLine)
Advance ==
    /\ current' = NextRegion
    /\ maps_line' = IF ~ IsLinux \/ update_to_next_chunk(current) THEN maps_line
                    ELSE IF NextRegion = <<>> THEN Len(Regions)
                    ELSE NextRegion[1].line

\* Mutation: the region left half-way is kept on every system.
ForgottenByNone(at) == at

\* Linux only goes back to the first line, the others only forget the current
\* region.
ForgottenBy(at) == IF IsLinux THEN at ELSE <<>>
reset ==
    /\ maps_line' = 0
    /\ current' = ForgottenBy(current)
-----------------------------------------------------------------------------
(* Fetching.                                                                  *)

Private(page) == page \in process.private
FromMemory(address) == [from |-> "memory", at |-> address]
FromFile(offset)    == [from |-> "file", at |-> offset]
Null                == [from |-> "null", at |-> 0]

\* What region r reads in its file at offset o: null bytes after the end.
FileByte(r, o) == IF o < r.file_size THEN FromFile(o) ELSE Null

\* The byte that the process has at an address of region r.
ByteOf(r, address) ==
    IF r.file /\ ~ Private(address \div process.page_size)
    THEN FileByte(r, r.offset + (address - r.start))
    ELSE FromMemory(address)

\* Mutation: the pages are counted from the first of the file.
PageLookedAtRelative(start, address) == (address - start) \div process.page_size

\* The page whose details the code looks at for an address of the chunk that
\* starts at start: the pages are counted from that of start.
PageLookedAt(start, address) ==
    start \div process.page_size + (address - start) \div process.page_size
\* Only the whole pages of the chunk are looked at.
LookedAt(start, n, address) ==
    (address - start) \div process.page_size < n \div process.page_size

\* <<>>, or the bytes fetched at a position, by address.
Fetched(c) ==
    LET r == RegionAt(c)
        start == region_description(c).start
        n == Least(region_description(c).length, MaxFetched)
        addresses == start..(start + n - 1)
        copied == {a \in addresses : /\ LookedAt(start, n, a)
                                     /\ Private(PageLookedAt(start, a))}
        file == IsLinux /\ r.file
        fails == IF file THEN \/ r.file_size < r.offset + c.offset
                              \/ copied # {} /\ ~ r.fetchable
                 ELSE ~ r.fetchable
    IN  IF fails THEN <<>>
        ELSE <<[a \in addresses |->
                   IF file /\ a \notin copied THEN FileByte(r, r.offset + (a - r.start))
                   ELSE ByteOf(r, a)]>>
-----------------------------------------------------------------------------
(* The search of strings goes through the listing once.                       *)

Init ==
    /\ process \in Processes
    /\ maps_line = 0 /\ current = <<>> /\ pc = "scan" /\ scanned = <<>>
    /\ read = [kind |-> "none", start |-> 0, end |-> 0, from |-> 0, resumes |-> 0]
    /\ slices = <<>> /\ reads = 0

\* Mutation: a region that cannot be fetched ends the search.
ScanRegionStops ==
    /\ pc = "scan" /\ NextRegion # <<>>
    /\ Advance
    /\ scanned' = scanned \o Fetched(NextRegion[1])
    /\ pc' = IF Fetched(NextRegion[1]) = <<>> THEN "idle" ELSE "scan"
    /\ UNCHANGED <<process, read, slices, reads>>

\* A region that cannot be fetched is left out.
ScanRegion ==
    /\ pc = "scan" /\ NextRegion # <<>>
    /\ Advance
    /\ scanned' = scanned \o Fetched(NextRegion[1])
    /\ UNCHANGED <<process, pc, read, slices, reads>>

ScanEnds ==
    /\ pc = "scan" /\ NextRegion = <<>>
    /\ Advance
    /\ pc' = "idle"
    /\ UNCHANGED <<process, scanned, read, slices, reads>>
-----------------------------------------------------------------------------
(* A condition reads: pc is "reading", then "some", "none" or "panic".        *)

\* Where the listing goes on once it is reset: 0 when it starts over.
ResumesAt ==
    IF ForgottenBy(current) # <<>> /\ update_to_next_chunk(current)
    THEN RegionAt(current[1]).start + current[1].offset + process.chunk
    ELSE 0

\* get_contiguous (kind "integer") and on_range (kind "range") up to their loop.
StartRead ==
    /\ pc \in {"idle", "some", "none"} /\ reads < MaxReads
    /\ \E r \in Reads :
         read' = [kind |-> r.kind, start |-> r.start, end |-> r.end, from |-> r.start,
                  resumes |-> ResumesAt]
    /\ reads' = reads + 1 /\ slices' = <<>>
    /\ IF process.can_refetch THEN pc' = "reading" /\ reset
       ELSE pc' = "none" /\ UNCHANGED <<maps_line, current>>
    /\ UNCHANGED <<process, scanned>>

Finish(outcome) == pc' = outcome /\ UNCHANGED <<read, slices>>
Between(bytes, start, end) == [a \in start..(end - 1) |-> bytes[a]]
Covers(bytes, start, end) == start..(end - 1) \subseteq DOMAIN bytes

\* Mutation: the listing is reset in the loop.
get_contiguousResets ==
    LET first == NextPosition(ForgottenBy(current), 0)
    IN  /\ pc = "reading" /\ read.kind = "integer"
        /\ current' = first
        /\ maps_line' = IF first = <<>> THEN 0 ELSE first[1].line
        /\ pc' = IF first = <<>> THEN "none"
                 ELSE LET region == region_description(first[1])
                      IN  IF read.start < region.start THEN "none"
                          ELSE IF read.start < region.start + region.length THEN "some"
                          ELSE "reading"
        /\ UNCHANGED <<process, scanned, reads, read, slices>>

\* One region of the loop of get_contiguous.
get_contiguous ==
    /\ pc = "reading" /\ read.kind = "integer"
    /\ Advance
    /\ IF NextRegion = <<>> THEN Finish("none")
       ELSE LET region == region_description(NextRegion[1])
                fetched == Fetched(NextRegion[1])
            IN  \/ read.start < region.start /\ Finish("none")
                \/ read.start >= region.start + region.length /\ Finish("reading")
                \/ /\ read.start \in region.start..(region.start + region.length - 1)
                   /\ IF fetched # <<>> /\ Covers(fetched[1], read.start, read.end)
                      THEN /\ slices' = <<Between(fetched[1], read.start, read.end)>>
                           /\ pc' = "some" /\ UNCHANGED read
                      ELSE Finish("none")
    /\ UNCHANGED <<process, scanned, reads>>

\* The callback of on_range is given a slice of what was fetched: it panics when
\* that is shorter than the region.
GiveSlice(region, fetched) ==
    LET end == Least(region.start + region.length, read.end)
    IN  \/ fetched = <<>> /\ Finish("none")
        \/ /\ fetched # <<>> /\ ~ Covers(fetched[1], read.from, end)
           /\ Finish("panic")
        \/ /\ fetched # <<>> /\ Covers(fetched[1], read.from, end)
           /\ slices' = Append(slices, Between(fetched[1], read.from, end))
           /\ read' = [read EXCEPT !.from = region.start + region.length]
           /\ pc' = IF read'.from >= read.end THEN "some" ELSE "reading"

\* Mutation: what follows a slice may be further on.
on_rangeSkipsHoles ==
    /\ pc = "reading" /\ read.kind = "range"
    /\ Advance
    /\ IF NextRegion = <<>> THEN Finish(IF slices = <<>> THEN "none" ELSE "some")
       ELSE LET region == region_description(NextRegion[1])
            IN  \/ read.from < region.start /\ Finish(IF slices = <<>> THEN "none" ELSE "some")
                \/ read.from >= region.start + region.length /\ Finish("reading")
                \/ /\ read.from \in region.start..(region.start + region.length - 1)
                   /\ GiveSlice(region, Fetched(NextRegion[1]))
    /\ UNCHANGED <<process, scanned, reads>>

\* One region of the loop of on_range: after the first slice, the next region
\* must follow.
on_range ==
    /\ pc = "reading" /\ read.kind = "range"
    /\ Advance
    /\ IF NextRegion = <<>> THEN Finish(IF slices = <<>> THEN "none" ELSE "some")
       ELSE LET region == region_description(NextRegion[1])
            IN  \/ /\ \/ slices # <<>> /\ read.from # region.start
                      \/ slices = <<>> /\ read.from < region.start
                   /\ Finish("none")
                \/ /\ slices = <<>> /\ read.from >= region.start + region.length
                   /\ Finish("reading")
                \/ /\ IF slices # <<>> THEN read.from = region.start
                      ELSE read.from \in region.start..(region.start + region.length - 1)
                   /\ GiveSlice(region, Fetched(NextRegion[1]))
    /\ UNCHANGED <<process, scanned, reads>>

Step == ScanRegion \/ ScanEnds \/ get_contiguous \/ on_range
Next == Step \/ StartRead
\* A listing is a loop of one thread: it goes on until it ends.
Spec == Init /\ [][Next]_vars /\ WF_vars(Step)
-----------------------------------------------------------------------------
(* What the listing should be, said of addresses instead of positions.        *)

Addresses(r) == r.start..(r.start + r.length - 1)
ListedRegions == {Regions[i] : i \in {j \in DOMAIN Regions : Regions[j].listed}}
RegionOf(address) == CHOOSE r \in ListedRegions : address \in Addresses(r)

\* The pieces in which a region is fetched: its addresses, by number of chunk.
PiecesOf(r) ==
    LET chunk(a) == IF process.chunk = 0 THEN 0 ELSE (a - r.start) \div process.chunk
    IN  {{b \in Addresses(r) : chunk(b) = chunk(a)} : a \in Addresses(r)}
Pieces == UNION {PiecesOf(r) : r \in ListedRegions}

\* A byte that can be read: its memory can, and its page is not after its file.
Readable(address) ==
    \E r \in ListedRegions :
        /\ address \in Addresses(r) /\ r.fetchable
        /\ LET page == process.page_size * ((address - r.start) \div process.page_size)
           IN  r.file => r.offset + page < r.file_size

\* No more than MaxFetched bytes of a piece are fetched.
NotTruncated(piece) == Cardinality(piece) <= MaxFetched
Kept(piece) == {a \in piece : Cardinality({b \in piece : b < a}) < MaxFetched}

\* Chunks are whole pages. On Linux a size that is not rounds the length of the
\* chunks and not the distance between them: README, observations.
ChunksArePages == IsLinux => process.chunk % process.page_size = 0

\* The listing starts over, as ResetStartsOver says: it is the first one after the
\* search, or no region has chunks to leave.
StartsOver == IsLinux => process.chunk = 0 \/ reads = 1

BytesOf(fragments) == UNION {DOMAIN fragments[i] : i \in DOMAIN fragments}
Ordered(fragments) ==
    \A i, j \in DOMAIN fragments :
        i < j => \A a \in DOMAIN fragments[i], b \in DOMAIN fragments[j] : a < b
-----------------------------------------------------------------------------
(* The properties.                                                            *)

\* The search of strings is given every byte that can be read, once, in order of
\* address, up to the most that is fetched of each piece: no chunk is skipped,
\* listed twice or lost with the region before it (scanner/mod.rs:553-559).
EveryByteOnceInOrder ==
    (pc # "scan" /\ ChunksArePages) =>
        /\ Ordered(scanned)
        /\ \A piece \in Pieces :
               {a \in Kept(piece) : Readable(a)} \subseteq BytesOf(scanned)
        /\ BytesOf(scanned) \subseteq UNION {Kept(piece) : piece \in Pieces}

\* A byte given to the search or to a condition is the one the process has there,
\* whichever of its memory and its file it was read from: the offset of the
\* mapping, the offset of the chunk and the numbers of the pages agree
\* (linux.rs:320-389).
BytesOfTheProcess ==
    ChunksArePages =>
        \A f \in {scanned[i] : i \in DOMAIN scanned} \cup {slices[i] : i \in DOMAIN slices} :
            \A a \in DOMAIN f : f[a] = ByteOf(RegionOf(a), a)

\* An integer has a value only if a piece has all of it, and it has one if it is not
\* before the chunk from which its listing goes on: a listing left half-way through
\* a region (linux.rs:161) loses what is before that chunk, and nothing after it
\* (memory.rs:106-119).
IntegerIsExact ==
    (read.kind = "integer" /\ ChunksArePages /\ process.can_refetch) =>
        LET wanted == read.start..(read.end - 1)
            whole == \E piece \in Pieces : wanted \subseteq Kept(piece)
        IN  /\ pc = "some" => whole /\ slices = <<slices[1]>> /\ BytesOf(slices) = wanted
            /\ pc = "none" /\ read.start >= read.resumes =>
                  ~ (whole /\ \A piece \in Pieces :
                                 wanted \subseteq piece => \A a \in piece : Readable(a))

\* What memory.rs:266-268 says of a reset: the first region is listed next. It does
\* not hold on Linux after a read that left its listing between two chunks.
ResetStartsOver ==
    [][StartRead /\ process.can_refetch => NextRegion' = NextPosition(<<>>, 0)']_vars

\* A range is given from its start, in order and without a hole, until its end or
\* the end of the memory; it is refused only when its first byte is in no region, a
\* byte is missing before another region, or a piece cannot be fetched
\* (memory.rs:126-143). It needs pieces that are fetched whole.
RangeIsExact ==
    ( /\ read.kind = "range" /\ ChunksArePages /\ StartsOver /\ process.can_refetch
      /\ \A piece \in Pieces : NotTruncated(piece) ) =>
        LET wanted == read.start..(read.end - 1)
            all == UNION Pieces
            covered == {a \in wanted : read.start..a \subseteq all}
            hole == \E a \in wanted \ all : \E b \in all : a < b
        IN  /\ pc # "panic"
            /\ pc \in {"some", "none"} => Ordered(slices) /\ BytesOf(slices) \subseteq covered
            /\ pc = "some" => BytesOf(slices) = covered /\ covered # {} /\ ~ hole
            /\ pc = "none" => \/ covered = {} \/ hole
                              \/ \E piece \in Pieces : /\ piece \cap wanted # {}
                                                       /\ \E a \in piece : ~ Readable(a)

\* Every listing ends: the search, and each read of a condition.
ListingsEnd == <>(pc # "scan") /\ []<>(pc # "reading")
=============================================================================
