------------------------ MODULE ProcessMemoryProofs ------------------------
(* For any layout of the memory of a process, any chunks and any reads: the   *)
(* search is given every byte once and in order, bytes are those of the       *)
(* process, and what the conditions read is exact.                            *)
EXTENDS ProcessMemory, SequenceFacts

-----------------------------------------------------------------------------
(* Positions of the listing, and the addresses they list. *)

Position ==
    {c \in [line : DOMAIN Regions, offset : Nat] :
        /\ RegionAt(c).listed
        /\ c.offset < RegionAt(c).length
        /\ \E k \in Nat : c.offset = process.chunk * k}

Start(c) == region_description(c).start
End(c) == Start(c) + region_description(c).length
Span(c) == Start(c) .. (End(c) - 1)

Earlier(c, d) == c.line < d.line \/ (c.line = d.line /\ c.offset < d.offset)

\* What the assumption says of a region of the process.
LEMMA RegionFacts ==
    ASSUME process \in Processes, NEW i \in DOMAIN Regions
    PROVE  /\ i \in Nat /\ i # 0
           /\ Regions[i].start \in Nat /\ Regions[i].length \in Nat \ {0}
           /\ Regions[i].offset \in Nat /\ Regions[i].file_size \in Nat
           /\ Regions[i].listed \in BOOLEAN /\ Regions[i].fetchable \in BOOLEAN
           /\ Regions[i].file \in BOOLEAN
           /\ Regions[i].start % process.page_size = 0
           /\ Regions[i].length % process.page_size = 0
           /\ \A j \in DOMAIN Regions :
                 i < j => Regions[i].start + Regions[i].length <= Regions[j].start
  BY ProcessesAssumption DEF Regions

LEMMA ProcessFacts ==
    ASSUME process \in Processes
    PROVE  /\ process.page_size \in Nat \ {0}
           /\ process.chunk \in Nat /\ process.max_fetched \in Nat
           /\ DOMAIN Regions \subseteq Nat \ {0}
           /\ ChunkSize \in Nat /\ MaxFetched \in Nat
  <1>1. /\ process.page_size \in Nat \ {0}
        /\ process.chunk \in Nat /\ process.max_fetched \in Nat
        /\ DOMAIN Regions \subseteq Nat \ {0}
    BY ProcessesAssumption DEF Regions
  <1>2. \A v \in Nat : round_to_page_size(v, process.page_size) \in Nat
    <2> SUFFICES ASSUME NEW v \in Nat
                 PROVE  round_to_page_size(v, process.page_size) \in Nat
      OBVIOUS
    <2>1. /\ v \div process.page_size \in Nat
          /\ process.page_size * (v \div process.page_size) <= v
          /\ v % process.page_size = v - process.page_size * (v \div process.page_size)
      BY <1>1, Quotient
    <2>2. process.page_size * (v \div process.page_size) \in Nat
      BY <1>1, <2>1
    <2> QED
      BY <1>1, <2>1, <2>2 DEF round_to_page_size
  <1> QED
    BY <1>1, <1>2 DEF ChunkSize, MaxFetched

\* Chunks of whole pages are listed as they are set.
LEMMA ChunkIsWhole ==
    ASSUME process \in Processes, ChunksArePages
    PROVE  process.chunk # 0 => ChunkSize = process.chunk
  <1>1. process.page_size \in Nat \ {0} /\ process.chunk \in Nat
    BY ProcessFacts
  <1>2. CASE IsLinux
    <2>1. process.chunk % process.page_size = 0
      BY <1>2 DEF ChunksArePages
    <2>2. process.chunk < process.page_size => process.chunk \div process.page_size = 0
      BY <1>1, QuotientIs
    <2>3. process.chunk % process.page_size
              = process.chunk - process.page_size * (process.chunk \div process.page_size)
      BY <1>1, Quotient
    <2>4. process.chunk < process.page_size => process.chunk = 0
      BY <1>1, <2>1, <2>2, <2>3
    <2> QED
      BY <1>1, <1>2, <2>1, <2>4 DEF ChunkSize, round_to_page_size
  <1>3. CASE ~ IsLinux
    BY <1>3 DEF ChunkSize
  <1> QED
    BY <1>2, <1>3

LEMMA PositionFacts ==
    ASSUME process \in Processes, ChunksArePages, NEW c \in Position
    PROVE  /\ c.line \in DOMAIN Regions /\ c.offset \in Nat
           /\ c = [line |-> c.line, offset |-> c.offset]
           /\ Start(c) = RegionAt(c).start + c.offset
           /\ End(c) = IF process.chunk = 0 THEN RegionAt(c).start + RegionAt(c).length
                       ELSE Start(c) + Least(RegionAt(c).length - c.offset, process.chunk)
           /\ Start(c) \in Nat /\ End(c) \in Nat
           /\ Start(c) < End(c) /\ End(c) <= RegionAt(c).start + RegionAt(c).length
           /\ process.chunk = 0 => c.offset = 0
           /\ region_description(c).length = End(c) - Start(c)
           /\ region_description(c).start = Start(c)
  <1>1. /\ c.line \in DOMAIN Regions /\ c.offset \in Nat
        /\ c = [line |-> c.line, offset |-> c.offset]
        /\ c.offset < RegionAt(c).length
    BY DEF Position
  <1>2. PICK k \in Nat : c.offset = process.chunk * k
    BY DEF Position
  <1>3. RegionAt(c).start \in Nat /\ RegionAt(c).length \in Nat \ {0}
    BY <1>1, RegionFacts DEF RegionAt
  <1>4. process.chunk \in Nat
    BY ProcessFacts
  <1>5. process.chunk = 0 => c.offset = 0
    BY <1>2, <1>4
  <1> QED
    BY <1>1, <1>3, <1>4, <1>5, ChunkIsWhole
    DEF Start, End, region_description, Least

LEMMA PositionNumbers ==
    ASSUME process \in Processes, NEW c \in Position
    PROVE  /\ Start(c) \in Nat /\ End(c) \in Nat
           /\ region_description(c).start = Start(c)
           /\ region_description(c).length = End(c) - Start(c)
  <1>1. /\ RegionAt(c).start \in Nat /\ RegionAt(c).length \in Nat /\ c.offset \in Nat
        /\ c.offset < RegionAt(c).length /\ ChunkSize \in Nat
    BY RegionFacts, ProcessFacts DEF RegionAt, Position
  <1> QED
    BY <1>1 DEF Start, End, region_description, Least

LEMMA OneOrder ==
    ASSUME process \in Processes, ChunksArePages,
           NEW c \in Position, NEW d \in Position
    PROVE  Earlier(c, d) \/ Earlier(d, c) \/ c = d
  BY PositionFacts, RegionFacts DEF Earlier

\* Two positions of a region are chunks apart.
LEMMA ChunksApart ==
    ASSUME process \in Processes, ChunksArePages,
           NEW c \in Position, NEW d \in Position, c.line = d.line, c.offset < d.offset
    PROVE  /\ process.chunk \in Nat \ {0}
           /\ c.offset + process.chunk <= d.offset
           /\ c.offset + process.chunk < RegionAt(c).length
           /\ RegionAt(d) = RegionAt(c)
  <1> DEFINE m == process.chunk
  <1>1. /\ m \in Nat /\ m # 0 /\ c.offset \in Nat /\ d.offset \in Nat
    BY PositionFacts, ProcessFacts
  <1>2. PICK j \in Nat, k \in Nat : c.offset = m * j /\ d.offset = m * k
    BY DEF Position
  <1> HIDE DEF m
  <1>3. k <= j => m * k <= m * j
    BY <1>1, Multiples
  <1>4. j < k
    BY <1>1, <1>2, <1>3
  <1>5. m * j + m <= m * k
    BY <1>1, <1>4, Multiples
  <1>6. c.offset + m <= d.offset
    BY <1>2, <1>5
  <1>7. RegionAt(d) = RegionAt(c) /\ d.offset < RegionAt(c).length
        /\ RegionAt(c).length \in Nat
    BY RegionFacts DEF RegionAt, Position
  <1> QED
    BY <1>1, <1>6, <1>7 DEF m

\* Positions do not overlap, and addresses are in the order of the listing.
LEMMA SpansApart ==
    ASSUME process \in Processes, ChunksArePages,
           NEW c \in Position, NEW d \in Position, Earlier(c, d)
    PROVE  End(c) <= Start(d)
  <1>1. CASE c.line < d.line
    <2>1. RegionAt(c).start + RegionAt(c).length <= RegionAt(d).start
      BY <1>1, PositionFacts, RegionFacts DEF RegionAt
    <2>2. RegionAt(d).start \in Nat /\ RegionAt(c).start \in Nat /\ RegionAt(c).length \in Nat
      BY PositionFacts, RegionFacts DEF RegionAt
    <2> QED
      BY <2>1, <2>2, PositionFacts
  <1>2. CASE c.line = d.line /\ c.offset < d.offset
    <2>1. RegionAt(d) = RegionAt(c) /\ RegionAt(c).start \in Nat /\ RegionAt(c).length \in Nat
      BY <1>2, PositionFacts, RegionFacts DEF RegionAt
    <2>2. process.chunk \in Nat \ {0} /\ c.offset + process.chunk <= d.offset
      BY <1>2, ChunksApart
    <2>3. Start(d) = RegionAt(c).start + d.offset /\ Start(c) = RegionAt(c).start + c.offset
      BY <2>1, PositionFacts
    <2>4. End(c) <= Start(c) + process.chunk
      BY <2>1, <2>2, PositionFacts DEF Least
    <2> QED
      BY <2>1, <2>2, <2>3, <2>4, PositionFacts
  <1> QED
    BY <1>1, <1>2 DEF Earlier

-----------------------------------------------------------------------------
(* The pieces of the properties are the addresses of the positions. *)

LEMMA OneRegion ==
    ASSUME process \in Processes, NEW i \in DOMAIN Regions, NEW j \in DOMAIN Regions,
           NEW a \in Addresses(Regions[i]), a \in Addresses(Regions[j])
    PROVE  i = j
  BY RegionFacts DEF Addresses

LEMMA SpanInRegion ==
    ASSUME process \in Processes, ChunksArePages, NEW c \in Position
    PROVE  /\ RegionAt(c) \in ListedRegions
           /\ Span(c) \subseteq Addresses(RegionAt(c))
           /\ \A a \in Span(c) : /\ a \in Nat
                                 /\ RegionOf(a) = RegionAt(c)
                                 /\ \A r \in ListedRegions :
                                       a \in Addresses(r) => r = RegionAt(c)
  <1>1. RegionAt(c) \in ListedRegions
    BY PositionFacts DEF ListedRegions, RegionAt, Position
  <1>2. Span(c) \subseteq Addresses(RegionAt(c)) /\ Span(c) \subseteq Nat
    BY PositionFacts, RegionFacts DEF Span, Addresses, RegionAt
  <1>3. ASSUME NEW a \in Span(c), NEW r \in ListedRegions, a \in Addresses(r)
        PROVE  r = RegionAt(c)
    BY <1>2, <1>3, OneRegion, PositionFacts DEF ListedRegions, RegionAt
  <1>4. \A a \in Span(c) : RegionOf(a) = RegionAt(c)
    BY <1>1, <1>2, <1>3 DEF RegionOf
  <1> QED
    BY <1>1, <1>2, <1>3, <1>4

\* The position that lists an address of a region.
LEMMA PieceIsSpan ==
    ASSUME process \in Processes, ChunksArePages,
           NEW i \in DOMAIN Regions, Regions[i].listed, NEW a \in Addresses(Regions[i])
    PROVE  LET n == IF process.chunk = 0 THEN 0
                    ELSE (a - Regions[i].start) \div process.chunk
               c == [line |-> i, offset |-> process.chunk * n]
           IN  /\ n \in Nat /\ c \in Position
               /\ {b \in Addresses(Regions[i]) :
                      (IF process.chunk = 0 THEN 0
                       ELSE (b - Regions[i].start) \div process.chunk) = n} = Span(c)
  <1> DEFINE m == process.chunk
             r == Regions[i]
             Number(b) == IF m = 0 THEN 0 ELSE (b - r.start) \div m
             n == Number(a)
             c == [line |-> i, offset |-> m * n]
  <1>1. /\ m \in Nat /\ r.start \in Nat /\ r.length \in Nat \ {0} /\ i \in Nat
        /\ a \in r.start .. (r.start + r.length - 1)
    BY ProcessFacts, RegionFacts DEF Addresses
  <1>2. \A b \in r.start .. (r.start + r.length - 1) :
            /\ Number(b) \in Nat
            /\ m # 0 => m * Number(b) <= b - r.start /\ b - r.start < m * Number(b) + m
    <2> TAKE b \in r.start .. (r.start + r.length - 1)
    <2>1. b - r.start \in Nat
      BY <1>1
    <2> QED
      BY <1>1, <2>1, Quotient
  <1>3. \A b \in r.start .. (r.start + r.length - 1), k \in Nat :
            m # 0 /\ m * k <= b - r.start /\ b - r.start < m * k + m => Number(b) = k
    <2> TAKE b \in r.start .. (r.start + r.length - 1), k \in Nat
    <2>1. b - r.start \in Nat
      BY <1>1
    <2> QED
      BY <1>1, <2>1, QuotientIs
  <1> HIDE DEF n
  <1>4. n \in Nat /\ m * n \in Nat /\ m * n < r.length
    <2>1. n \in Nat
      BY <1>1, <1>2 DEF n
    <2>2. m * n \in Nat /\ (m = 0 => m * n = 0)
      BY <1>1, <2>1
    <2>3. m # 0 => m * n <= a - r.start
      BY <1>1, <1>2 DEF n
    <2> QED
      BY <1>1, <2>1, <2>2, <2>3
  <1>5. c \in Position
    BY <1>4, <1>1 DEF Position, RegionAt
  <1>6. /\ Start(c) = r.start + m * n
        /\ End(c) = IF m = 0 THEN r.start + r.length
                    ELSE Start(c) + Least(r.length - m * n, m)
        /\ m = 0 => m * n = 0
    BY <1>5, PositionFacts DEF RegionAt
  <1>7. ASSUME NEW b \in r.start .. (r.start + r.length - 1)
        PROVE  Number(b) = n <=> b \in Span(c)
    <2>1. CASE m = 0
      BY <1>1, <1>6, <2>1 DEF Span, n
    <2>2. CASE m # 0
      <3>1. Number(b) = n => m * n <= b - r.start /\ b - r.start < m * n + m
        BY <1>2, <2>2
      <3>2. m * n <= b - r.start /\ b - r.start < m * n + m => Number(b) = n
        BY <1>3, <1>4, <2>2
      <3> HIDE DEF Number
      <3>3. b \in Span(c) <=> r.start + m * n <= b /\ b <= End(c) - 1
        BY <1>1, <1>4, <1>6, <2>2 DEF Span, Least
      <3>4. b <= End(c) - 1 <=> b < r.start + m * n + m
        BY <1>1, <1>4, <1>6, <2>2 DEF Least
      <3> QED
        BY <3>1, <3>2, <3>3, <3>4, <1>1, <1>4
    <2> QED
      BY <2>1, <2>2
  <1>8. Span(c) \subseteq r.start .. (r.start + r.length - 1)
    BY <1>1, <1>4, <1>6 DEF Span, Least
  <1>9. {b \in Addresses(r) : Number(b) = n} = Span(c)
    BY <1>7, <1>8 DEF Addresses
  <1> QED
    BY <1>4, <1>5, <1>9 DEF n

LEMMA PiecesAreSpans ==
    ASSUME process \in Processes, ChunksArePages
    PROVE  Pieces = {Span(c) : c \in Position}
  <1>1. ASSUME NEW p \in Pieces
        PROVE  \E c \in Position : p = Span(c)
    <2>1. PICK i \in DOMAIN Regions : Regions[i].listed /\ p \in PiecesOf(Regions[i])
      BY <1>1 DEF Pieces, ListedRegions
    <2>2. PICK a \in Addresses(Regions[i]) :
              p = {b \in Addresses(Regions[i]) :
                      (IF process.chunk = 0 THEN 0
                       ELSE (b - Regions[i].start) \div process.chunk)
                      = (IF process.chunk = 0 THEN 0
                         ELSE (a - Regions[i].start) \div process.chunk)}
      BY <2>1 DEF PiecesOf
    <2> QED
      BY <2>1, <2>2, PieceIsSpan
  <1>2. ASSUME NEW c \in Position
        PROVE  Span(c) \in Pieces
    <2> DEFINE i == c.line
               r == Regions[i]
               a == Start(c)
               n == IF process.chunk = 0 THEN 0 ELSE (a - r.start) \div process.chunk
    <2>1. i \in DOMAIN Regions /\ r.listed /\ a \in Addresses(r) /\ r = RegionAt(c)
          /\ r \in ListedRegions
      <3>1. a \in Span(c)
        BY PositionFacts DEF Span
      <3> QED
        BY <3>1, PositionFacts, SpanInRegion DEF RegionAt, Position
    <2>2. c.offset = process.chunk * n
      <3>1. PICK k \in Nat : c.offset = process.chunk * k
        BY DEF Position
      <3>2. a - r.start = process.chunk * k /\ process.chunk \in Nat /\ a - r.start \in Nat
        BY <2>1, <3>1, PositionFacts, ProcessFacts, RegionFacts
      <3>3. process.chunk # 0 => (a - r.start) \div process.chunk = k
        <4> HIDE DEF a, r
        <4> QED
          BY <3>2, QuotientIs
      <3> QED
        BY <3>1, <3>2, <3>3
    <2>3. {b \in Addresses(r) : (IF process.chunk = 0 THEN 0
                                 ELSE (b - r.start) \div process.chunk) = n} = Span(c)
      <3>1. c = [line |-> i, offset |-> process.chunk * n]
        BY <2>2, PositionFacts
      <3> QED
        BY <2>1, <3>1, PieceIsSpan
    <2>4. Span(c) \in PiecesOf(r)
      BY <2>1, <2>3 DEF PiecesOf
    <2> QED
      BY <2>1, <2>4 DEF Pieces
  <1> QED
    BY <1>1, <1>2

\* An address is of one position.
LEMMA OneSpan ==
    ASSUME process \in Processes, ChunksArePages,
           NEW c \in Position, NEW d \in Position, NEW a \in Span(c), a \in Span(d)
    PROVE  c = d
  BY OneOrder, SpansApart, PositionFacts DEF Span

LEMMA FirstOfInterval ==
    ASSUME NEW s \in Nat, NEW e \in Nat, NEW n \in Nat
    PROVE  {a \in s .. (e - 1) : a - s < n} = s .. (s + Least(e - s, n) - 1)
  BY DEF Least

\* What is fetched of a piece is its first addresses.
LEMMA KeptOfSpan ==
    ASSUME process \in Processes, ChunksArePages, NEW c \in Position
    PROVE  /\ Kept(Span(c)) = Start(c) .. (Start(c) + Least(End(c) - Start(c), MaxFetched) - 1)
           /\ Kept(Span(c)) \subseteq Span(c)
           /\ NotTruncated(Span(c)) => Kept(Span(c)) = Span(c)
  <1>1. Start(c) \in Nat /\ End(c) \in Nat /\ Start(c) < End(c) /\ MaxFetched \in Nat
    BY PositionFacts, ProcessFacts
  <1>2. ASSUME NEW a \in Span(c)
        PROVE  Cardinality({b \in Span(c) : b < a}) = a - Start(c)
    <2>1. {b \in Span(c) : b < a} = Start(c) .. (a - 1) /\ a \in Int /\ a >= Start(c)
      BY <1>1 DEF Span
    <2>2. Cardinality(Start(c) .. (a - 1)) = a - Start(c)
      BY <2>1, <1>1, FS_Interval
    <2> QED
      BY <2>1, <2>2
  <1>3. Cardinality(Span(c)) = End(c) - Start(c)
    BY <1>1, FS_Interval DEF Span
  <1>4. Kept(Span(c)) = {a \in Span(c) : a - Start(c) < MaxFetched}
    BY <1>2 DEF Kept
  <1>5. Kept(Span(c)) = Start(c) .. (Start(c) + Least(End(c) - Start(c), MaxFetched) - 1)
    BY <1>1, <1>4, FirstOfInterval DEF Span
  <1>6. NotTruncated(Span(c)) => End(c) - Start(c) <= MaxFetched
    BY <1>3 DEF NotTruncated
  <1>7. \A a \in Span(c) : a \in Int /\ a - Start(c) < End(c) - Start(c)
    BY <1>1 DEF Span
  <1>8. ASSUME NotTruncated(Span(c)), NEW a \in Span(c)
        PROVE  a \in Kept(Span(c))
    BY <1>1, <1>4, <1>6, <1>7, <1>8
  <1>9. Kept(Span(c)) \subseteq Span(c)
    BY <1>4
  <1> QED
    BY <1>5, <1>8, <1>9

-----------------------------------------------------------------------------
(* Fetching. *)

Origins == [from : {"memory", "file", "null"}, at : Int]
Fragments == UNION {[d -> Origins] : d \in SUBSET Int}

\* What is fetched has a type, with chunks of any size.
LEMMA FetchedType ==
    ASSUME process \in Processes, NEW c \in Position
    PROVE  Fetched(c) = <<>> \/ \E f \in Fragments : Fetched(c) = <<f>>
  <1>1. /\ RegionAt(c).start \in Nat /\ RegionAt(c).offset \in Nat
        /\ RegionAt(c).length \in Nat /\ c.offset \in Nat
    BY RegionFacts DEF RegionAt, Position
  <1>2. ChunkSize \in Nat /\ MaxFetched \in Nat
    BY ProcessFacts
  <1>3. Start(c) \in Int /\ region_description(c).length \in Int
    BY <1>1, <1>2 DEF Start, region_description, Least
  <1> DEFINE s == region_description(c).start
             n == Least(region_description(c).length, MaxFetched)
  <1>4. s \in Int /\ n \in Int
    BY <1>2, <1>3 DEF Start, Least
  <1> HIDE DEF s, n
  <1>5. ASSUME NEW a \in s .. (s + n - 1), NEW r, r = RegionAt(c)
        PROVE  FileByte(r, r.offset + (a - r.start)) \in Origins /\ ByteOf(r, a) \in Origins
    BY <1>1, <1>4, <1>5 DEF FileByte, FromFile, Null, ByteOf, FromMemory, Origins
  <1> DEFINE copied == {a \in s .. (s + n - 1) : /\ LookedAt(s, n, a)
                                                 /\ Private(PageLookedAt(s, a))}
             r == RegionAt(c)
             f == [a \in s .. (s + n - 1) |->
                      IF (IsLinux /\ r.file) /\ a \notin copied
                      THEN FileByte(r, r.offset + (a - r.start))
                      ELSE ByteOf(r, a)]
  <1>6. f \in [s .. (s + n - 1) -> Origins] /\ s .. (s + n - 1) \in SUBSET Int
    BY <1>4, <1>5
  <1>7. f \in Fragments
    BY <1>6 DEF Fragments
  <1>8. Fetched(c) = <<>> \/ Fetched(c) = <<f>>
    BY DEF Fetched, s, n
  <1> QED
    BY <1>7, <1>8

\* On Linux the pages of a chunk are counted from its start, and all of them are
\* looked at, since a chunk starts on a page and has whole pages.
LEMMA PagesOfChunk ==
    ASSUME process \in Processes, ChunksArePages, IsLinux, NEW c \in Position
    PROVE  LET n == Least(End(c) - Start(c), MaxFetched)
           IN  \A a \in Start(c) .. (Start(c) + n - 1) :
                  /\ LookedAt(Start(c), n, a)
                  /\ PageLookedAt(Start(c), a) = a \div process.page_size
  <1> DEFINE P == process.page_size
             n == Least(End(c) - Start(c), MaxFetched)
             IsPages(x) == \E k \in Nat : x = P * k
  <1>1. P \in Nat \ {0} /\ process.chunk \in Nat /\ process.max_fetched \in Nat
    BY ProcessFacts
  <1> HIDE DEF P
  <1>2. ASSUME NEW x \in Nat, x % P = 0
        PROVE  IsPages(x)
    <2>1. x \div P \in Nat /\ P * (x \div P) <= x
      BY <1>1, Quotient
    <2>2. x % P = x - P * (x \div P)
      BY <1>1, Quotient
    <2>3. P * (x \div P) \in Nat
      BY <1>1, <2>1
    <2>4. x = P * (x \div P)
      BY <1>2, <2>2, <2>3
    <2> QED
      BY <2>1, <2>4
  <1>3. ASSUME NEW x, NEW y, IsPages(x), IsPages(y)
        PROVE  IsPages(x + y) /\ (x >= y => IsPages(x - y)) /\ x \in Nat
    <2>1. PICK j \in Nat, k \in Nat : x = P * j /\ y = P * k
      BY <1>3
    <2>2. x \in Nat /\ y \in Nat /\ P * (j + k) = x + y /\ j + k \in Nat
      BY <2>1, <1>1
    <2>3. x >= y => j >= k \/ x = y
      BY <2>1, <1>1, Multiples
    <2>4. j >= k => j - k \in Nat /\ P * (j - k) = x - y
      BY <2>1, <1>1
    <2>5. x = y => x - y = P * 0
      BY <2>2, <1>1
    <2> QED
      BY <2>2, <2>3, <2>4, <2>5
  <1>4. IsPages(RegionAt(c).start) /\ IsPages(RegionAt(c).length)
    BY <1>2, RegionFacts, PositionFacts DEF RegionAt, P
  <1>5. IsPages(process.chunk)
    BY <1>1, <1>2 DEF ChunksArePages, P
  <1>6. IsPages(c.offset)
    <2>1. PICK j \in Nat, k \in Nat : process.chunk = P * j /\ c.offset = process.chunk * k
      BY <1>5 DEF Position
    <2>2. c.offset = P * (j * k) /\ j * k \in Nat
      BY <2>1, <1>1
    <2> QED
      BY <2>2
  <1>7. IsPages(Start(c)) /\ Start(c) \in Nat
    BY <1>3, <1>4, <1>6, PositionFacts
  <1>8. IsPages(End(c) - Start(c)) /\ End(c) - Start(c) \in Nat
    <2>1. IsPages(RegionAt(c).length - c.offset)
      BY <1>3, <1>4, <1>6, PositionFacts DEF Position
    <2>2. CASE process.chunk = 0
      BY <2>1, <2>2, PositionFacts, RegionFacts DEF RegionAt
    <2>3. CASE process.chunk # 0
      <3>1. End(c) = Start(c) + Least(RegionAt(c).length - c.offset, process.chunk)
        BY <2>3, PositionFacts
      <3>2. RegionAt(c).length - c.offset \in Nat /\ Start(c) \in Nat
        BY PositionFacts, RegionFacts DEF RegionAt, Position
      <3>3. End(c) - Start(c) = Least(RegionAt(c).length - c.offset, process.chunk)
        BY <1>1, <3>1, <3>2 DEF Least
      <3> QED
        BY <1>1, <1>5, <2>1, <3>2, <3>3 DEF Least
    <2> QED
      BY <2>2, <2>3
  <1>9. IsPages(MaxFetched) /\ MaxFetched \in Nat
    <2> DEFINE v == process.max_fetched
    <2>1. v \in Nat /\ v \div P \in Nat
      BY <1>1, Quotient
    <2>2. v % P = v - P * (v \div P)
      BY <1>1, Quotient
    <2>3. MaxFetched = P \/ MaxFetched = v - (v % P)
      BY DEF MaxFetched, round_to_page_size, P
    <2>4. P = P * 1
      BY <1>1
    <2> HIDE DEF v
    <2>5. P * (v \div P) \in Nat
      BY <1>1, <2>1
    <2>6. v - (v % P) = P * (v \div P)
      BY <2>1, <2>2, <2>5
    <2> QED
      BY <2>1, <2>3, <2>4, <2>5, <2>6, <1>1
  <1>10. IsPages(n) /\ n \in Nat
    BY <1>8, <1>9 DEF Least
  <1> HIDE DEF n
  <1>11. PICK i \in Nat, j \in Nat : n = P * i /\ Start(c) = P * j
    BY <1>7, <1>10
  <1>12. n \div P = i /\ Start(c) \div P = j
    <2>1. P * i \in Nat /\ P * j \in Nat
      BY <1>1
    <2> QED
      BY <1>1, <1>11, <2>1, QuotientIs
  <1>13. ASSUME NEW a \in Start(c) .. (Start(c) + n - 1)
         PROVE  /\ LookedAt(Start(c), n, a)
                /\ PageLookedAt(Start(c), a) = a \div P
    <2> DEFINE x == a - Start(c)
    <2>1. x \in Nat /\ x < n /\ a = P * j + x
      BY <1>7, <1>10, <1>11
    <2> HIDE DEF x
    <2>2. x \div P \in Nat /\ P * (x \div P) <= x
      BY <1>1, <2>1, Quotient
    <2>3. x \div P < i
      <3>1. i <= x \div P => P * i <= P * (x \div P)
        BY <1>1, <2>2, Multiples
      <3> QED
        BY <3>1, <1>1, <1>11, <2>1, <2>2
    <2>4. a \div P = j + x \div P
      BY <1>1, <2>1, QuotientOfSum
    <2> QED
      BY <2>3, <2>4, <1>12 DEF LookedAt, PageLookedAt, P, x
  <1> QED
    BY <1>13 DEF n, P

\* The bytes fetched of a piece are those of the process, wherever they are read.
FetchedOf(c) == [a \in Kept(Span(c)) |-> ByteOf(RegionAt(c), a)]

LEMMA FetchedIs ==
    ASSUME process \in Processes, ChunksArePages, NEW c \in Position
    PROVE  Fetched(c) = <<>> \/ Fetched(c) = <<FetchedOf(c)>>
  <1> DEFINE r == RegionAt(c)
             s == region_description(c).start
             n == Least(region_description(c).length, MaxFetched)
             copied == {a \in s .. (s + n - 1) : /\ LookedAt(s, n, a)
                                                 /\ Private(PageLookedAt(s, a))}
             file == IsLinux /\ r.file
             f == [a \in s .. (s + n - 1) |->
                      IF file /\ a \notin copied THEN FileByte(r, r.offset + (a - r.start))
                      ELSE ByteOf(r, a)]
  <1>1. Fetched(c) = <<>> \/ Fetched(c) = <<f>>
    BY DEF Fetched
  <1>2. s = Start(c) /\ n = Least(End(c) - Start(c), MaxFetched)
    BY PositionFacts
  <1>3. s .. (s + n - 1) = Kept(Span(c))
    BY <1>2, KeptOfSpan
  <1>4. ASSUME NEW a \in s .. (s + n - 1), file
        PROVE  a \in copied <=> Private(a \div process.page_size)
    BY <1>2, <1>4, PagesOfChunk
  <1> HIDE DEF s, n, copied
  <1>5. ASSUME NEW a \in s .. (s + n - 1)
        PROVE  f[a] = ByteOf(r, a)
    BY <1>4, <1>5 DEF ByteOf
  <1>6. f = FetchedOf(c)
    BY <1>3, <1>5 DEF FetchedOf
  <1> QED
    BY <1>1, <1>6

LEMMA FetchedWhenReadable ==
    ASSUME process \in Processes, ChunksArePages, NEW c \in Position,
           NEW a \in Span(c), Readable(a)
    PROVE  Fetched(c) # <<>>
  <1> DEFINE r == RegionAt(c)
             P == process.page_size
             page == P * ((a - r.start) \div P)
  <1>1. r.fetchable /\ (r.file => r.offset + page < r.file_size)
    BY SpanInRegion DEF Readable
  <1>2. CASE IsLinux /\ r.file
    <2>1. /\ P \in Nat \ {0} /\ r.offset \in Nat /\ r.file_size \in Nat /\ r.start \in Nat
          /\ c.offset \in Nat /\ Start(c) = r.start + c.offset /\ a \in Nat /\ Start(c) <= a
      BY ProcessFacts, RegionFacts, PositionFacts DEF RegionAt, Span
    <2>2. PICK j \in Nat : c.offset = P * j
      <3>1. PICK k \in Nat : c.offset = process.chunk * k
        BY DEF Position
      <3>2. process.chunk % P = 0 /\ process.chunk \in Nat
        BY <1>2, ProcessFacts DEF ChunksArePages
      <3> HIDE DEF P
      <3>3. process.chunk % P = process.chunk - P * (process.chunk \div P)
            /\ process.chunk \div P \in Nat
        BY <2>1, <3>2, Quotient
      <3>4. PICK q \in Nat : process.chunk = P * q
        <4>1. P * (process.chunk \div P) \in Nat
          BY <2>1, <3>3
        <4>2. process.chunk = P * (process.chunk \div P)
          BY <3>2, <3>3, <4>1
        <4> QED
          BY <3>3, <4>2
      <3>5. c.offset = P * (q * k) /\ q * k \in Nat
        BY <2>1, <3>1, <3>4
      <3> QED
        BY <3>5
    <2> HIDE DEF P
    <2>3. c.offset <= page
      <3> DEFINE x == a - r.start
      <3>1. x \in Nat /\ P * j <= x
        BY <2>1, <2>2
      <3> HIDE DEF x
      <3>2. x \div P \in Nat /\ x < P * (x \div P) + P
        BY <2>1, <3>1, Quotient
      <3>3. x \div P < j => P * (x \div P) + P <= P * j
        BY <2>1, <3>2, Multiples
      <3>4. P * j \in Nat /\ P * (x \div P) \in Nat
        BY <2>1, <3>2
      <3>5. j <= x \div P
        BY <2>1, <3>1, <3>2, <3>3, <3>4
      <3>6. P * j <= P * (x \div P)
        BY <2>1, <3>2, <3>5, Multiples
      <3> QED
        BY <3>6, <2>2 DEF x
    <2>4. page \in Int
      <3>1. a - r.start \in Nat
        BY <2>1
      <3>2. (a - r.start) \div P \in Nat
        BY <2>1, <3>1, Quotient
      <3> QED
        BY <2>1, <3>2
    <2>5. ~ (r.file_size < r.offset + c.offset)
      <3> HIDE DEF page
      <3> QED
        BY <1>1, <1>2, <2>1, <2>3, <2>4
    <2> QED
      BY <1>1, <1>2, <2>5 DEF Fetched
  <1>3. CASE ~ (IsLinux /\ r.file)
    BY <1>1, <1>3 DEF Fetched
  <1> QED
    BY <1>2, <1>3
-----------------------------------------------------------------------------
(* The listing: what it has passed, and what it gives next. *)

\* A listing under way knows the region it is in, or starts over, or goes on half-way
\* through a region before it does.
Located == FromLine # 0 => current # <<>> /\ current[1].line = FromLine
HalfWay == FromLine = 0 /\ update_to_next_chunk(current)
Placed == Located /\ ~ HalfWay

Past(d) == d.line < FromLine \/ (d.line = FromLine /\ d.offset <= current[1].offset)

LEMMA FirstListed ==
    ASSUME process \in Processes, NEW line \in Nat
    PROVE  IF Listed(line) = {}
           THEN \A i \in DOMAIN Regions : i > line => ~ Regions[i].listed
           ELSE LET next == CHOOSE i \in Listed(line) : TRUE
                IN  /\ next \in DOMAIN Regions /\ next > line /\ Regions[next].listed
                    /\ \A i \in DOMAIN Regions : i > line /\ i < next => ~ Regions[i].listed
  <1>1. DOMAIN Regions \subseteq Nat \ {0}
    BY ProcessFacts
  <1>2. CASE Listed(line) = {}
    <2> SUFFICES ASSUME {i \in DOMAIN Regions : i > line /\ Regions[i].listed} # {}
                 PROVE  FALSE
      BY <1>2
    <2>1. PICK m \in {i \in DOMAIN Regions : i > line /\ Regions[i].listed} :
              \A k \in {i \in DOMAIN Regions : i > line /\ Regions[i].listed} : m <= k
      BY <1>1, LeastNumber
    <2>2. PICK n \in Nat : DOMAIN Regions = 1..n
      BY ProcessesAssumption DEF Regions
    <2>3. m \in Listed(line)
      BY <1>1, <2>1, <2>2 DEF Listed
    <2> QED
      BY <1>2, <2>3
  <1>3. CASE Listed(line) # {}
    <2> DEFINE next == CHOOSE i \in Listed(line) : TRUE
    <2>1. next \in Listed(line)
      BY <1>3
    <2> HIDE DEF next
    <2>2. /\ next \in DOMAIN Regions /\ next > line /\ Regions[next].listed
          /\ \A i \in DOMAIN Regions : i > line /\ i < next => ~ Regions[i].listed
      BY <1>1, <2>1 DEF Listed
    <2> QED
      BY <1>3, <2>2 DEF next
  <1> QED
    BY <1>2, <1>3

\* What is current is a position, whatever the listing has been through.
PositionKept == current # <<>> => current = <<current[1]>> /\ current[1] \in Position

LEMMA NextIsPosition ==
    ASSUME process \in Processes, PositionKept, FromLine \in Nat
    PROVE  NextRegion # <<>> => /\ NextRegion = <<NextRegion[1]>>
                                /\ NextRegion[1] \in Position
  <1>1. CASE update_to_next_chunk(current)
    <2> DEFINE c == current[1]
               d == [c EXCEPT !.offset = @ + process.chunk]
    <2>1. c \in Position /\ process.chunk \in Nat
      BY <1>1, ProcessFacts DEF PositionKept, update_to_next_chunk
    <2>2. d = [line |-> c.line, offset |-> c.offset + process.chunk]
      BY <2>1 DEF Position
    <2>3. PICK k \in Nat : c.offset = process.chunk * k
      BY <2>1 DEF Position
    <2>4. c.offset + process.chunk = process.chunk * (k + 1) /\ k + 1 \in Nat
      BY <2>1, <2>3, Multiples
    <2>5. d \in Position
      BY <1>1, <2>1, <2>2, <2>4 DEF Position, update_to_next_chunk, RegionAt
    <2>6. NextRegion = <<d>>
      BY <1>1 DEF NextRegion, NextPosition
    <2> QED
      BY <2>5, <2>6
  <1>2. CASE ~ update_to_next_chunk(current) /\ Listed(FromLine) # {}
    <2> DEFINE next == CHOOSE i \in Listed(FromLine) : TRUE
               d == [line |-> next, offset |-> 0]
    <2>1. next \in DOMAIN Regions /\ Regions[next].listed
      BY <1>2, FirstListed
    <2>2. NextRegion = <<d>>
      BY <1>2 DEF NextRegion, NextPosition
    <2> HIDE DEF next
    <2>3. d \in Position
      <3>1. Regions[next].length \in Nat \ {0} /\ process.chunk \in Nat
        BY <2>1, RegionFacts, ProcessFacts
      <3>2. process.chunk * 0 = 0
        BY <3>1
      <3> QED
        BY <2>1, <3>1, <3>2 DEF Position, RegionAt
    <2> QED
      BY <2>2, <2>3
  <1>3. CASE ~ update_to_next_chunk(current) /\ Listed(FromLine) = {}
    BY <1>3 DEF NextRegion, NextPosition
  <1> QED
    BY <1>1, <1>2, <1>3

\* When the listing ends, every position was listed.
LEMMA NothingAfterTheEnd ==
    ASSUME process \in Processes, ChunksArePages, PositionKept, Placed, FromLine \in Nat,
           NextRegion = <<>>, NEW d \in Position
    PROVE  Past(d)
  <1>1. ~ update_to_next_chunk(current) /\ Listed(FromLine) = {}
    BY DEF NextRegion, NextPosition
  <1>2. d.line \in Nat \ {0} /\ d.line <= FromLine
    <2>1. d.line \in DOMAIN Regions /\ Regions[d.line].listed /\ d.line \in Nat \ {0}
      BY ProcessFacts DEF Position, RegionAt
    <2>2. ~ (d.line > FromLine)
      BY <1>1, <2>1, FirstListed
    <2> QED
      BY <2>1, <2>2
  <1>3. CASE d.line = FromLine
    <2> DEFINE c == current[1]
    <2>1. c \in Position /\ c.line = d.line /\ current # <<>>
      BY <1>2, <1>3 DEF Placed, Located, HalfWay, PositionKept
    <2>2. ~ (c.offset < d.offset)
      BY <1>1, <2>1, ChunksApart DEF update_to_next_chunk
    <2> QED
      BY <1>3, <2>1, <2>2, PositionFacts DEF Past
  <1> QED
    BY <1>2, <1>3 DEF Past

\* What the listing gives next follows what it has passed, and comes before all
\* the rest.
LEMMA NextIsNext ==
    ASSUME process \in Processes, ChunksArePages, PositionKept, Placed, FromLine \in Nat,
           NextRegion # <<>>
    PROVE  /\ \A d \in Position : Past(d) => Earlier(d, NextRegion[1])
           /\ \A d \in Position : Past(d) \/ d = NextRegion[1] \/ Earlier(NextRegion[1], d)
           /\ ~ Past(NextRegion[1])
  <1> DEFINE n == NextRegion[1]
  <1>1. n \in Position /\ n.line \in Nat /\ n.offset \in Nat
    BY NextIsPosition, PositionFacts, ProcessFacts
  <1>2. CASE update_to_next_chunk(current)
    <2> DEFINE c == current[1]
    <2>1. /\ FromLine # 0 /\ c \in Position /\ c.line = FromLine
          /\ process.chunk \in Nat \ {0} /\ c.offset \in Nat
      BY <1>2, ProcessFacts, PositionFacts
      DEF Placed, Located, HalfWay, PositionKept, update_to_next_chunk
    <2>2. n.line = c.line /\ n.offset = c.offset + process.chunk
      BY <1>2, <2>1, PositionFacts DEF NextRegion, NextPosition
    <2> HIDE DEF n
    <2>3. ASSUME NEW d \in Position
          PROVE  /\ Past(d) => Earlier(d, n)
                 /\ Past(d) \/ d = n \/ Earlier(n, d)
      <3>1. d.line \in Nat /\ d.offset \in Nat
        BY PositionFacts, ProcessFacts
      <3>2. Past(d) => Earlier(d, n)
        BY <3>1, <2>1, <2>2 DEF Past, Earlier
      <3>3. ASSUME d.line = c.line, c.offset < d.offset
            PROVE  c.offset + process.chunk <= d.offset
        BY <2>1, <3>3, ChunksApart
      <3>4. ~ Past(d) => d.line > c.line \/ (d.line = c.line /\ c.offset < d.offset)
        BY <2>1, <3>1 DEF Past
      <3>5. d.line = n.line /\ d.offset = n.offset => d = n
        BY <1>1, PositionFacts
      <3> QED
        BY <1>1, <2>1, <2>2, <3>1, <3>2, <3>3, <3>4, <3>5 DEF Earlier
    <2>4. ~ Past(n)
      BY <2>1, <2>2 DEF Past
    <2> QED
      BY <2>3, <2>4 DEF n
  <1>3. CASE ~ update_to_next_chunk(current)
    <2>1. Listed(FromLine) # {}
          /\ NextRegion = <<[line |-> CHOOSE i \in Listed(FromLine) : TRUE, offset |-> 0]>>
      BY <1>3 DEF NextRegion, NextPosition
    <2>2. /\ n.offset = 0 /\ n.line > FromLine
          /\ \A i \in DOMAIN Regions : i > FromLine /\ i < n.line => ~ Regions[i].listed
      BY <2>1, FirstListed
    <2> HIDE DEF n
    <2>3. ASSUME NEW d \in Position
          PROVE  /\ Past(d) => Earlier(d, n)
                 /\ Past(d) \/ d = n \/ Earlier(n, d)
      <3>1. d.line \in Nat \ {0} /\ d.offset \in Nat /\ Regions[d.line].listed
            /\ d.line \in DOMAIN Regions
        BY PositionFacts, ProcessFacts DEF Position, RegionAt
      <3>2. Past(d) => Earlier(d, n)
        BY <3>1, <2>2, <1>1 DEF Past, Earlier
      <3>3. d.line = FromLine => Past(d)
        <4> SUFFICES ASSUME d.line = FromLine
                     PROVE  d.offset <= current[1].offset
          BY DEF Past
        <4> DEFINE c == current[1]
        <4>1. c \in Position /\ c.line = d.line /\ current # <<>>
          BY <3>1 DEF Placed, Located, HalfWay, PositionKept
        <4>2. ~ (c.offset < d.offset)
          BY <1>3, <4>1, ChunksApart DEF update_to_next_chunk
        <4> QED
          BY <3>1, <4>1, <4>2, PositionFacts
      <3>4. d.line > FromLine => d.line >= n.line
        BY <2>2, <3>1, <1>1
      <3>5. d.line = n.line /\ d.offset = n.offset => d = n
        BY <1>1, PositionFacts
      <3> QED
        BY <1>1, <2>2, <3>1, <3>2, <3>3, <3>4, <3>5 DEF Earlier, Past
    <2>4. ~ Past(n)
      BY <1>1, <2>2 DEF Past
    <2> QED
      BY <2>3, <2>4 DEF n
  <1> QED
    BY <1>2, <1>3

\* None of it depends on more than the process.
LEMMA SameProcess ==
    ASSUME process' = process
    PROVE  /\ Regions' = Regions /\ Position' = Position /\ IsLinux' = IsLinux
           /\ MaxFetched' = MaxFetched /\ ChunksArePages' = ChunksArePages
           /\ ListedRegions' = ListedRegions /\ Pieces' = Pieces
           /\ \A c : /\ region_description(c)' = region_description(c)
                     /\ Start(c)' = Start(c) /\ End(c)' = End(c) /\ Span(c)' = Span(c)
           /\ \A p : Kept(p)' = Kept(p) /\ NotTruncated(p)' = NotTruncated(p)
           /\ \A a : Readable(a)' = Readable(a) /\ RegionOf(a)' = RegionOf(a)
           /\ \A r, a : ByteOf(r, a)' = ByteOf(r, a)
  <1>1. Regions' = Regions /\ IsLinux' = IsLinux
    BY DEF Regions, IsLinux
  <1>2. ChunkSize' = ChunkSize /\ MaxFetched' = MaxFetched /\ ChunksArePages' = ChunksArePages
    BY <1>1 DEF ChunkSize, MaxFetched, ChunksArePages
  <1>3. \A c : RegionAt(c)' = RegionAt(c)
    BY <1>1 DEF RegionAt
  <1>4. \A c : region_description(c)' = region_description(c)
    BY <1>2, <1>3 DEF region_description
  <1>5. \A c : Start(c)' = Start(c) /\ End(c)' = End(c) /\ Span(c)' = Span(c)
    BY <1>4 DEF Start, End, Span
  <1>6. Position' = Position
    BY <1>1, <1>3 DEF Position
  <1>7. ListedRegions' = ListedRegions
    BY <1>1 DEF ListedRegions
  <1>8. \A r : PiecesOf(r)' = PiecesOf(r)
    BY DEF PiecesOf
  <1>9. Pieces' = Pieces
    BY <1>7, <1>8 DEF Pieces
  <1>10. \A p : Kept(p)' = Kept(p) /\ NotTruncated(p)' = NotTruncated(p)
    BY <1>2 DEF Kept, NotTruncated
  <1>11. \A a : Readable(a)' = Readable(a) /\ RegionOf(a)' = RegionOf(a)
    BY <1>7 DEF Readable, RegionOf
  <1>12. \A r, a : ByteOf(r, a)' = ByteOf(r, a)
    BY DEF ByteOf, Private
  <1> QED
    BY <1>1, <1>2, <1>4, <1>5, <1>6, <1>7, <1>9, <1>10, <1>11, <1>12

\* A listing that is placed stays so: it goes to the line of what it gave.
LEMMA StaysPlaced ==
    ASSUME process \in Processes, PositionKept, FromLine \in Nat, Placed,
           process' = process, Advance, NextRegion # <<>>
    PROVE  Placed' /\ FromLine' = NextRegion[1].line
  <1>1. NextRegion = <<NextRegion[1]>> /\ NextRegion[1].line \in Nat \ {0}
    BY NextIsPosition, ProcessFacts DEF Position
  <1>2. current' = NextRegion
    BY DEF Advance
  <1>3. FromLine' = NextRegion[1].line
    <2>1. CASE ~ IsLinux
      BY <1>1, <1>2, <2>1, SameProcess DEF FromLine
    <2>2. CASE IsLinux /\ ~ update_to_next_chunk(current)
      BY <1>1, <1>2, <2>2, SameProcess DEF FromLine, Advance
    <2>3. CASE IsLinux /\ update_to_next_chunk(current)
      <3>1. current # <<>> /\ current[1].line = FromLine /\ current[1] \in Position
        BY <2>3 DEF Placed, Located, HalfWay, update_to_next_chunk, PositionKept
      <3>2. NextRegion[1] = [current[1] EXCEPT !.offset = @ + process.chunk]
        BY <2>3 DEF NextRegion, NextPosition
      <3>3. NextRegion[1].line = FromLine
        BY <3>1, <3>2 DEF Position
      <3> QED
        BY <2>3, <3>3, SameProcess DEF FromLine, Advance
    <2> QED
      BY <2>1, <2>2, <2>3
  <1> QED
    BY <1>1, <1>2, <1>3 DEF Placed, Located, HalfWay

\* One that goes on half-way reads no line until it has ended the region.
LEMMA StaysLocated ==
    ASSUME process \in Processes, PositionKept, HalfWay, process' = process, Advance
    PROVE  FromLine' = 0 /\ Located'
  <1>1. IsLinux
    BY ProcessFacts DEF HalfWay, FromLine, update_to_next_chunk, PositionKept, Position
  <1>2. maps_line' = 0
    BY <1>1 DEF HalfWay, FromLine, Advance
  <1> QED
    BY <1>1, <1>2, SameProcess DEF FromLine, Located

\* The listing after next: the position it gave is current, and passed.
LEMMA Advanced ==
    ASSUME process \in Processes, PositionKept, FromLine \in Nat,
           IsLinux => maps_line \in Nat,
           process' = process, Advance
    PROVE  /\ PositionKept'
           /\ current' = NextRegion
           /\ NextRegion # <<>> => (IsLinux => maps_line \in Nat)'
           /\ NextRegion # <<>> /\ ChunksArePages /\ Placed =>
                 /\ Placed'
                 /\ \A d \in Position : Past(d)' <=> Past(d) \/ d = NextRegion[1]
  <1>1. current' = NextRegion
    BY DEF Advance
  <1>2. PositionKept'
    BY <1>1, NextIsPosition, SameProcess DEF PositionKept
  <1>3. NextRegion # <<>> => /\ NextRegion = <<NextRegion[1]>>
                             /\ NextRegion[1] \in Position
                             /\ NextRegion[1].line \in Nat \ {0}
                             /\ NextRegion[1].offset \in Nat
    BY NextIsPosition, ProcessFacts DEF Position
  <1>4. NextRegion # <<>> => (IsLinux => maps_line \in Nat)'
    BY <1>3, SameProcess DEF Advance
  <1>5. ASSUME NextRegion # <<>>, ChunksArePages, Placed
        PROVE  /\ Placed'
               /\ \A d \in Position : Past(d)' <=> Past(d) \/ d = NextRegion[1]
    <2> DEFINE n == NextRegion[1]
    <2>1. current' = <<n>> /\ current' # <<>> /\ current'[1] = n
      BY <1>1, <1>3, <1>5
    <2>2. FromLine' = n.line /\ Placed'
      BY <1>5, StaysPlaced
    <2>3. ASSUME NEW d \in Position
          PROVE  Past(d)' <=> Past(d) \/ d = n
      <3>1. d.line \in Nat /\ d.offset \in Nat
        BY ProcessFacts DEF Position
      <3>2. Past(d)' <=> Earlier(d, n) \/ (d.line = n.line /\ d.offset = n.offset)
        BY <1>3, <1>5, <2>1, <2>2, <3>1 DEF Past, Earlier
      <3>3. d.line = n.line /\ d.offset = n.offset <=> d = n
        BY <1>3, <1>5, <1>5, PositionFacts
      <3>4. /\ Past(d) => Earlier(d, n)
            /\ Past(d) \/ d = n \/ Earlier(n, d)
        BY <1>5, NextIsNext
      <3>5. ~ (Earlier(n, d) /\ (Earlier(d, n) \/ d = n))
        BY <1>3, <1>5, <3>1 DEF Earlier
      <3> HIDE DEF n
      <3> QED
        BY <3>2, <3>3, <3>4, <3>5
    <2> QED
      BY <2>2, <2>3
  <1> QED
    BY <1>1, <1>2, <1>4, <1>5

-----------------------------------------------------------------------------
(* The invariant: five named parts. *)

Types ==
    /\ process \in Processes
    /\ pc \in {"scan", "idle", "reading", "some", "none", "panic"}
    /\ pc \in {"scan", "reading"} => maps_line \in Nat
    /\ scanned \in Seq(Fragments) /\ slices \in Seq(Fragments)
    /\ read \in [kind : {"none", "integer", "range"}, start : Nat, end : Nat, from : Nat,
                resumes : Nat]
    /\ reads \in Nat

\* Where the listing is. The search starts from nothing and leaves nothing; a read
\* whose listing starts over has a place in it.
Listing ==
    /\ PositionKept
    /\ pc = "scan" => reads = 0 /\ slices = <<>> /\ Placed
    /\ reads = 0 => read.kind = "none" /\ (pc # "scan" => current = <<>>)
    /\ pc = "reading" => /\ process.can_refetch /\ read.start < read.end
                         /\ read.kind # "none"
                         /\ Located /\ (StartsOver => Placed)

\* The bytes come from where they should.
Genuine(f) == \A a \in DOMAIN f : f[a] = ByteOf(RegionOf(a), a)
Origin ==
    ChunksArePages =>
        /\ \A i \in DOMAIN scanned : Genuine(scanned[i])
        /\ \A i \in DOMAIN slices : Genuine(slices[i])

\* The search has been given what the listing has passed, and nothing else.
Search ==
    /\ EveryByteOnceInOrder
    /\ ChunksArePages /\ pc = "scan" =>
          /\ Ordered(scanned)
          /\ \A d \in Position :
                Past(d) => {a \in Kept(Span(d)) : Readable(a)} \subseteq BytesOf(scanned)
          /\ \A b \in BytesOf(scanned) : \E d \in Position : Past(d) /\ b \in Kept(Span(d))

\* A read has passed nothing that it wants, or all of it until now; where its listing
\* goes on half-way, what is next is not after an integer that is not lost.
Untruncated == \A piece \in Pieces : NotTruncated(piece)
NotLost == HalfWay /\ read.start >= read.resumes => Start(NextRegion[1]) <= read.start
Progress ==
    /\ IntegerIsExact /\ RangeIsExact
    /\ pc = "reading" /\ ChunksArePages /\ read.kind = "integer" =>
          /\ slices = <<>> /\ NotLost
          /\ \A d \in Position : Past(d) => End(d) <= read.start
    /\ pc = "reading" /\ ChunksArePages /\ StartsOver =>
          /\ read.kind = "range" /\ Untruncated =>
                /\ \A d \in Position : Past(d) => End(d) <= read.from
                /\ slices = <<>> => read.from = read.start
                /\ slices # <<>> =>
                      /\ read.start < read.from
                      /\ \E d \in Position : Past(d) /\ End(d) = read.from
                /\ read.from < read.end
                /\ read.start .. (read.from - 1) \subseteq UNION Pieces
                /\ BytesOf(slices) = read.start .. (read.from - 1)
                /\ Ordered(slices)

IInv == Types /\ Listing /\ Origin /\ Search /\ Progress
-----------------------------------------------------------------------------
(* Fragments that are added. *)

LEMMA OneMore ==
    ASSUME NEW s \in Seq(Fragments), NEW f \in Fragments
    PROVE  /\ s \o <<f>> = Append(s, f)
           /\ Append(s, f) \in Seq(Fragments) /\ Append(s, f) # <<>>
           /\ \A i \in DOMAIN Append(s, f) :
                 \/ Append(s, f)[i] = f
                 \/ i \in DOMAIN s /\ Append(s, f)[i] = s[i]
           /\ BytesOf(Append(s, f)) = BytesOf(s) \cup DOMAIN f
           /\ Ordered(s) /\ (\A b \in BytesOf(s), a \in DOMAIN f : b < a) => Ordered(Append(s, f))
  <1>1. s \o <<f>> = Append(s, f) /\ Append(s, f) \in Seq(Fragments) /\ Append(s, f) # <<>>
    OBVIOUS
  <1>2. /\ DOMAIN s = 1 .. Len(s) /\ DOMAIN Append(s, f) = 1 .. (Len(s) + 1) /\ Len(s) \in Nat
        /\ \A i \in 1 .. Len(s) : Append(s, f)[i] = s[i]
        /\ Append(s, f)[Len(s) + 1] = f
    OBVIOUS
  <1>3. \A i \in 1 .. (Len(s) + 1) : i = Len(s) + 1 \/ i \in 1 .. Len(s)
    BY <1>2
  <1>4. \A i \in DOMAIN Append(s, f) :
            \/ Append(s, f)[i] = f
            \/ i \in DOMAIN s /\ Append(s, f)[i] = s[i]
    BY <1>2, <1>3
  <1>5. BytesOf(Append(s, f)) = BytesOf(s) \cup DOMAIN f
    <2>1. ASSUME NEW b \in BytesOf(Append(s, f))
          PROVE  b \in BytesOf(s) \cup DOMAIN f
      BY <1>4 DEF BytesOf
    <2>2. ASSUME NEW b \in BytesOf(s)
          PROVE  b \in BytesOf(Append(s, f))
      <3>1. PICK i \in DOMAIN s : b \in DOMAIN s[i]
        BY DEF BytesOf
      <3>2. i \in DOMAIN Append(s, f) /\ Append(s, f)[i] = s[i]
        BY <1>2
      <3> QED
        BY <3>1, <3>2 DEF BytesOf
    <2>3. DOMAIN f \subseteq BytesOf(Append(s, f))
      <3>1. Len(s) + 1 \in DOMAIN Append(s, f)
        BY <1>2
      <3> QED
        BY <1>2, <3>1 DEF BytesOf
    <2> QED
      BY <2>1, <2>2, <2>3
  <1>6. ASSUME Ordered(s), \A b \in BytesOf(s), a \in DOMAIN f : b < a
        PROVE  Ordered(Append(s, f))
    <2> SUFFICES ASSUME NEW i \in DOMAIN Append(s, f), NEW j \in DOMAIN Append(s, f), i < j,
                        NEW a \in DOMAIN Append(s, f)[i], NEW b \in DOMAIN Append(s, f)[j]
                 PROVE  a < b
      BY DEF Ordered
    <2>1. i \in DOMAIN s /\ Append(s, f)[i] = s[i]
      BY <1>2, <1>3
    <2>2. CASE j \in DOMAIN s
      BY <1>2, <1>6, <2>1, <2>2 DEF Ordered
    <2>3. CASE j = Len(s) + 1
      BY <1>2, <1>6, <2>1, <2>3 DEF BytesOf
    <2> QED
      BY <1>2, <1>3, <2>2, <2>3
  <1> QED
    BY <1>1, <1>4, <1>5, <1>6

LEMMA BytesOfOne ==
    ASSUME NEW f
    PROVE  /\ BytesOf(<<f>>) = DOMAIN f
           /\ f \in Fragments => <<f>> \in Seq(Fragments)
  <1>1. DOMAIN <<f>> = {1} /\ <<f>>[1] = f
    OBVIOUS
  <1>2. \A b : b \in BytesOf(<<f>>) <=> \E i \in DOMAIN <<f>> : b \in DOMAIN <<f>>[i]
    BY DEF BytesOf
  <1>3. \A b : b \in BytesOf(<<f>>) <=> b \in DOMAIN f
    BY <1>1, <1>2
  <1>4. f \in Fragments => <<f>> \in Seq(Fragments)
    OBVIOUS
  <1> QED
    BY <1>3, <1>4

\* A part of what was fetched.
LEMMA PartOfFetched ==
    ASSUME process \in Processes, NEW c \in Position,
           Fetched(c) # <<>>, NEW s \in Nat, NEW e \in Nat, Covers(Fetched(c)[1], s, e)
    PROVE  /\ Between(Fetched(c)[1], s, e) \in Fragments
           /\ DOMAIN Between(Fetched(c)[1], s, e) = s .. (e - 1)
           /\ ChunksArePages => Genuine(Between(Fetched(c)[1], s, e))
  <1> DEFINE f == Fetched(c)[1]
             g == Between(f, s, e)
  <1>1. f \in Fragments /\ s .. (e - 1) \subseteq DOMAIN f
    BY FetchedType DEF Covers
  <1>2. PICK d \in SUBSET Int : f \in [d -> Origins]
    BY <1>1 DEF Fragments
  <1>3. g = [a \in s .. (e - 1) |-> f[a]]
    BY DEF Between
  <1> HIDE DEF f, g
  <1>4. g \in [s .. (e - 1) -> Origins]
    BY <1>1, <1>2, <1>3
  <1>5. g \in Fragments /\ DOMAIN g = s .. (e - 1)
    BY <1>3, <1>4 DEF Fragments
  <1>6. ASSUME ChunksArePages
        PROVE  Genuine(g)
    <2>1. f = FetchedOf(c)
      BY <1>6, FetchedIs DEF f
    <2>2. \A a \in Kept(Span(c)) : f[a] = ByteOf(RegionOf(a), a)
      BY <1>6, <2>1, KeptOfSpan, SpanInRegion DEF FetchedOf
    <2> QED
      BY <1>1, <1>3, <2>1, <2>2 DEF Genuine, FetchedOf
  <1> QED
    BY <1>5, <1>6 DEF f, g

LEMMA FetchedIsGenuine ==
    ASSUME process \in Processes, ChunksArePages, NEW c \in Position
    PROVE  Genuine(FetchedOf(c)) /\ DOMAIN FetchedOf(c) = Kept(Span(c))
  BY KeptOfSpan, SpanInRegion DEF FetchedOf, Genuine

LEMMA SameGenuine ==
    ASSUME process' = process
    PROVE  \A f : Genuine(f)' <=> Genuine(f)
  BY SameProcess DEF Genuine

\* After the search, nothing is added to it.
LEMMA SearchStays ==
    ASSUME Search, pc # "scan", pc' # "scan", UNCHANGED <<process, scanned>>
    PROVE  Search'
  BY SameProcess DEF Search, EveryByteOnceInOrder, BytesOf, Ordered

LEMMA LineIsKnown ==
    ASSUME Types, Listing, pc \in {"scan", "reading"}
    PROVE  process \in Processes /\ PositionKept /\ FromLine \in Nat
           /\ (IsLinux => maps_line \in Nat)
  <1>1. current # <<>> => current[1].line \in Nat
    BY ProcessFacts DEF Types, Listing, PositionKept, Position
  <1> QED
    BY <1>1 DEF Types, Listing, FromLine

-----------------------------------------------------------------------------
(* The initial states, and the search. *)

\* A listing that starts from nothing has passed nothing.
LEMMA FromNothing ==
    ASSUME process \in Processes, FromLine = 0, NEW d \in Position
    PROVE  ~ Past(d)
  BY ProcessFacts DEF Past, Position

LEMMA InitInv == Init => IInv
  <1> SUFFICES ASSUME Init
               PROVE  IInv
    OBVIOUS
  <1> USE DEF Init
  <1>1. Types
    BY DEF Types
  <1>2. FromLine = 0 /\ ~ update_to_next_chunk(current)
    BY DEF FromLine, update_to_next_chunk
  <1>3. Listing
    BY <1>2 DEF Listing, PositionKept, Placed, Located, HalfWay
  <1>4. Origin
    BY DEF Origin
  <1>5. Search
    BY <1>2, FromNothing DEF Search, EveryByteOnceInOrder, Ordered, BytesOf
  <1>6. Progress
    BY DEF Progress, IntegerIsExact, RangeIsExact
  <1> QED
    BY <1>1, <1>3, <1>4, <1>5, <1>6 DEF IInv

LEMMA ScanKeeps == IInv /\ ScanRegion => IInv'
  <1> SUFFICES ASSUME IInv, ScanRegion
               PROVE  IInv'
    OBVIOUS
  <1> DEFINE n == NextRegion[1]
             f == FetchedOf(n)
  <1>0. Types /\ Listing /\ Origin /\ Search /\ Progress
    BY DEF IInv
  <1>1. /\ pc = "scan" /\ pc' = "scan" /\ NextRegion # <<>> /\ Advance
        /\ scanned' = scanned \o Fetched(n)
        /\ process' = process /\ UNCHANGED <<read, slices, reads>>
    BY DEF ScanRegion
  <1>2. /\ process \in Processes /\ PositionKept /\ FromLine \in Nat
        /\ IsLinux => maps_line \in Nat
        /\ Placed /\ maps_line \in Nat
    BY <1>0, <1>1, LineIsKnown DEF Types, Listing
  <1>3. n \in Position
    BY <1>1, <1>2, NextIsPosition
  <1>4. \/ Fetched(n) = <<>> /\ scanned' = scanned
        \/ \E g \in Fragments : Fetched(n) = <<g>> /\ scanned' = Append(scanned, g)
    <2>1. CASE Fetched(n) = <<>>
      BY <1>0, <1>1, <2>1 DEF Types
    <2>2. CASE \E g \in Fragments : Fetched(n) = <<g>>
      BY <1>0, <1>1, <2>2, OneMore DEF Types
    <2> QED
      BY <1>2, <1>3, <2>1, <2>2, FetchedType
  <1>5. ChunksArePages =>
           \/ Fetched(n) = <<>> /\ scanned' = scanned
           \/ Fetched(n) = <<f>> /\ scanned' = Append(scanned, f) /\ f \in Fragments
    <2>1. ChunksArePages => Fetched(n) = <<>> \/ Fetched(n) = <<f>>
      BY <1>2, <1>3, FetchedIs
    <2> HIDE DEF n, f
    <2>2. CASE Fetched(n) = <<>> /\ scanned' = scanned
      BY <2>2
    <2>3. ASSUME NEW g \in Fragments, Fetched(n) = <<g>>, scanned' = Append(scanned, g),
                 ChunksArePages
          PROVE  Fetched(n) = <<f>> /\ scanned' = Append(scanned, f) /\ f \in Fragments
      <3>1. <<g>> # <<>> /\ <<g>>[1] = g /\ <<f>>[1] = f
        OBVIOUS
      <3>2. Fetched(n) = <<f>>
        BY <2>1, <2>3, <3>1
      <3>3. f = g
        BY <2>3, <3>1, <3>2
      <3> QED
        BY <2>3, <3>3
    <2> QED
      BY <1>4, <2>2, <2>3
  <1>6. PositionKept' /\ current' = NextRegion /\ (IsLinux => maps_line \in Nat)'
    BY <1>1, <1>2, Advanced
  <1>7. Placed'
    BY <1>1, <1>2, StaysPlaced
  <1>8. Types'
    <2>1. scanned' \in Seq(Fragments)
      <3>1. scanned \in Seq(Fragments)
        BY <1>0 DEF Types
      <3> HIDE DEF f, n
      <3> QED
        BY <3>1, <1>4, OneMore
    <2>2. maps_line' \in Nat
      BY <1>1, <1>2, <1>3, ProcessFacts DEF Advance, Position
    <2> QED
      BY <2>1, <2>2, <1>0, <1>1 DEF Types
  <1>9. Listing'
    BY <1>0, <1>1, <1>6, <1>7 DEF Listing
  <1>10. Origin'
    <2>1. ASSUME ChunksArePages
          PROVE  \A i \in DOMAIN scanned' : Genuine(scanned'[i])
      <3>1. /\ scanned \in Seq(Fragments)
            /\ \A i \in DOMAIN scanned : Genuine(scanned[i])
            /\ Genuine(f)
        BY <1>0, <1>2, <1>3, <2>1, FetchedIsGenuine DEF Types, Origin
      <3> HIDE DEF f, n
      <3> QED
        BY <1>5, <2>1, <3>1, OneMore
    <2> QED
      BY <2>1, <1>0, <1>1, SameProcess, SameGenuine DEF Origin
  <1>11. Search'
    <2> SUFFICES ASSUME ChunksArePages
                 PROVE  /\ Ordered(scanned')
                        /\ \A d \in Position :
                              Past(d)' => {a \in Kept(Span(d)) : Readable(a)} \subseteq BytesOf(scanned')
                        /\ \A b \in BytesOf(scanned') :
                              \E d \in Position : Past(d)' /\ b \in Kept(Span(d))
      <3>1. EveryByteOnceInOrder'
        BY <1>1 DEF EveryByteOnceInOrder
      <3>2. Ordered(scanned)' = Ordered(scanned') /\ BytesOf(scanned)' = BytesOf(scanned')
        BY DEF Ordered, BytesOf
      <3> HIDE DEF n, f
      <3> QED
        BY <1>1, <3>1, <3>2, SameProcess DEF Search
    <2>1. \A d \in Position : Past(d)' <=> Past(d) \/ d = n
      BY <1>1, <1>2, Advanced
    <2>2. /\ Ordered(scanned)
          /\ \A d \in Position :
                Past(d) => {a \in Kept(Span(d)) : Readable(a)} \subseteq BytesOf(scanned)
          /\ \A b \in BytesOf(scanned) : \E d \in Position : Past(d) /\ b \in Kept(Span(d))
      BY <1>0, <1>1 DEF Search
    <2>3. CASE Fetched(n) = <<>>
      <3>1. {a \in Kept(Span(n)) : Readable(a)} = {}
        BY <1>2, <1>3, <2>3, KeptOfSpan, FetchedWhenReadable
      <3>2. scanned' = scanned
        BY <1>5, <2>3
      <3> QED
        BY <2>1, <2>2, <3>1, <3>2
    <2>4. CASE Fetched(n) # <<>>
      <3>1. scanned' = Append(scanned, f) /\ f \in Fragments /\ DOMAIN f = Kept(Span(n))
        BY <1>2, <1>3, <1>5, <2>4, FetchedIsGenuine
      <3>2. BytesOf(scanned') = BytesOf(scanned) \cup Kept(Span(n))
        BY <3>1, <1>0, OneMore DEF Types
      <3>3. ASSUME NEW b \in BytesOf(scanned), NEW a \in Kept(Span(n))
            PROVE  b < a
        <4>1. PICK d \in Position : Past(d) /\ b \in Kept(Span(d))
          BY <2>2
        <4>2. End(d) <= Start(n)
          BY <4>1, <1>1, <1>2, <1>3, NextIsNext, SpansApart
        <4>3. b \in Span(d) /\ a \in Span(n)
          BY <4>1, <1>2, <1>3, KeptOfSpan
        <4> QED
          BY <4>2, <4>3, <1>2, <1>3, PositionFacts DEF Span
      <3>4. Ordered(scanned')
        BY <1>0, <2>2, <3>1, <3>3, OneMore DEF Types
      <3> HIDE DEF n
      <3>5. ASSUME NEW d \in Position, Past(d)'
            PROVE  {a \in Kept(Span(d)) : Readable(a)} \subseteq BytesOf(scanned')
        BY <2>1, <2>2, <3>2, <3>5
      <3>6. ASSUME NEW b \in BytesOf(scanned')
            PROVE  \E d \in Position : Past(d)' /\ b \in Kept(Span(d))
        BY <1>3, <2>1, <2>2, <3>2, <3>6
      <3> QED
        BY <3>4, <3>5, <3>6
    <2> QED
      BY <2>3, <2>4
  <1>12. Progress'
    <2>1. read.kind' = read.kind
      BY <1>1
    <2> QED
      BY <1>0, <1>1 DEF Progress, IntegerIsExact, RangeIsExact, Listing
  <1> QED
    BY <1>8, <1>9, <1>10, <1>11, <1>12 DEF IInv

LEMMA ScanEndKeeps == IInv /\ ScanEnds => IInv'
  <1> SUFFICES ASSUME IInv, ScanEnds
               PROVE  IInv'
    OBVIOUS
  <1>0. Types /\ Listing /\ Origin /\ Search /\ Progress
    BY DEF IInv
  <1>1. /\ pc = "scan" /\ pc' = "idle" /\ NextRegion = <<>> /\ Advance
        /\ process' = process /\ UNCHANGED <<scanned, read, slices, reads>>
    BY DEF ScanEnds
  <1>2. /\ process \in Processes /\ PositionKept /\ FromLine \in Nat
        /\ IsLinux => maps_line \in Nat
        /\ Placed
    BY <1>0, <1>1, LineIsKnown DEF Types, Listing
  <1>3. Types'
    BY <1>0, <1>1 DEF Types
  <1>4. Listing'
    <2>1. current' = <<>>
      BY <1>1 DEF Advance
    <2> QED
      BY <1>0, <1>1, <2>1 DEF Listing, PositionKept
  <1>5. Origin'
    BY <1>0, <1>1, SameProcess, SameGenuine DEF Origin
  <1>6. Search'
    <2> SUFFICES ASSUME ChunksArePages
                 PROVE  /\ Ordered(scanned)
                        /\ \A piece \in Pieces :
                               {a \in Kept(piece) : Readable(a)} \subseteq BytesOf(scanned)
                        /\ BytesOf(scanned) \subseteq UNION {Kept(piece) : piece \in Pieces}
      <3>1. Ordered(scanned)' = Ordered(scanned) /\ BytesOf(scanned)' = BytesOf(scanned)
        BY <1>1 DEF Ordered, BytesOf
      <3> QED
        BY <1>1, <3>1, SameProcess DEF Search, EveryByteOnceInOrder
    <2>1. /\ Ordered(scanned)
          /\ \A d \in Position :
                Past(d) => {a \in Kept(Span(d)) : Readable(a)} \subseteq BytesOf(scanned)
          /\ \A b \in BytesOf(scanned) : \E d \in Position : Past(d) /\ b \in Kept(Span(d))
      BY <1>0, <1>1 DEF Search
    <2>2. \A d \in Position : Past(d)
      BY <1>1, <1>2, NothingAfterTheEnd
    <2>3. Pieces = {Span(d) : d \in Position}
      BY <1>2, PiecesAreSpans
    <2> QED
      BY <2>1, <2>2, <2>3
  <1>7. Progress'
    BY <1>0, <1>1 DEF Progress, IntegerIsExact, RangeIsExact, Listing
  <1> QED
    BY <1>3, <1>4, <1>5, <1>6, <1>7 DEF IInv

-----------------------------------------------------------------------------
(* The reads. *)

LEMMA StartKeeps == IInv /\ StartRead => IInv'
  <1> SUFFICES ASSUME IInv, StartRead
               PROVE  IInv'
    OBVIOUS
  <1>0. Types /\ Listing /\ Origin /\ Search /\ Progress
    BY DEF IInv
  <1>1. PICK r \in Reads :
            read' = [kind |-> r.kind, start |-> r.start, end |-> r.end, from |-> r.start,
                     resumes |-> ResumesAt]
    BY DEF StartRead
  <1>2. /\ pc \in {"idle", "some", "none"} /\ pc' \in {"reading", "none"}
        /\ pc' = "reading" => reset /\ process.can_refetch
        /\ pc' = "none" => ~ process.can_refetch /\ UNCHANGED <<maps_line, current>>
        /\ reads' = reads + 1 /\ slices' = <<>>
        /\ process' = process /\ scanned' = scanned
        /\ process \in Processes
    BY <1>0, ProcessesAssumption DEF StartRead, Types
  <1>3. r.kind \in {"integer", "range"} /\ r.start \in Nat /\ r.end \in Nat /\ r.start < r.end
    BY ReadsAssumption
  <1>4. Types'
    <2>1. ResumesAt \in Nat
      <3>1. CASE update_to_next_chunk(current)
        <4>1. current[1] \in Position /\ process.chunk \in Nat
          BY <1>0, <1>2, <3>1, ProcessFacts DEF Listing, PositionKept, update_to_next_chunk
        <4>2. RegionAt(current[1]).start \in Nat /\ current[1].offset \in Nat
          BY <1>2, <4>1, RegionFacts DEF Position, RegionAt
        <4> QED
          BY <4>1, <4>2 DEF ResumesAt
      <3>2. CASE ~ update_to_next_chunk(current)
        BY <3>2 DEF ResumesAt
      <3> QED
        BY <3>1, <3>2
    <2> QED
      BY <1>0, <1>1, <1>2, <1>3, <2>1 DEF Types, reset
  <1>5. PositionKept'
    BY <1>0, <1>2, SameProcess DEF Listing, PositionKept, reset, ForgottenBy
  <1>5a. pc' = "reading" => FromLine' = 0 /\ Located'
    BY <1>2, SameProcess DEF reset, ForgottenBy, FromLine, Located
  <1>5b. pc' = "reading" => NotLost'
    <2> SUFFICES ASSUME pc' = "reading", HalfWay', (read.start >= read.resumes)'
                 PROVE  (Start(NextRegion[1]) <= read.start)'
      BY DEF NotLost
    <2> DEFINE c == current[1]
               d == [c EXCEPT !.offset = @ + process.chunk]
    <2>1. current' = current /\ current # <<>> /\ ForgottenBy(current) = current
      BY <1>2, SameProcess DEF reset, ForgottenBy, HalfWay, update_to_next_chunk
    <2>2. update_to_next_chunk(current) /\ NextRegion' = <<d>>
      BY <1>2, <2>1, SameProcess
      DEF HalfWay, update_to_next_chunk, NextRegion, NextPosition, RegionAt
    <2>3. c \in Position /\ process.chunk \in Nat
      BY <1>0, <1>2, <2>1, ProcessFacts DEF Listing, PositionKept
    <2>4. d.line = c.line /\ d.offset = c.offset + process.chunk
      BY <2>3 DEF Position
    <2>5. Start(d) = RegionAt(c).start + (c.offset + process.chunk)
      BY <2>4 DEF Start, region_description, RegionAt
    <2>6. RegionAt(c).start \in Nat /\ c.offset \in Nat
      BY <1>2, <2>3, RegionFacts DEF Position, RegionAt
    <2>7. Start(d) = ResumesAt
      BY <2>1, <2>2, <2>3, <2>5, <2>6 DEF ResumesAt
    <2>8. Start(NextRegion[1])' = Start(d)
      <3> HIDE DEF d
      <3>1. NextRegion'[1] = d
        BY <2>2
      <3>2. \A i : i = d => Start(i)' = Start(d)
        BY <1>2, SameProcess
      <3> QED
        BY <3>1, <3>2
    <2> HIDE DEF d
    <2> QED
      BY <1>1, <2>7, <2>8
  <1>6. pc' = "reading" /\ StartsOver' => FromLine' = 0 /\ Placed'
    <2> SUFFICES ASSUME pc' = "reading", StartsOver'
                 PROVE  FromLine' = 0 /\ Placed'
      OBVIOUS
    <2>1. CASE ~ IsLinux
      BY <1>2, <2>1, SameProcess
      DEF reset, ForgottenBy, FromLine, Placed, Located, HalfWay, update_to_next_chunk
    <2>2. CASE IsLinux
      <3>1. process.chunk = 0 \/ reads = 0
        BY <1>0, <1>2, <2>2, SameProcess DEF StartsOver, Types
      <3>2. process.chunk = 0 \/ current' = <<>>
        BY <1>0, <1>2, <2>2, <3>1 DEF Listing, reset, ForgottenBy
      <3>3. FromLine' = 0
        BY <1>2, <2>2, SameProcess DEF FromLine, reset
      <3> QED
        BY <1>2, <3>2, <3>3 DEF Placed, Located, HalfWay, update_to_next_chunk
    <2> QED
      BY <2>1, <2>2
  <1>7. Listing'
    BY <1>0, <1>1, <1>2, <1>3, <1>5, <1>6, <1>5a DEF Listing, Types
  <1>8. Origin'
    <2>1. DOMAIN slices' = {} /\ ChunksArePages' = ChunksArePages
      BY <1>2, SameProcess
    <2>2. \A f : Genuine(f)' <=> Genuine(f)
      BY <1>2, SameGenuine
    <2> QED
      BY <1>0, <1>2, <2>1, <2>2 DEF Origin
  <1>9. Search'
    BY <1>0, <1>2, SearchStays
  <1>10. Progress'
    <2>1. IntegerIsExact' /\ RangeIsExact'
      BY <1>2 DEF IntegerIsExact, RangeIsExact
    <2>2. ASSUME pc' = "reading", NEW d \in Position
          PROVE  ~ Past(d)'
      BY <1>2, <1>5a, <2>2, ProcessFacts DEF Past, Position
    <2>3. BytesOf(slices)' = {} /\ Ordered(slices)'
      BY <1>2 DEF BytesOf, Ordered
    <2>4. read'.start .. (read'.from - 1) = {} /\ read'.from < read'.end
          /\ read'.from = read'.start
      BY <1>1, <1>3
    <2> QED
      BY <1>2, <1>5b, <2>1, <2>2, <2>3, <2>4, SameProcess DEF Progress
  <1> QED
    BY <1>4, <1>7, <1>8, <1>9, <1>10 DEF IInv

\* What is common to the steps of both loops: the next position, and what is kept
\* whatever the step makes of it.
LEMMA ReadStep ==
    ASSUME IInv, pc = "reading", pc' \in {"reading", "some", "none", "panic"},
           pc' = "reading" => NextRegion # <<>>,
           Advance, UNCHANGED <<process, scanned, reads>>,
           read' \in [kind : {"integer", "range"}, start : Nat, end : Nat, from : Nat,
                      resumes : Nat],
           read'.start < read'.end, slices' \in Seq(Fragments)
    PROVE  /\ Types' /\ Listing' /\ Search'
           /\ process \in Processes /\ PositionKept /\ FromLine \in Nat
           /\ process.can_refetch
           /\ Located /\ (StartsOver => Placed)
           /\ NextRegion # <<>> => NextRegion[1] \in Position
           /\ Pieces = {Span(d) : d \in Position} \/ ~ ChunksArePages
           /\ StartsOver' = StartsOver
           /\ NextRegion # <<>> /\ ChunksArePages /\ Placed =>
                 \A d \in Position : Past(d)' <=> Past(d) \/ d = NextRegion[1]
  <1>0. Types /\ Listing /\ Origin /\ Search /\ Progress
    BY DEF IInv
  <1>1. /\ process \in Processes /\ PositionKept /\ FromLine \in Nat
        /\ IsLinux => maps_line \in Nat
        /\ maps_line \in Nat
        /\ process.can_refetch /\ Located /\ (StartsOver => Placed) /\ reads # 0
        /\ read.kind # "none"
    BY <1>0, LineIsKnown DEF Types, Listing
  <1>2. NextRegion # <<>> => NextRegion[1] \in Position
    BY <1>1, NextIsPosition
  <1>3. StartsOver' = StartsOver
    BY SameProcess DEF StartsOver
  <1>4. PositionKept'
    BY <1>1, Advanced
  <1>5. pc' = "reading" => maps_line' \in Nat
    BY <1>1, <1>2, ProcessFacts DEF Advance, Position
  <1>6. pc' = "reading" => Located' /\ (StartsOver => Placed')
    BY <1>1, StaysPlaced, StaysLocated DEF Placed
  <1>7. Types'
    BY <1>0, <1>5 DEF Types
  <1>8. Listing'
    BY <1>0, <1>1, <1>3, <1>4, <1>6 DEF Listing
  <1>9. Search'
    BY <1>0, SearchStays
  <1>10. NextRegion # <<>> /\ ChunksArePages /\ Placed =>
            \A d \in Position : Past(d)' <=> Past(d) \/ d = NextRegion[1]
    BY <1>1, Advanced
  <1>11. Pieces = {Span(d) : d \in Position} \/ ~ ChunksArePages
    BY <1>1, PiecesAreSpans
  <1> QED
    BY <1>1, <1>2, <1>3, <1>7, <1>8, <1>9, <1>10, <1>11

\* The only piece with an address that the listing has not passed, and that what it
\* gives next has.
LEMMA PieceOfNext ==
    ASSUME process \in Processes, ChunksArePages, PositionKept, FromLine \in Nat,
           NextRegion # <<>>, NEW a \in Span(NextRegion[1]), NEW d \in Position, a \in Span(d)
    PROVE  d = NextRegion[1]
  BY NextIsPosition, OneSpan

\* An address before what is given next, and after what is passed, is in no piece.
LEMMA NoPieceBetween ==
    ASSUME process \in Processes, ChunksArePages, PositionKept, Placed, FromLine \in Nat,
           NEW a \in Nat, \A d \in Position : Past(d) => End(d) <= a,
           NextRegion # <<>> => a < Start(NextRegion[1]),
           NEW d \in Position
    PROVE  a \notin Span(d)
  <1>1. CASE Past(d)
    BY <1>1, PositionFacts DEF Span
  <1>2. CASE NextRegion = <<>>
    BY <1>1, <1>2, NothingAfterTheEnd
  <1>3. CASE NextRegion # <<>> /\ ~ Past(d)
    <2> DEFINE n == NextRegion[1]
    <2>1. n \in Position /\ (d = n \/ Earlier(n, d))
      BY <1>3, NextIsPosition, NextIsNext
    <2> HIDE DEF n
    <2>2. Start(n) <= Start(d)
      BY <2>1, SpansApart, PositionFacts
    <2>3. a < Start(n)
      BY <1>3 DEF n
    <2> QED
      BY <2>1, <2>2, <2>3, PositionFacts DEF Span
  <1> QED
    BY <1>1, <1>2, <1>3

LEMMA IntegerKeeps == IInv /\ get_contiguous => IInv'
  <1> SUFFICES ASSUME IInv, get_contiguous
               PROVE  IInv'
    OBVIOUS
  <1> DEFINE n == NextRegion[1]
             b == Fetched(n)
             g == Between(b[1], read.start, read.end)
  <1>0. Types /\ Listing /\ Origin /\ Search /\ Progress
    BY DEF IInv
  <1>1. /\ pc = "reading" /\ read.kind = "integer" /\ Advance
        /\ process' = process /\ scanned' = scanned /\ reads' = reads
    BY DEF get_contiguous
  <1>2. read' = read
    BY DEF get_contiguous, Finish
  <1>3. /\ read \in [kind : {"integer", "range"}, start : Nat, end : Nat, from : Nat,
                     resumes : Nat]
        /\ read.start < read.end /\ process.can_refetch
        /\ process \in Processes /\ PositionKept /\ FromLine \in Nat
        /\ Located
        /\ NextRegion # <<>> => n \in Position
    BY <1>0, <1>1, LineIsKnown, NextIsPosition DEF Types, Listing
  <1>4. \/ NextRegion = <<>> /\ pc' = "none" /\ slices' = slices
        \/ NextRegion # <<>> /\ read.start < Start(n) /\ pc' = "none" /\ slices' = slices
        \/ NextRegion # <<>> /\ read.start >= End(n) /\ pc' = "reading" /\ slices' = slices
        \/ /\ NextRegion # <<>> /\ read.start \in Span(n)
           /\ b # <<>> /\ Covers(b[1], read.start, read.end)
           /\ slices' = <<g>> /\ pc' = "some"
        \/ /\ NextRegion # <<>> /\ read.start \in Span(n)
           /\ ~ (b # <<>> /\ Covers(b[1], read.start, read.end))
           /\ slices' = slices /\ pc' = "none"
    <2>1. CASE NextRegion = <<>>
      BY <2>1 DEF get_contiguous, Finish
    <2>2. CASE NextRegion # <<>>
      <3>1. /\ Start(n) \in Nat /\ End(n) \in Nat
            /\ region_description(n).start = Start(n)
            /\ region_description(n).length = End(n) - Start(n)
        BY <1>3, <2>2, PositionNumbers
      <3>2. \/ read.start < region_description(n).start /\ Finish("none")
            \/ /\ read.start >= region_description(n).start + region_description(n).length
               /\ Finish("reading")
            \/ /\ read.start \in region_description(n).start ..
                         (region_description(n).start + region_description(n).length - 1)
               /\ IF b # <<>> /\ Covers(b[1], read.start, read.end)
                  THEN slices' = <<g>> /\ pc' = "some"
                  ELSE Finish("none")
        BY <2>2 DEF get_contiguous
      <3> HIDE DEF n, b, g
      <3> QED
        BY <1>3, <2>2, <3>1, <3>2 DEF Finish, Span
    <2> QED
      BY <2>1, <2>2
  <1>5. ASSUME slices' = <<g>>, NextRegion # <<>>, b # <<>>, Covers(b[1], read.start, read.end)
        PROVE  /\ g \in Fragments /\ DOMAIN g = read.start .. (read.end - 1)
               /\ ChunksArePages => Genuine(g)
    BY <1>3, <1>5, PartOfFetched
  <1> HIDE DEF g
  <1>6. slices' \in Seq(Fragments)
    <2>1. slices \in Seq(Fragments)
      BY <1>0 DEF Types
    <2>2. slices' = slices \/ (slices' = <<g>> /\ g \in Fragments)
      BY <1>4, <1>5
    <2> QED
      BY <2>1, <2>2, BytesOfOne
  <1>7. /\ Types' /\ Listing' /\ Search'
        /\ Pieces = {Span(d) : d \in Position} \/ ~ ChunksArePages
        /\ NextRegion # <<>> /\ ChunksArePages /\ Placed =>
              \A d \in Position : Past(d)' <=> Past(d) \/ d = n
    <2>1. /\ pc' \in {"reading", "some", "none", "panic"}
          /\ pc' = "reading" => NextRegion # <<>>
      BY <1>4
    <2> QED
      BY <1>1, <1>2, <1>3, <1>6, <2>1, ReadStep
  <1>8. Origin'
    <2>1. ASSUME ChunksArePages
          PROVE  \A i \in DOMAIN slices' : Genuine(slices'[i])
      <3>1. \A i \in DOMAIN slices : Genuine(slices[i])
        BY <1>0, <2>1 DEF Origin
      <3>2. slices' = slices \/ (slices' = <<g>> /\ Genuine(g))
        BY <1>4, <1>5, <2>1
      <3> HIDE DEF n, b
      <3> QED
        BY <3>1, <3>2
    <2> QED
      BY <2>1, <1>0, <1>1, SameProcess, SameGenuine DEF Origin
  <1>8a. ASSUME ChunksArePages, pc' = "reading"
         PROVE  NotLost' /\ \A d \in Position : Past(d)' => End(d) <= read.start
    <2>1. /\ NextRegion # <<>> /\ read.start >= End(n)
          /\ \A d \in Position : Past(d) => End(d) <= read.start
      BY <1>0, <1>1, <1>4, <1>8a DEF Progress
    <2>2. CASE Placed
      <3>1. Placed'
        BY <1>1, <1>3, <2>1, <2>2, StaysPlaced
      <3>2. \A d \in Position : Past(d)' => End(d) <= read.start
        BY <1>7, <1>8a, <2>1, <2>2
      <3> QED
        BY <3>1, <3>2 DEF NotLost, Placed
    <2>3. CASE HalfWay
      <3>1. FromLine' = 0
        BY <1>1, <1>3, <2>3, StaysLocated
      <3>2. \A d \in Position : ~ Past(d)'
        BY <1>3, <3>1, ProcessFacts DEF Past, Position
      <3>3. ASSUME HalfWay'
            PROVE  Start(NextRegion[1])' <= read.start
        <4> DEFINE m == [n EXCEPT !.offset = @ + process.chunk]
        <4>1. current' = <<n>>
          BY <1>1, <1>3, <2>1, NextIsPosition DEF Advance
        <4>2. /\ process.chunk # 0 /\ n.offset + process.chunk < RegionAt(n).length
              /\ NextRegion' = <<m>>
          BY <1>1, <3>3, <4>1, SameProcess
          DEF HalfWay, update_to_next_chunk, NextRegion, NextPosition, RegionAt
        <4>3. n \in Position /\ n.offset \in Nat /\ process.chunk \in Nat
          BY <1>3, <1>8a, <2>1, PositionFacts, ProcessFacts
        <4>4. RegionAt(n).start \in Nat /\ RegionAt(n).length \in Nat
          BY <1>3, <4>3, RegionFacts DEF Position, RegionAt
        <4>5. End(n) = RegionAt(n).start + n.offset + process.chunk
          <5>1. /\ Start(n) = RegionAt(n).start + n.offset
                /\ End(n) = Start(n) + Least(RegionAt(n).length - n.offset, process.chunk)
            BY <1>3, <1>8a, <4>2, <4>3, PositionFacts
          <5>2. Least(RegionAt(n).length - n.offset, process.chunk) = process.chunk
            <6> HIDE DEF n
            <6> QED
              BY <4>2, <4>3, <4>4 DEF Least
          <5> HIDE DEF n
          <5> QED
            BY <5>1, <5>2
        <4>6. m.line = n.line /\ m.offset = n.offset + process.chunk
          BY <4>3 DEF Position
        <4>7. Start(m) = RegionAt(n).start + (n.offset + process.chunk)
          BY <4>6 DEF Start, region_description, RegionAt
        <4>8. Start(m) = End(n)
          BY <4>3, <4>4, <4>5, <4>7
        <4>9. \A i : i = m => Start(i)' = Start(m)
          BY <1>1, SameProcess
        <4> HIDE DEF m
        <4>10. NextRegion'[1] = m
          BY <4>2
        <4>11. Start(NextRegion[1])' = Start(m)
          BY <4>9, <4>10
        <4> QED
          BY <2>1, <4>8, <4>11
      <3> QED
        BY <1>2, <3>2, <3>3 DEF NotLost
    <2> QED
      BY <1>3, <2>2, <2>3 DEF Placed
  <1>9. ASSUME ChunksArePages
        PROVE  LET wanted == read.start..(read.end - 1)
                   whole == \E piece \in Pieces : wanted \subseteq Kept(piece)
               IN  /\ pc' = "some" => whole /\ slices' = <<slices'[1]>> /\ BytesOf(slices') = wanted
                   /\ pc' = "none" /\ read.start >= read.resumes =>
                         ~ (whole /\ \A piece \in Pieces :
                                        wanted \subseteq piece => \A a \in piece : Readable(a))
                   /\ pc' = "reading" => slices' = <<>>
    <2> DEFINE wanted == read.start..(read.end - 1)
               whole == \E piece \in Pieces : wanted \subseteq Kept(piece)
    <2>1. /\ slices = <<>> /\ \A d \in Position : Past(d) => End(d) <= read.start
          /\ NotLost /\ Pieces = {Span(d) : d \in Position}
          /\ read.start \in wanted /\ read.start \in Nat /\ read.end \in Nat
      BY <1>0, <1>1, <1>3, <1>7, <1>9 DEF Progress
    <2>2. ASSUME \A d \in Position : read.start \notin Span(d)
          PROVE  ~ whole
      BY <1>3, <1>9, <2>1, <2>2, KeptOfSpan
    <2>3. CASE NextRegion = <<>> \/ read.start < Start(n)
      <3>1. pc' = "none"
        <4>1. NextRegion # <<>> => ~ (read.start \in Span(n)) /\ ~ (read.start >= End(n))
          BY <1>3, <2>1, <2>3, PositionFacts, <1>9 DEF Span
        <4> HIDE DEF n, b
        <4> QED
          BY <1>4, <4>1, <2>3
      <3>2. ASSUME read.start >= read.resumes
            PROVE  \A d \in Position : read.start \notin Span(d)
        <4>1. ~ HalfWay
          <5>1. NextRegion = <<>> => ~ HalfWay
            BY DEF HalfWay, NextRegion, NextPosition
          <5>2. HalfWay => Start(n) <= read.start
            BY <2>1, <3>2 DEF NotLost, n
          <5>3. NextRegion # <<>> => Start(n) \in Nat
            BY <1>3, PositionNumbers
          <5> HIDE DEF n
          <5> QED
            BY <2>1, <2>3, <5>1, <5>2, <5>3
        <4>2. Placed
          BY <1>3, <4>1 DEF Placed
        <4> QED
          BY <1>3, <1>9, <2>1, <2>3, <4>2, NoPieceBetween
      <3> QED
        BY <2>2, <3>1, <3>2
    <2>4. CASE NextRegion # <<>> /\ read.start >= End(n) /\ pc' = "reading" /\ slices' = slices
      BY <2>1, <2>4
    <2>5. CASE /\ NextRegion # <<>> /\ read.start \in Span(n)
               /\ b # <<>> /\ Covers(b[1], read.start, read.end)
               /\ slices' = <<g>> /\ pc' = "some"
      <3>1. b = <<FetchedOf(n)>> /\ DOMAIN FetchedOf(n) = Kept(Span(n))
        BY <1>3, <1>9, <2>5, FetchedIs, FetchedIsGenuine
      <3>2. wanted \subseteq Kept(Span(n))
        BY <2>5, <3>1 DEF Covers
      <3>3. whole
        BY <1>3, <2>1, <2>5, <3>2
      <3>4. BytesOf(slices') = wanted
        BY <1>5, <2>5, BytesOfOne
      <3> QED
        BY <2>5, <3>3, <3>4
    <2>6. CASE /\ NextRegion # <<>> /\ read.start \in Span(n)
               /\ ~ (b # <<>> /\ Covers(b[1], read.start, read.end))
               /\ slices' = slices /\ pc' = "none"
      <3> SUFFICES ASSUME NEW piece \in Pieces, wanted \subseteq Kept(piece),
                          \A p \in Pieces : wanted \subseteq p => \A a \in p : Readable(a)
                   PROVE  FALSE
        BY <2>6
      <3>1. PICK d \in Position : piece = Span(d)
        BY <2>1
      <3>2. wanted \subseteq Span(d)
        BY <1>3, <1>9, <3>1, KeptOfSpan
      <3>3. d = n
        BY <1>3, <1>9, <2>1, <2>6, <3>2, PieceOfNext
      <3>4. Readable(read.start)
        BY <2>1, <3>1, <3>2
      <3>5. b # <<>>
        BY <1>3, <1>9, <2>6, <3>4, FetchedWhenReadable
      <3>6. b = <<FetchedOf(n)>> /\ DOMAIN FetchedOf(n) = Kept(Span(n))
        BY <1>3, <1>9, <2>6, <3>5, FetchedIs, FetchedIsGenuine
      <3>7. Covers(b[1], read.start, read.end)
        BY <3>1, <3>3, <3>6 DEF Covers
      <3> QED
        BY <2>6, <3>5, <3>7
    <2> HIDE DEF n, b
    <2> QED
      BY <1>4, <2>3, <2>4, <2>5, <2>6
  <1>10. Progress'
    <2>1. read.kind' # "range" /\ read' = read /\ pc' # "panic"
      BY <1>1, <1>2, <1>4
    <2>2. RangeIsExact'
      BY <2>1 DEF RangeIsExact
    <2>3. IntegerIsExact'
      <3>1. BytesOf(slices)' = BytesOf(slices')
        BY DEF BytesOf
      <3>2. /\ read' = read /\ process' = process /\ Pieces' = Pieces
            /\ ChunksArePages' = ChunksArePages
            /\ (\A p : Kept(p)' = Kept(p)) /\ (\A a : Readable(a)' = Readable(a))
        BY <1>1, <1>7, <2>1, SameProcess
      <3> QED
        BY <1>9, <3>1, <3>2 DEF IntegerIsExact
    <2> QED
      BY <1>1, <1>7, <1>8a, <1>9, <2>1, <2>2, <2>3, SameProcess DEF Progress
  <1> QED
    BY <1>7, <1>8, <1>10 DEF IInv

\* The bytes from s that are in a set without a hole.
LEMMA CoveredUntil ==
    ASSUME NEW s \in Nat, NEW f \in Nat, NEW e \in Nat, s <= f, f <= e, NEW all,
           s .. (f - 1) \subseteq all
    PROVE  LET covered == {a \in s .. (e - 1) : s .. a \subseteq all}
           IN  /\ s .. (f - 1) \subseteq covered
               /\ f \notin all \/ f = e => covered = s .. (f - 1)
  <1> DEFINE covered == {a \in s .. (e - 1) : s .. a \subseteq all}
  <1>1. ASSUME NEW a \in s .. (f - 1)
        PROVE  a \in covered
    <2>1. a \in s .. (e - 1) /\ s .. a \subseteq s .. (f - 1)
      OBVIOUS
    <2> QED
      BY <2>1
  <1>2. ASSUME f \notin all \/ f = e, NEW a \in covered
        PROVE  a \in s .. (f - 1)
    <2>1. a \in s .. (e - 1) /\ s .. a \subseteq all /\ a \in Int
      OBVIOUS
    <2>2. a >= f => f \in s .. a
      BY <2>1
    <2> HIDE DEF covered
    <2> QED
      BY <1>2, <2>1, <2>2
  <1> QED
    BY <1>1, <1>2

LEMMA RangeKeeps == IInv /\ on_range => IInv'
  <1> SUFFICES ASSUME IInv, on_range
               PROVE  IInv'
    OBVIOUS
  <1> DEFINE n == NextRegion[1]
             b == Fetched(n)
             e == Least(End(n), read.end)
             g == Between(b[1], read.from, e)
             Same == slices' = slices /\ read' = read
             Over == /\ NextRegion = <<>> /\ Same
                     /\ pc' = IF slices = <<>> THEN "none" ELSE "some"
             Hole == /\ NextRegion # <<>>
                     /\ \/ slices # <<>> /\ read.from # Start(n)
                        \/ slices = <<>> /\ read.from < Start(n)
                     /\ pc' = "none" /\ Same
             Before == /\ NextRegion # <<>> /\ slices = <<>> /\ read.from >= End(n)
                       /\ pc' = "reading" /\ Same
             Here == /\ NextRegion # <<>>
                     /\ IF slices # <<>> THEN read.from = Start(n) ELSE read.from \in Span(n)
             Refused == Here /\ b = <<>> /\ pc' = "none" /\ Same
             Short == /\ Here /\ b # <<>> /\ ~ Covers(b[1], read.from, e)
                      /\ pc' = "panic" /\ Same
             Given == /\ Here /\ b # <<>> /\ Covers(b[1], read.from, e)
                      /\ slices' = Append(slices, g)
                      /\ read' = [read EXCEPT !.from = End(n)]
                      /\ pc' = IF End(n) >= read.end THEN "some" ELSE "reading"
  <1>0. Types /\ Listing /\ Origin /\ Search /\ Progress
    BY DEF IInv
  <1>1. /\ pc = "reading" /\ read.kind = "range" /\ Advance
        /\ process' = process /\ scanned' = scanned /\ reads' = reads
    BY DEF on_range
  <1>2. /\ read \in [kind : {"integer", "range"}, start : Nat, end : Nat, from : Nat,
                     resumes : Nat]
        /\ read.start < read.end /\ process.can_refetch
        /\ process \in Processes /\ PositionKept /\ FromLine \in Nat
        /\ StartsOver => Placed
        /\ NextRegion # <<>> => n \in Position
        /\ slices \in Seq(Fragments)
    BY <1>0, <1>1, LineIsKnown, NextIsPosition DEF Types, Listing
  <1>3. NextRegion # <<>> => /\ Start(n) \in Nat /\ End(n) \in Nat /\ e \in Nat
                             /\ region_description(n).start = Start(n)
                             /\ region_description(n).length = End(n) - Start(n)
                             /\ Start(n) + (End(n) - Start(n)) = End(n)
    BY <1>2, PositionNumbers DEF Least
  <1>4. Over \/ Hole \/ Before \/ Refused \/ Short \/ Given
    <2>1. CASE NextRegion = <<>>
      BY <2>1 DEF on_range, Finish
    <2>2. CASE NextRegion # <<>>
      <3> DEFINE region == region_description(n)
      <3>1. \/ /\ \/ slices # <<>> /\ read.from # region.start
                  \/ slices = <<>> /\ read.from < region.start
               /\ Finish("none")
            \/ /\ slices = <<>> /\ read.from >= region.start + region.length
               /\ Finish("reading")
            \/ /\ IF slices # <<>> THEN read.from = region.start
                  ELSE read.from \in region.start..(region.start + region.length - 1)
               /\ GiveSlice(region, b)
        BY <2>2 DEF on_range
      <3>2. /\ region.start = Start(n) /\ region.start + region.length = End(n)
            /\ region.start \in Nat /\ region.length \in Int
        BY <1>3, <2>2
      <3>3. GiveSlice(region, b) =>
               \/ b = <<>> /\ Finish("none")
               \/ b # <<>> /\ ~ Covers(b[1], read.from, e) /\ Finish("panic")
               \/ /\ b # <<>> /\ Covers(b[1], read.from, e)
                  /\ slices' = Append(slices, g)
                  /\ read' = [read EXCEPT !.from = End(n)]
                  /\ pc' = IF read'.from >= read.end THEN "some" ELSE "reading"
        <4> HIDE DEF n, b, region
        <4> QED
          BY <3>2 DEF GiveSlice
      <3>4. read' = [read EXCEPT !.from = End(n)] => read'.from = End(n)
        BY <1>2
      <3>5. \A o : Finish(o) => pc' = o /\ Same
        BY DEF Finish
      <3>6. Span(n) = region.start..(region.start + region.length - 1)
        <4> HIDE DEF n, region
        <4> QED
          BY <1>3, <2>2, <3>2 DEF Span
      <3> HIDE DEF n, b, region, e, g, Same
      <3>7. CASE /\ \/ slices # <<>> /\ read.from # region.start
                    \/ slices = <<>> /\ read.from < region.start
                 /\ Finish("none")
        BY <2>2, <3>2, <3>5, <3>7
      <3>8. CASE /\ slices = <<>> /\ read.from >= region.start + region.length
                 /\ Finish("reading")
        BY <2>2, <3>2, <3>5, <3>8
      <3>9. CASE /\ IF slices # <<>> THEN read.from = region.start
                    ELSE read.from \in region.start..(region.start + region.length - 1)
                 /\ GiveSlice(region, b)
        <4>1. Here
          BY <2>2, <3>2, <3>6, <3>9
        <4> HIDE DEF Here
        <4> QED
          BY <3>3, <3>4, <3>5, <3>9, <4>1
      <3> QED
        BY <3>1, <3>7, <3>8, <3>9
    <2> QED
      BY <2>1, <2>2
  <1>5. Given => /\ g \in Fragments /\ DOMAIN g = read.from .. (e - 1)
                 /\ ChunksArePages => Genuine(g)
    BY <1>2, <1>3, PartOfFetched
  <1>6. /\ slices' \in Seq(Fragments)
        /\ read' \in [kind : {"integer", "range"}, start : Nat, end : Nat, from : Nat,
                     resumes : Nat]
        /\ read'.start = read.start /\ read'.end = read.end /\ read'.kind = "range"
        /\ pc' \in {"reading", "some", "none", "panic"}
        /\ pc' = "reading" => NextRegion # <<>>
    <2>1. CASE Same
      <3> HIDE DEF n, b, g, e
      <3> QED
        BY <1>1, <1>2, <1>4, <2>1
    <2>2. CASE Given
      <3>1. End(n) \in Nat /\ g \in Fragments
        BY <1>3, <1>5, <2>2
      <3> HIDE DEF n, b, g, e
      <3> QED
        BY <1>1, <1>2, <2>2, <3>1, OneMore
    <2> QED
      BY <1>4, <2>1, <2>2
  <1>7. /\ Types' /\ Listing' /\ Search'
        /\ StartsOver' = StartsOver
        /\ Pieces = {Span(d) : d \in Position} \/ ~ ChunksArePages
        /\ NextRegion # <<>> /\ ChunksArePages /\ StartsOver =>
              \A d \in Position : Past(d)' <=> Past(d) \/ d = n
    BY <1>1, <1>2, <1>6, ReadStep
  <1>8. Origin'
    <2>1. ASSUME ChunksArePages
          PROVE  \A i \in DOMAIN slices' : Genuine(slices'[i])
      <3>1. \A i \in DOMAIN slices : Genuine(slices[i])
        BY <1>0, <2>1 DEF Origin
      <3>2. \/ slices' = slices
            \/ slices' = Append(slices, g) /\ Genuine(g) /\ g \in Fragments
        BY <1>4, <1>5, <2>1
      <3> HIDE DEF n, b, g, e
      <3> QED
        BY <1>2, <3>1, <3>2, OneMore
    <2> QED
      BY <2>1, <1>0, <1>1, SameProcess, SameGenuine DEF Origin
  <1> DEFINE wanted == read.start..(read.end - 1)
             all == UNION Pieces
             covered == {a \in wanted : read.start..a \subseteq all}
             hole == \E a \in wanted \ all : \E c \in all : a < c
  <1>9. ASSUME ChunksArePages, StartsOver, Untruncated
        PROVE  /\ pc' # "panic"
               /\ pc' \in {"some", "none"} =>
                     Ordered(slices') /\ BytesOf(slices') \subseteq covered
               /\ pc' = "some" => BytesOf(slices') = covered /\ covered # {} /\ ~ hole
               /\ pc' = "none" => \/ covered = {} \/ hole
                                  \/ \E piece \in Pieces :
                                        /\ piece \cap wanted # {}
                                        /\ \E a \in piece : ~ Readable(a)
               /\ pc' = "reading" =>
                     /\ \A d \in Position : Past(d)' => End(d) <= read'.from
                     /\ slices' = <<>> => read'.from = read.start
                     /\ slices' # <<>> =>
                           /\ read.start < read'.from
                           /\ \E d \in Position : Past(d)' /\ End(d) = read'.from
                     /\ read'.from < read.end
                     /\ read.start .. (read'.from - 1) \subseteq all
                     /\ BytesOf(slices') = read.start .. (read'.from - 1)
                     /\ Ordered(slices')
    <2>1. /\ \A d \in Position : Past(d) => End(d) <= read.from
          /\ slices = <<>> => read.from = read.start
          /\ slices # <<>> =>
                /\ read.start < read.from
                /\ \E d \in Position : Past(d) /\ End(d) = read.from
          /\ read.from < read.end
          /\ read.start .. (read.from - 1) \subseteq all
          /\ BytesOf(slices) = read.start .. (read.from - 1)
          /\ Ordered(slices)
      BY <1>0, <1>1, <1>9 DEF Progress
    <2>2. /\ Placed /\ Pieces = {Span(d) : d \in Position}
          /\ read.start \in Nat /\ read.end \in Nat /\ read.from \in Nat
          /\ read.start <= read.from /\ read.from \in wanted
      BY <1>2, <1>7, <1>9, <2>1
    <2>3. \A a : a \in all <=> \E d \in Position : a \in Span(d)
      BY <2>2
    <2> HIDE DEF all
    <2>4. /\ read.start .. (read.from - 1) \subseteq covered
          /\ read.from \notin all => covered = read.start .. (read.from - 1)
      BY <2>1, <2>2, CoveredUntil
    <2> HIDE DEF covered
    <2>5. CASE Over
      <3>1. read.from \notin all
        BY <1>2, <1>9, <2>1, <2>2, <2>3, <2>5, NoPieceBetween
      <3>2. \A d \in Position : Past(d)
        BY <1>2, <1>9, <2>2, <2>5, NothingAfterTheEnd
      <3>3. \A c \in all : c \in Nat /\ c < read.from
        BY <1>2, <1>9, <2>1, <2>2, <2>3, <3>2, PositionFacts DEF Span
      <3>4. ASSUME NEW a \in wanted \ all
            PROVE  a >= read.from
        BY <2>1, <2>2
      <3>5. ~ hole
        BY <2>2, <3>3, <3>4
      <3>6. slices # <<>> => covered # {}
        BY <2>1, <2>2, <2>4, <3>1
      <3>7. slices = <<>> => covered = {}
        BY <2>1, <2>2, <2>4, <3>1
      <3> HIDE DEF n, b, e, g, hole, wanted
      <3> QED
        BY <2>1, <2>4, <2>5, <3>1, <3>5, <3>6, <3>7
    <2>6. CASE Hole
      <3>1. read.from < Start(n)
        <4>1. ASSUME slices # <<>>
              PROVE  read.from <= Start(n)
          <5>1. PICK d \in Position : Past(d) /\ End(d) = read.from
            BY <2>1, <4>1
          <5>2. Earlier(d, n)
            BY <1>2, <1>9, <2>2, <2>6, <5>1, NextIsNext
          <5> QED
            BY <1>2, <1>9, <2>6, <5>1, <5>2, SpansApart
        <4> QED
          BY <1>3, <2>2, <2>6, <4>1
      <3>2. read.from \notin all
        BY <1>2, <1>9, <2>1, <2>2, <2>3, <2>6, <3>1, NoPieceBetween
      <3>3. Start(n) \in all
        <4>1. Start(n) \in Span(n)
          BY <1>2, <1>9, <2>6, PositionFacts DEF Span
        <4> QED
          BY <1>2, <2>3, <2>6, <4>1
      <3>4. hole
        BY <2>2, <3>1, <3>2, <3>3
      <3> HIDE DEF n, b, e, g, hole, wanted
      <3> QED
        BY <2>1, <2>4, <2>6, <3>4
    <2>7. CASE Before
      <3>1. \A d \in Position : Past(d)' => End(d) <= read.from
        BY <1>7, <1>9, <2>1, <2>7
      <3> HIDE DEF n, b, e, g
      <3> QED
        BY <2>1, <2>7, <3>1
    <2>8. ASSUME Here
          PROVE  /\ NextRegion # <<>> /\ n \in Position /\ read.from \in Span(n)
                 /\ b = <<>> \/ b = <<FetchedOf(n)>>
                 /\ DOMAIN FetchedOf(n) = Span(n)
                 /\ Start(n) <= read.from /\ read.from < End(n)
                 /\ Span(n) \in Pieces /\ Span(n) \subseteq all
      <3>1. NextRegion # <<>> /\ n \in Position
        BY <1>2, <2>8
      <3>2. Start(n) < End(n) /\ Start(n) \in Nat /\ End(n) \in Nat
        BY <1>2, <1>9, <3>1, PositionFacts
      <3>3. read.from \in Span(n)
        BY <2>2, <2>8, <3>2 DEF Span
      <3>4. Span(n) \in Pieces
        BY <2>2, <3>1
      <3>5. b = <<>> \/ b = <<FetchedOf(n)>>
        BY <1>2, <1>9, <3>1, FetchedIs
      <3>6. DOMAIN FetchedOf(n) = Kept(Span(n)) /\ Kept(Span(n)) = Span(n)
        BY <1>2, <1>9, <3>1, <3>4, KeptOfSpan, FetchedIsGenuine DEF Untruncated
      <3> QED
        BY <2>2, <2>3, <3>1, <3>2, <3>3, <3>4, <3>5, <3>6 DEF Span
    <2>9. CASE Refused
      <3>1. ~ Readable(read.from)
        BY <1>2, <1>9, <2>8, <2>9, FetchedWhenReadable
      <3>2. \E piece \in Pieces : /\ piece \cap wanted # {}
                                  /\ \E a \in piece : ~ Readable(a)
        BY <2>2, <2>8, <2>9, <3>1
      <3> HIDE DEF n, b, e, g, hole, wanted
      <3> QED
        BY <2>1, <2>4, <2>9, <3>2
    <2>10. CASE Short
      <3>1. b = <<FetchedOf(n)>> /\ DOMAIN FetchedOf(n) = Span(n) /\ read.from >= Start(n)
            /\ Start(n) \in Nat /\ End(n) \in Nat
        BY <1>3, <2>8, <2>10
      <3>2. read.from .. (e - 1) \subseteq Span(n)
        BY <2>2, <3>1 DEF Span, Least
      <3>3. Covers(b[1], read.from, e)
        BY <3>1, <3>2 DEF Covers
      <3> QED
        BY <2>10, <3>3
    <2>11. CASE Given
      <3>1. /\ g \in Fragments /\ DOMAIN g = read.from .. (e - 1)
            /\ n \in Position /\ NextRegion # <<>> /\ Span(n) \subseteq all
            /\ Start(n) <= read.from /\ read.from < End(n)
            /\ Start(n) \in Nat /\ End(n) \in Nat
        BY <1>3, <1>5, <2>8, <2>11
      <3>2. e \in Nat /\ read.from < e /\ e <= read.end /\ e <= End(n)
            /\ (e = read.end \/ e = End(n)) /\ (End(n) < read.end => e = End(n))
            /\ (End(n) >= read.end => e = read.end)
        BY <2>1, <2>2, <3>1 DEF Least
      <3>3. read.start .. (e - 1) \subseteq all
        <4>1. ASSUME NEW a \in read.start .. (e - 1)
              PROVE  a \in read.start .. (read.from - 1) \/ a \in Span(n)
          BY <2>2, <3>1, <3>2 DEF Span
        <4> QED
          BY <4>1, <2>1, <3>1
      <3> HIDE DEF n, b, e, g
      <3>4. /\ BytesOf(slices') = BytesOf(slices) \cup DOMAIN g
            /\ (\A c \in BytesOf(slices), a \in DOMAIN g : c < a) => Ordered(slices')
            /\ slices' # <<>>
        BY <1>2, <2>1, <2>11, <3>1, OneMore
      <3>5. BytesOf(slices') = read.start .. (e - 1)
        BY <2>1, <2>2, <3>1, <3>2, <3>4
      <3>6. Ordered(slices')
        BY <2>1, <2>2, <3>1, <3>2, <3>4
      <3>7. CASE End(n) >= read.end
        <4>1. pc' = "some" /\ e = read.end
          BY <2>11, <3>2, <3>7
        <4>2. covered = wanted /\ covered # {}
          BY <2>2, <3>3, <4>1, CoveredUntil DEF covered
        <4>3. ~ hole
          BY <3>3, <4>1
        <4> HIDE DEF hole
        <4> QED
          BY <3>5, <3>6, <4>1, <4>2, <4>3
      <3>8. CASE End(n) < read.end
        <4>1. pc' = "reading" /\ e = End(n) /\ read'.from = End(n)
          BY <1>2, <2>11, <3>1, <3>2, <3>8
        <4>2. \A d \in Position : Past(d)' <=> Past(d) \/ d = n
          BY <1>7, <1>9, <3>1 DEF n
        <4>3. \A d \in Position : Past(d)' => End(d) <= read'.from
          <5>1. \A d \in Position : Past(d) => End(d) <= read.from
            BY <2>1
          <5>2. \A d \in Position : End(d) \in Nat
            BY <1>2, <1>9, PositionFacts
          <5>3. read.from \in Nat
            BY <2>2
          <5> QED
            BY <3>1, <4>1, <4>2, <5>1, <5>2, <5>3
        <4>4. \E d \in Position : Past(d)' /\ End(d) = read'.from
          <5>1. PICK d \in Position : d = n
            BY <3>1
          <5> QED
            BY <4>1, <4>2, <5>1
        <4>5. read.start < read'.from /\ read'.from < read.end
          BY <2>2, <3>1, <3>8, <4>1
        <4> QED
          BY <3>1, <3>3, <3>4, <3>5, <3>6, <4>1, <4>3, <4>4, <4>5
      <3> QED
        BY <2>2, <3>1, <3>7, <3>8
    <2> HIDE DEF Over, Hole, Before, Refused, Short, Given
    <2> QED
      BY <1>4, <2>5, <2>6, <2>7, <2>9, <2>10, <2>11
  <1>10. Progress'
    <2>1. IntegerIsExact'
      BY <1>6 DEF IntegerIsExact
    <2>2. /\ BytesOf(slices)' = BytesOf(slices') /\ Ordered(slices)' = Ordered(slices')
          /\ Untruncated' = Untruncated
      BY <1>1, SameProcess DEF BytesOf, Ordered, Untruncated
    <2> HIDE DEF n, b, e, g
    <2>3. RangeIsExact'
      <3> SUFFICES ASSUME ChunksArePages, StartsOver, Untruncated
                   PROVE  LET W == read'.start..(read'.end - 1)
                              A == UNION Pieces'
                              C == {a \in W : read'.start..a \subseteq A}
                              H == \E a \in W \ A : \E c \in A : a < c
                          IN  /\ pc' # "panic"
                              /\ pc' \in {"some", "none"} =>
                                    Ordered(slices)' /\ BytesOf(slices)' \subseteq C
                              /\ pc' = "some" => BytesOf(slices)' = C /\ C # {} /\ ~ H
                              /\ pc' = "none" => \/ C = {} \/ H
                                                 \/ \E piece \in Pieces' :
                                                       /\ piece \cap W # {}
                                                       /\ \E a \in piece : ~ Readable(a)'
        BY <1>7, <2>2, SameProcess, <1>1 DEF RangeIsExact, Untruncated
      <3>1. Pieces' = Pieces /\ \A a : Readable(a)' = Readable(a)
        BY <1>1, SameProcess
      <3> QED
        BY SMTT(30), <1>6, <1>9, <2>2, <3>1
    <2> QED
      BY <1>1, <1>6, <1>7, <1>9, <2>1, <2>2, <2>3, SameProcess DEF Progress
  <1> QED
    BY <1>7, <1>8, <1>10 DEF IInv

-----------------------------------------------------------------------------
(* The theorems. *)

LEMMA StutterKeeps == IInv /\ UNCHANGED vars => IInv'
  <1> SUFFICES ASSUME IInv, UNCHANGED vars
               PROVE  IInv'
    OBVIOUS
  <1>0. Types /\ Listing /\ Origin /\ Search /\ Progress
    BY DEF IInv
  <1>1. /\ process' = process /\ maps_line' = maps_line /\ current' = current /\ pc' = pc
        /\ scanned' = scanned /\ read' = read /\ slices' = slices /\ reads' = reads
    BY DEF vars
  <1>2. FromLine' = FromLine /\ StartsOver' = StartsOver
        /\ BytesOf(scanned)' = BytesOf(scanned) /\ BytesOf(slices)' = BytesOf(slices)
        /\ Ordered(scanned)' = Ordered(scanned) /\ Ordered(slices)' = Ordered(slices)
    BY <1>1, SameProcess DEF FromLine, StartsOver, BytesOf, Ordered
  <1>3. Placed' = Placed /\ Located' = Located /\ \A d : Past(d)' <=> Past(d)
    BY <1>1, <1>2
    DEF Placed, Located, HalfWay, Past, update_to_next_chunk, RegionAt, Regions
  <1>3a. NotLost' <=> NotLost
    <2>1. HalfWay' = HalfWay /\ NextRegion' = NextRegion
      BY <1>1, <1>2
      DEF HalfWay, NextRegion, NextPosition, Listed, update_to_next_chunk, RegionAt, Regions
    <2>2. \A c : c = NextRegion[1] => Start(c)' = Start(c)
      BY <1>1, SameProcess
    <2>3. Start(NextRegion[1])' = Start(NextRegion[1])
      BY <2>1, <2>2
    <2> QED
      BY <1>1, <2>1, <2>3 DEF NotLost
  <1>4. Types' /\ Listing'
    BY <1>0, <1>1, <1>2, <1>3, SameProcess DEF Types, Listing, PositionKept
  <1>5. Origin'
    BY <1>0, <1>1, SameProcess, SameGenuine DEF Origin
  <1>6. Search'
    BY <1>0, <1>1, <1>2, <1>3, SameProcess DEF Search, EveryByteOnceInOrder
  <1>7. IntegerIsExact'
    BY <1>0, <1>1, <1>2, SameProcess DEF Progress, IntegerIsExact
  <1>8. RangeIsExact'
    <2>1. /\ ChunksArePages' = ChunksArePages /\ Pieces' = Pieces
          /\ \A p : NotTruncated(p)' = NotTruncated(p)
          /\ \A a : Readable(a)' = Readable(a)
      BY <1>1, SameProcess
    <2>2. RangeIsExact
      BY <1>0 DEF Progress
    <2>3. (\A piece \in Pieces : NotTruncated(piece))' <=> \A piece \in Pieces : NotTruncated(piece)
      BY <2>1
    <2>4. \A W : (\E piece \in Pieces : /\ piece \cap W # {}
                                        /\ \E a \in piece : ~ Readable(a))
                 => \E piece \in Pieces' : /\ piece \cap W # {}
                                           /\ \E a \in piece : ~ Readable(a)'
      BY <2>1
    <2> QED
      BY <1>1, <1>2, <2>1, <2>2, <2>3, <2>4 DEF RangeIsExact
  <1>9. Progress'
    BY <1>0, <1>1, <1>2, <1>3, <1>3a, <1>7, <1>8, SameProcess DEF Progress, Untruncated
  <1> QED
    BY <1>4, <1>5, <1>6, <1>9 DEF IInv

\* The five parts of the invariant hold of every reachable state.
THEOREM Inductive == Spec => []IInv
  <1>1. IInv /\ [Next]_vars => IInv'
    BY ScanKeeps, ScanEndKeeps, IntegerKeeps, RangeKeeps, StartKeeps, StutterKeeps
    DEF Next, Step
  <1> QED
    BY InitInv, <1>1, PTL DEF Spec

\* Whatever the regions, the chunks and the most that is fetched, the search of
\* strings is given every byte that can be read, once and in order.
THEOREM SearchIsComplete == Spec => []EveryByteOnceInOrder
  <1>1. IInv => EveryByteOnceInOrder
    BY DEF IInv, Search
  <1> QED
    BY Inductive, <1>1, PTL

\* Whatever the offsets of mappings and chunks and the pages that changed, a byte
\* that is read is the one the process has there.
THEOREM OriginIsRight == Spec => []BytesOfTheProcess
  <1>1. IInv => BytesOfTheProcess
    BY DEF IInv, Origin, Genuine, BytesOfTheProcess
  <1> QED
    BY Inductive, <1>1, PTL

\* Wherever the last listing stopped, an integer is read only when a piece has all of
\* it, and always when one has and it is not before the address from which that
\* listing goes on: 0, but on Linux after a read that left it between two chunks.
THEOREM IntegersAreExact == Spec => []IntegerIsExact
  <1>1. IInv => IntegerIsExact
    BY DEF IInv, Progress
  <1> QED
    BY Inductive, <1>1, PTL

\* And a range is read in order and without a hole, or refused for one of the
\* three reasons.
THEOREM RangesAreExact == Spec => []RangeIsExact
  <1>1. IInv => RangeIsExact
    BY DEF IInv, Progress
  <1> QED
    BY Inductive, <1>1, PTL

=============================================================================
