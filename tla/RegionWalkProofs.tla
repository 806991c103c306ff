--------------------------- MODULE RegionWalkProofs ---------------------------
(***************************************************************************)
(* The memory map and the walk over its regions, for every map, page size  *)
(* and number of regions: only whole usable pages above the kernel are     *)
(* handed out, each once, and none is refused while one is left.           *)
(***************************************************************************)
EXTENDS RegionWalk, WellFoundedInduction, TLAPS

Aligned(x) == \E q \in Nat : x = q * PageSize

-----------------------------------------------------------------------------
(* Arithmetic of pages.                                                    *)

LEMMA Sizes ==
    /\ PageSize \in Nat /\ PageSize > 0
    /\ WordSize \in Nat /\ MinimumAddr \in Nat /\ MinimumAddr < WordSize /\ MaxRegions \in Nat
BY MapAssumption

LEMMA NextAligned ==
    ASSUME NEW x \in Nat, Aligned(x)
    PROVE  Aligned(x + PageSize)
<1>1. PICK q \in Nat : x = q * PageSize
  BY DEF Aligned
<1>2. q + 1 \in Nat /\ x + PageSize = (q + 1) * PageSize
  BY <1>1, Sizes
<1> QED
  BY <1>2 DEF Aligned

LEMMA AlignedGap ==
    ASSUME NEW x \in Nat, NEW y \in Nat, Aligned(x), Aligned(y), x < y
    PROVE  x + PageSize <= y
<1>1. PICK q \in Nat : x = q * PageSize
  BY DEF Aligned
<1>2. PICK r \in Nat : y = r * PageSize
  BY DEF Aligned
<1>3. q < r
  BY <1>1, <1>2, Sizes
<1>4. (q + 1) * PageSize <= r * PageSize
  BY <1>3, Sizes
<1>5. (q + 1) * PageSize = q * PageSize + PageSize
  BY Sizes
<1> QED
  BY <1>1, <1>2, <1>4, <1>5, Sizes

LEMMA Rounded ==
    ASSUME NEW x \in Nat
    PROVE  /\ AlignDown(x) \in Nat /\ Aligned(AlignDown(x))
           /\ AlignDown(x) <= x /\ x < AlignDown(x) + PageSize
<1> DEFINE q == x \div PageSize
           r == x % PageSize
<1>1. q \in Nat /\ r \in Nat /\ r < PageSize /\ x = q * PageSize + r
  BY Sizes
<1>2. AlignDown(x) = q * PageSize
  BY <1>1, Sizes DEF AlignDown
<1> HIDE DEF q, r
<1>3. q * PageSize \in Nat
  BY <1>1, Sizes
<1> QED
  BY <1>1, <1>2, <1>3, Sizes DEF Aligned

LEMMA ZeroRest ==
    ASSUME NEW x \in Nat, x % PageSize = 0
    PROVE  Aligned(x)
<1>1. AlignDown(x) = x
  BY DEF AlignDown
<1> QED
  BY <1>1, Rounded

LEMMA RoundedUp ==
    ASSUME NEW x \in Nat, x + PageSize <= WordSize
    PROVE  /\ AlignUp(x) \in Nat /\ Aligned(AlignUp(x))
           /\ x <= AlignUp(x) /\ AlignUp(x) < x + PageSize
<1>1. x + PageSize - 1 \in Nat /\ x + PageSize - 1 < WordSize
  BY Sizes
<1>2. Wrap(x + PageSize - 1) = x + PageSize - 1
  BY <1>1, Sizes DEF Wrap
<1>3. AlignUp(x) = AlignDown(x + PageSize - 1)
  BY <1>2 DEF AlignUp
<1> QED
  BY <1>1, <1>3, Rounded, Sizes

-----------------------------------------------------------------------------
(* The regions.                                                            *)

EntryType == [addr : Nat, len : Nat, usable : BOOLEAN]
Regions == [start : Nat, current : Nat, end : Nat]

\* A region is a run of pages that ends below the last page of the word.
Paged(r) ==
    /\ Aligned(r.start) /\ Aligned(r.current) /\ Aligned(r.end)
    /\ r.start <= r.current /\ r.current <= r.end /\ r.end < WordSize - PageSize

\* It lies in a usable entry, above the kernel.
CutFrom(r, e) ==
    /\ Below4GB(e)
    /\ e.addr <= r.start /\ MinimumAddr <= r.start /\ r.end <= e.addr + e.len

\* It has page a; page a lies in entry e.
In(a, r) == r.start <= a /\ a < r.end
PageOf(a, e) ==
    /\ Below4GB(e) /\ a \in Nat /\ Aligned(a)
    /\ MinimumAddr <= a /\ e.addr <= a /\ a + PageSize <= e.addr + e.len

LEMMA RoomTest ==
    ASSUME NEW r \in Regions, Paged(r)
    PROVE  /\ HasRoom(r) <=> r.current < r.end
           /\ HasRoom(r) => Wrap(r.current + PageSize) = r.current + PageSize
<1>1. r.current \in Nat /\ r.end \in Nat /\ r.current + PageSize < WordSize
  BY Sizes DEF Paged, Regions
<1>2. Wrap(r.current + PageSize) = r.current + PageSize
  BY <1>1, Sizes DEF Wrap
<1>3. r.current < r.end => r.current + PageSize <= r.end
  BY <1>1, AlignedGap DEF Paged
<1> QED
  BY <1>1, <1>2, <1>3, Sizes DEF HasRoom

\* Regions cut from entries that do not overlap share no page.
LEMMA NothingShared ==
    ASSUME NEW e \in EntryType, NEW f \in EntryType, NEW r \in Regions, NEW q \in Regions,
           CutFrom(r, e), CutFrom(q, f),
           e.addr + e.len <= f.addr \/ f.addr + f.len <= e.addr,
           NEW a \in Nat, In(a, r), In(a, q)
    PROVE  FALSE
<1>1. /\ e.addr \in Nat /\ e.len \in Nat /\ f.addr \in Nat /\ f.len \in Nat
      /\ r.start \in Nat /\ r.end \in Nat /\ q.start \in Nat /\ q.end \in Nat
  BY DEF EntryType, Regions
<1>2. a < e.addr + e.len /\ e.addr <= a
  BY <1>1 DEF CutFrom, In
<1>3. a < f.addr + f.len /\ f.addr <= a
  BY <1>1 DEF CutFrom, In
<1> QED
  BY <1>1, <1>2, <1>3

\* What physical_allocator_init makes of an entry.
LEMMA RegionCut ==
    ASSUME NEW e \in EntryType, Below4GB(e), e.addr + e.len < WordSize - PageSize
    PROVE  /\ RegionOf(e) \in Regions /\ RegionOf(e).current = RegionOf(e).start
           /\ Accepted(e) => Paged(RegionOf(e)) /\ CutFrom(RegionOf(e), e)
           /\ \A a : PageOf(a, e) => Accepted(e) /\ In(a, RegionOf(e))
<1> DEFINE low == AtLeastMinimum(e.addr)
           top == e.addr + e.len
           start == AlignUp(low)
           end == AlignDown(top)
<1>1. low \in Nat /\ top \in Nat /\ e.addr \in Nat /\ low >= e.addr /\ low >= MinimumAddr
      /\ (low = e.addr \/ low = MinimumAddr)
  BY Sizes DEF AtLeastMinimum, EntryType
<1>2. MinimumAddr + PageSize <= WordSize
  BY MapAssumption, Sizes, ZeroRest, AlignedGap
<1>3. low + PageSize <= WordSize
  <2>1. e.addr \in Nat /\ e.len \in Nat
    BY DEF EntryType
  <2>2. e.addr + PageSize <= WordSize
    BY <2>1, Sizes
  <2> HIDE DEF low
  <2> QED
    BY <1>1, <1>2, <2>2
<1>4. RegionOf(e) = [start |-> start, current |-> start, end |-> end]
  <2>1. ClampedEnd(e) = top
    BY Sizes DEF ClampedEnd, EntryType
  <2> QED
    BY <2>1 DEF RegionOf
<1> HIDE DEF low, top
<1>5. /\ start \in Nat /\ Aligned(start) /\ low <= start /\ start < low + PageSize
      /\ end \in Nat /\ Aligned(end) /\ end <= top /\ top < end + PageSize
  BY <1>1, <1>3, Rounded, RoundedUp
<1> HIDE DEF start, end
<1>6. RegionOf(e) \in Regions /\ RegionOf(e).current = RegionOf(e).start
  BY <1>4, <1>5 DEF Regions
<1>7. ASSUME Accepted(e)
      PROVE  Paged(RegionOf(e)) /\ CutFrom(RegionOf(e), e)
  <2>1. start < end /\ top < WordSize - PageSize
    BY <1>4, <1>7 DEF Accepted, top
  <2>2. Paged(RegionOf(e))
    BY <1>4, <1>5, <1>1, <2>1, Sizes DEF Paged
  <2>3. e.addr <= start /\ MinimumAddr <= start
    BY <1>1, <1>5, Sizes
  <2> QED
    BY <1>4, <1>5, <2>2, <2>3 DEF CutFrom, top
<1>8. ASSUME NEW a, PageOf(a, e)
      PROVE  Accepted(e) /\ In(a, RegionOf(e))
  <2>1. a \in Nat /\ Aligned(a) /\ low <= a /\ a + PageSize <= top
    BY <1>1, <1>8 DEF PageOf, top
  <2>2. start <= a
    <3>1. ~(a < start)
      BY <1>1, <1>5, <2>1, AlignedGap, Sizes
    <3> QED
      BY <1>5, <2>1, <3>1
  <2>3. a < end
    BY <1>1, <1>5, <2>1, Sizes
  <2> QED
    BY <1>4, <1>5, <2>1, <2>2, <2>3 DEF Accepted, In, Below4GB
<1> QED
  BY <1>6, <1>7, <1>8

-----------------------------------------------------------------------------
(* The invariant.                                                          *)

\* Every region is cut from an entry that was read, and every page of such an
\* entry is in a region.
EntriesRead ==
    /\ map \in Maps /\ entry \in 1..(Len(map) + 1)
    /\ regions \in Seq(Regions) /\ Len(regions) <= entry - 1
    /\ \A j \in 1..Len(regions) :
          /\ Paged(regions[j])
          /\ \E i \in 1..(entry - 1) : CutFrom(regions[j], map[i])
    /\ \A i \in 1..(entry - 1) : \A a : PageOf(a, map[i]) =>
          \E j \in 1..Len(regions) : In(a, regions[j])

\* The frames handed out are the pages below the regions' current addresses, and
\* the cursor has passed only used-up regions.
Walked ==
    /\ cursor \in 1..(Len(regions) + 1)
    /\ \A j \in 1..(cursor - 1) : regions[j].current = regions[j].end
    /\ handed \in Seq(Nat)
    /\ \A a \in ToSet(handed) :
          Aligned(a) /\ \E j \in 1..Len(regions) : In(a, regions[j]) /\ a < regions[j].current
    /\ \A j \in 1..Len(regions) : \A a \in Nat :
          Aligned(a) /\ In(a, regions[j]) /\ a < regions[j].current => a \in ToSet(handed)
    /\ refused \in BOOLEAN /\ (refused => ~Reading /\ cursor = Len(regions) + 1)

IInv == EntriesRead /\ Walked

\* No page is in two regions.
RegionsApart ==
    \A j, l \in 1..Len(regions) : j # l => \A a \in Nat : ~(In(a, regions[j]) /\ In(a, regions[l]))

LEMMA LeastNatural ==
    ASSUME NEW T \in SUBSET Nat, T # {}
    PROVE  \E i \in T : \A j \in T : i <= j
<1> DEFINE Less == OpToRel(<, Nat)
<1>1. IsWellFoundedOn(Less, Nat)
  BY NatLessThanWellFounded, Zenon
<1>2. \A i, j \in T : j < i => <<j, i>> \in Less
  BY DEF OpToRel
<1> HIDE DEF Less
<1>3. PICK i \in T : \A j \in T : ~(<<j, i>> \in Less)
  BY <1>1, WFMin, Zenon
<1>4. \A j \in T : ~(j < i)
  BY <1>2, <1>3
<1> QED
  BY <1>4

\* The first region with room serves.
LEMMA FirstServes ==
    ASSUME IInv, Roomy # {}
    PROVE  /\ Serving \in cursor..Len(regions) /\ HasRoom(regions[Serving])
           /\ \A j \in cursor..(Serving - 1) : ~HasRoom(regions[j])
<1>1. Roomy \in SUBSET Nat /\ cursor \in Nat /\ Len(regions) \in Nat
  BY DEF IInv, EntriesRead, Walked, Roomy
<1>2. \E i \in Roomy : \A j \in Roomy : i <= j
  BY <1>1, LeastNatural
<1>3. Serving \in Roomy /\ \A j \in Roomy : Serving <= j
  BY <1>2 DEF Serving, Min
<1>4. \A j \in cursor..(Serving - 1) : j \notin Roomy
  BY <1>1, <1>3
<1> QED
  BY <1>1, <1>3, <1>4 DEF Roomy

LEMMA MapTypes ==
    ASSUME map \in Maps
    PROVE  /\ Len(map) \in Nat
           /\ \A i \in 1..Len(map) : map[i] \in EntryType
<1>1. map \in Seq(EntryType)
  BY MapAssumption DEF EntryType
<1> QED
  BY <1>1

LEMMA InitInv == Init => IInv /\ RegionsApart
<1> SUFFICES ASSUME Init PROVE IInv /\ RegionsApart
  OBVIOUS
<1>1. Len(map) \in Nat /\ Len(regions) = 0 /\ ToSet(handed) = {}
  BY MapAssumption DEF Init, ToSet
<1>2. EntriesRead
  BY <1>1 DEF Init, EntriesRead
<1>3. Walked
  <2>1. cursor \in 1..(Len(regions) + 1) /\ 1..(cursor - 1) = {} /\ 1..Len(regions) = {}
    BY <1>1 DEF Init
  <2>2. handed \in Seq(Nat)
    BY DEF Init
  <2>3. refused = FALSE
    BY DEF Init
  <2> QED
    BY <1>1, <2>1, <2>2, <2>3 DEF Walked
<1> QED
  BY <1>1, <1>2, <1>3 DEF IInv, RegionsApart

\* physical_allocator_init reads an entry.
LEMMA ReadStep ==
    ASSUME BelowTop, IInv, ReadEntry
    PROVE  /\ IInv'
           /\ NoOverlap /\ RegionsApart => RegionsApart'
<1> DEFINE e == map[entry]
           r == RegionOf(e)
<1>1. /\ map \in Maps /\ entry \in 1..Len(map) /\ Len(map) \in Nat
      /\ e \in EntryType
      /\ regions \in Seq(Regions) /\ Len(regions) \in Nat
      /\ handed \in Seq(Nat) /\ cursor \in 1..(Len(regions) + 1)
  <2>1. map \in Maps /\ entry \in 1..(Len(map) + 1) /\ entry <= Len(map)
    BY DEF IInv, EntriesRead, ReadEntry, Reading
  <2>2. Len(map) \in Nat /\ entry \in 1..Len(map)
    BY <2>1, MapTypes
  <2>3. regions \in Seq(Regions) /\ handed \in Seq(Nat) /\ cursor \in 1..(Len(regions) + 1)
    BY DEF IInv, EntriesRead, Walked
  <2> QED
    BY <2>1, <2>2, <2>3, MapTypes
<1>2. Below4GB(e) =>
         /\ r \in Regions /\ r.current = r.start
         /\ Accepted(e) => Paged(r) /\ CutFrom(r, e)
         /\ \A a : PageOf(a, e) => Accepted(e) /\ In(a, r)
  <2>1. Below4GB(e) => e.addr + e.len < WordSize - PageSize
    BY <1>1 DEF BelowTop
  <2> HIDE DEF e
  <2> QED
    BY <1>1, <2>1, RegionCut
<1>3. Accepted(e) => Below4GB(e)
  BY DEF Accepted, Below4GB
<1>4. /\ map' = map /\ entry' = entry + 1 /\ cursor' = cursor /\ handed' = handed
      /\ refused' = refused /\ ~refused
      /\ regions' = IF Accepted(e) THEN Append(regions, r) ELSE regions
  BY DEF ReadEntry, IInv, Walked
<1> HIDE DEF e, r
<1>5. CASE ~Accepted(e)
  <2>1. regions' = regions
    BY <1>4, <1>5
  <2>2. \A i \in 1..(entry' - 1) : i \in 1..(entry - 1) \/ i = entry
    BY <1>1, <1>4
  <2>3. EntriesRead'
    <3>1. \A i \in 1..(entry' - 1) : \A a : PageOf(a, map[i]) =>
             \E j \in 1..Len(regions) : In(a, regions[j])
      BY <1>2, <1>5, <2>2 DEF IInv, EntriesRead, e, PageOf
    <3>2. entry' \in 1..(Len(map) + 1) /\ Len(regions) <= entry' - 1
          /\ 1..(entry - 1) \subseteq 1..(entry' - 1)
      BY <1>1, <1>4 DEF IInv, EntriesRead
    <3> QED
      BY <1>4, <2>1, <3>1, <3>2 DEF IInv, EntriesRead
  <2> QED
    BY <1>4, <2>1, <2>3 DEF IInv, Walked, RegionsApart
<1>6. CASE Accepted(e)
  <2> DEFINE new == Len(regions) + 1
  <2>1. /\ regions' = Append(regions, r) /\ r \in Regions /\ Paged(r) /\ CutFrom(r, e)
        /\ r.current = r.start /\ \A a : PageOf(a, e) => In(a, r)
    BY <1>2, <1>3, <1>4, <1>6
  <2>2. /\ regions' \in Seq(Regions) /\ Len(regions') = new
        /\ regions'[new] = r
        /\ \A j \in 1..Len(regions) : regions'[j] = regions[j]
    BY <1>1, <2>1
  <2>3. /\ 1..new = 1..Len(regions) \cup {new} /\ new \notin 1..Len(regions)
        /\ 1..(entry' - 1) = 1..(entry - 1) \cup {entry} /\ entry \notin 1..(entry - 1)
    BY <1>1, <1>4
  <2> HIDE DEF new
  <2>4. EntriesRead'
    <3>1. entry' \in 1..(Len(map) + 1) /\ Len(regions') <= entry' - 1
      BY <1>1, <1>4, <2>2 DEF IInv, EntriesRead, new
    <3>2. ASSUME NEW j \in 1..Len(regions')
          PROVE  /\ Paged(regions'[j])
                 /\ \E i \in 1..(entry' - 1) : CutFrom(regions'[j], map[i])
      BY <2>1, <2>2, <2>3 DEF IInv, EntriesRead, e
    <3>3. ASSUME NEW i \in 1..(entry' - 1), NEW a, PageOf(a, map[i])
          PROVE  \E j \in 1..Len(regions') : In(a, regions'[j])
      <4>1. CASE i \in 1..(entry - 1)
        <5>1. PICK j \in 1..Len(regions) : In(a, regions[j])
          BY <3>3, <4>1 DEF IInv, EntriesRead
        <5> QED
          BY <2>2, <2>3, <5>1
      <4>2. CASE i = entry
        BY <2>1, <2>2, <2>3, <3>3, <4>2 DEF e
      <4> QED
        BY <2>3, <4>1, <4>2
    <3> QED
      BY <1>1, <1>4, <2>2, <3>1, <3>2, <3>3 DEF EntriesRead
  <2>5. Walked'
    <3>1. /\ cursor \in 1..(Len(regions') + 1)
          /\ 1..(cursor - 1) \subseteq 1..Len(regions)
      BY <1>1, <2>2 DEF new
    <3>2. \A j \in 1..(cursor - 1) : regions'[j].current = regions'[j].end
      BY <2>2, <3>1 DEF IInv, Walked
    <3>3. ASSUME NEW a \in ToSet(handed)
          PROVE  /\ Aligned(a)
                 /\ \E j \in 1..Len(regions') : In(a, regions'[j]) /\ a < regions'[j].current
      <4>1. Aligned(a)
        BY DEF IInv, Walked
      <4>2. PICK j \in 1..Len(regions) : In(a, regions[j]) /\ a < regions[j].current
        BY DEF IInv, Walked
      <4> QED
        BY <2>2, <2>3, <4>1, <4>2
    <3>4. ASSUME NEW j \in 1..Len(regions'), NEW a \in Nat,
                 Aligned(a), In(a, regions'[j]), a < regions'[j].current
          PROVE  a \in ToSet(handed)
      <4>1. j # new
        BY <2>1, <2>2, <3>4 DEF In, Regions
      <4> QED
        BY <2>2, <2>3, <3>4, <4>1 DEF IInv, Walked
    <3>5. handed' \in Seq(Nat) /\ ToSet(handed') = ToSet(handed) /\ refused' = FALSE
      BY <1>1, <1>4 DEF IInv, Walked
    <3> QED
      BY <1>4, <3>1, <3>2, <3>3, <3>4, <3>5 DEF Walked
  <2>6. ASSUME NoOverlap, RegionsApart
        PROVE  RegionsApart'
    <3>1. ASSUME NEW j \in 1..Len(regions), NEW a \in Nat, In(a, regions[j]), In(a, r)
          PROVE  FALSE
      <4>1. PICK i \in 1..(entry - 1) : CutFrom(regions[j], map[i])
        BY DEF IInv, EntriesRead
      <4>2. i \in 1..Len(map) /\ i # entry
        BY <1>1, <2>3, <4>1
      <4>3. \/ map[i].addr + map[i].len <= e.addr
            \/ e.addr + e.len <= map[i].addr
        BY <1>1, <2>1, <2>6, <4>1, <4>2 DEF NoOverlap, CutFrom, e
      <4>4. map[i] \in EntryType /\ regions[j] \in Regions
        BY <1>1, <4>2, MapTypes DEF EntryType
      <4> QED
        BY <1>1, <2>1, <3>1, <4>1, <4>3, <4>4, NothingShared
    <3> QED
      BY <2>2, <2>3, <2>6, <3>1 DEF RegionsApart
  <2> QED
    BY <2>4, <2>5, <2>6 DEF IInv
<1> QED
  BY <1>5, <1>6

\* A region gives its current page.
Moved(rs, j, x) == [rs EXCEPT ![j].current = x]
LEMMA Advanced ==
    ASSUME NEW rs \in Seq(Regions), NEW j \in 1..Len(rs), NEW x \in Nat,
           NEW ns, ns = Moved(rs, j, x)
    PROVE  /\ ns \in Seq(Regions) /\ Len(ns) = Len(rs)
           /\ \A l \in 1..Len(rs) : /\ ns[l].start = rs[l].start /\ ns[l].end = rs[l].end
                                    /\ ns[l].current = IF l = j THEN x ELSE rs[l].current
<1> DEFINE n == [rs[j] EXCEPT !.current = x]
<1>1. rs[j] \in Regions
  OBVIOUS
<1>2. n \in Regions /\ n.start = rs[j].start /\ n.end = rs[j].end /\ n.current = x
  BY <1>1 DEF Regions
<1>3. ns = [rs EXCEPT ![j] = n]
  BY DEF Moved
<1> HIDE DEF n
<1>4. ns \in Seq(Regions) /\ Len(ns) = Len(rs)
  BY <1>2, <1>3
<1>5. \A l \in 1..Len(rs) : ns[l] = IF l = j THEN n ELSE rs[l]
  BY <1>3
<1> QED
  BY <1>2, <1>4, <1>5

LEMMA HandedMore ==
    ASSUME NEW s \in Seq(Nat), NEW x \in Nat
    PROVE  Append(s, x) \in Seq(Nat) /\ ToSet(Append(s, x)) = ToSet(s) \cup {x}
           /\ Last(Append(s, x)) = x
<1>1. /\ Append(s, x) \in Seq(Nat) /\ Len(Append(s, x)) = Len(s) + 1
      /\ Append(s, x)[Len(s) + 1] = x
      /\ \A i \in 1..Len(s) : Append(s, x)[i] = s[i]
  OBVIOUS
<1>2. 1..(Len(s) + 1) = 1..Len(s) \cup {Len(s) + 1}
  OBVIOUS
<1>3. DOMAIN Append(s, x) = 1..(Len(s) + 1) /\ DOMAIN s = 1..Len(s)
  BY <1>1
<1> QED
  BY <1>1, <1>2, <1>3 DEF ToSet, Last

\* A region without room is used up.
LEMMA UsedUp ==
    ASSUME IInv, NEW j \in 1..Len(regions), j < cursor \/ ~HasRoom(regions[j])
    PROVE  regions[j].current = regions[j].end
<1>1. regions[j] \in Regions /\ Paged(regions[j]) /\ cursor \in Nat
  BY DEF IInv, EntriesRead, Walked
<1>2. CASE j < cursor
  BY <1>1, <1>2 DEF IInv, Walked
<1>3. CASE ~HasRoom(regions[j])
  BY <1>1, <1>3, RoomTest DEF Paged, Regions
<1> QED
  BY <1>2, <1>3

\* alloc_page takes a page of the first region that has one.
LEMMA AllocStep ==
    ASSUME IInv, AllocFresh
    PROVE  /\ IInv' /\ ~refused
           /\ RegionsApart => RegionsApart' /\ Last(handed') \notin ToSet(handed)
<1> DEFINE j == Serving
           a == regions[j].current
<1>1. /\ j \in 1..Len(regions) /\ j >= cursor /\ HasRoom(regions[j])
      /\ \A l \in 1..(j - 1) : l < cursor \/ ~HasRoom(regions[l])
      /\ cursor \in Nat /\ Len(regions) \in Nat
  <2>1. cursor \in 1..(Len(regions) + 1) /\ Len(regions) \in Nat
    BY DEF IInv, EntriesRead, Walked
  <2>2. /\ j \in cursor..Len(regions) /\ HasRoom(regions[j])
        /\ \A l \in cursor..(j - 1) : ~HasRoom(regions[l])
    BY FirstServes DEF AllocFresh
  <2> HIDE DEF j
  <2> QED
    BY <2>1, <2>2
<1>2. ~refused
  BY <1>1 DEF IInv, Walked
<1>3. /\ cursor' = j /\ handed' = Append(handed, a)
      /\ regions' = [regions EXCEPT ![j].current = Wrap(a + PageSize)]
      /\ map' = map /\ entry' = entry /\ refused' = refused
  BY DEF AllocFresh
<1> HIDE DEF j
<1>4. /\ regions \in Seq(Regions) /\ regions[j] \in Regions /\ Paged(regions[j])
      /\ handed \in Seq(Nat)
  BY <1>1 DEF IInv, EntriesRead, Walked
<1>5. /\ a \in Nat /\ Aligned(a) /\ regions[j].start <= a /\ a < regions[j].end
      /\ regions[j].end \in Nat /\ regions[j].start \in Nat
      /\ Wrap(a + PageSize) = a + PageSize
  BY <1>1, <1>4, RoomTest DEF Paged, Regions
<1>6. a + PageSize \in Nat /\ Aligned(a + PageSize) /\ a + PageSize <= regions[j].end
  <2>1. Aligned(regions[j].end)
    BY <1>4 DEF Paged
  <2> HIDE DEF a
  <2>2. a + PageSize \in Nat /\ Aligned(a + PageSize)
    BY <1>5, NextAligned, Sizes
  <2>3. a + PageSize <= regions[j].end
    BY <1>5, <2>1, AlignedGap
  <2> QED
    BY <2>2, <2>3
<1>7. /\ regions' \in Seq(Regions) /\ Len(regions') = Len(regions)
      /\ \A l \in 1..Len(regions) :
            /\ regions'[l].start = regions[l].start /\ regions'[l].end = regions[l].end
            /\ regions'[l].current = IF l = j THEN a + PageSize ELSE regions[l].current
  <2> DEFINE x == a + PageSize
             rs == regions
             ns == regions'
  <2>1. /\ rs \in Seq(Regions) /\ j \in 1..Len(rs) /\ x \in Nat
        /\ ns = Moved(rs, j, x)
    BY <1>1, <1>3, <1>4, <1>5, <1>6 DEF Moved
  <2> HIDE DEF x, rs, ns
  <2>2. /\ ns \in Seq(Regions) /\ Len(ns) = Len(rs)
        /\ \A l \in 1..Len(rs) : /\ ns[l].start = rs[l].start /\ ns[l].end = rs[l].end
                                  /\ ns[l].current = IF l = j THEN x ELSE rs[l].current
    BY <2>1, Advanced
  <2> QED
    BY <2>2 DEF x, rs, ns
<1>8. \A l \in 1..Len(regions) : \A b : In(b, regions'[l]) <=> In(b, regions[l])
  BY <1>7 DEF In
<1>9. handed' \in Seq(Nat) /\ ToSet(handed') = ToSet(handed) \cup {a} /\ Last(handed') = a
  BY <1>3, <1>4, <1>5, HandedMore
<1> HIDE DEF a
<1>10. EntriesRead'
  <2>1. ASSUME NEW l \in 1..Len(regions)
        PROVE  Paged(regions'[l])
    <3>1. Paged(regions[l])
      BY DEF IInv, EntriesRead
    <3>2. CASE l = j
      BY <1>5, <1>6, <1>7, <3>1, <3>2, Sizes DEF Paged
    <3>3. CASE l # j
      BY <1>7, <3>1, <3>3 DEF Paged
    <3> QED
      BY <3>2, <3>3
  <2>2. ASSUME NEW l \in 1..Len(regions)
        PROVE  \E i \in 1..(entry - 1) : CutFrom(regions'[l], map[i])
    BY <1>7 DEF IInv, EntriesRead, CutFrom
  <2> QED
    BY <1>3, <1>7, <1>8, <2>1, <2>2 DEF IInv, EntriesRead
<1>11. Walked'
  <2>1. j \in 1..(Len(regions') + 1)
    BY <1>1, <1>7
  <2>2. ASSUME NEW l \in 1..(j - 1)
        PROVE  regions'[l].current = regions'[l].end
    <3>1. l \in 1..Len(regions) /\ l # j /\ (l < cursor \/ ~HasRoom(regions[l]))
      BY <1>1
    <3> QED
      BY <1>7, <3>1, UsedUp
  <2>3. ASSUME NEW b \in ToSet(handed')
        PROVE  /\ Aligned(b)
               /\ \E l \in 1..Len(regions') : In(b, regions'[l]) /\ b < regions'[l].current
    <3>1. CASE b = a
      <4>1. In(a, regions'[j]) /\ a < regions'[j].current
        BY <1>1, <1>5, <1>7, <1>8, Sizes DEF In
      <4> QED
        BY <1>1, <1>5, <1>7, <3>1, <4>1
    <3>2. CASE b \in ToSet(handed)
      <4>1. PICK l \in 1..Len(regions) : In(b, regions[l]) /\ b < regions[l].current
        BY <3>2 DEF IInv, Walked
      <4>2. b \in Nat
        BY <1>4, <3>2 DEF ToSet
      <4>3. b < regions'[l].current
        BY <1>5, <1>7, <4>1, <4>2, Sizes DEF a
      <4>4. Aligned(b)
        BY <3>2 DEF IInv, Walked
      <4> QED
        BY <1>7, <1>8, <4>1, <4>3, <4>4
    <3> QED
      BY <1>9, <3>1, <3>2
  <2>4. ASSUME NEW l \in 1..Len(regions'), NEW b \in Nat,
               Aligned(b), In(b, regions'[l]), b < regions'[l].current
        PROVE  b \in ToSet(handed')
    <3>1. l \in 1..Len(regions) /\ In(b, regions[l])
      BY <1>7, <1>8, <2>4
    <3>2. CASE b < regions[l].current
      BY <1>9, <2>4, <3>1, <3>2 DEF IInv, Walked
    <3>3. CASE ~(b < regions[l].current)
      <4>1. l = j /\ b < a + PageSize /\ ~(b < a)
        BY <1>7, <2>4, <3>1, <3>3 DEF a
      <4>2. ~(a < b)
        BY <1>5, <2>4, <4>1, AlignedGap, Sizes
      <4> QED
        BY <1>5, <1>9, <4>1, <4>2
    <3> QED
      BY <3>2, <3>3
  <2>5. refused' = FALSE
    BY <1>2, <1>3 DEF IInv, Walked
  <2>6. \A l \in 1..(cursor' - 1) : regions'[l].current = regions'[l].end
    BY <1>3, <2>2
  <2>7. cursor' \in 1..(Len(regions') + 1)
    BY <1>3, <2>1
  <2> QED
    BY <1>9, <2>3, <2>4, <2>5, <2>6, <2>7 DEF Walked
<1>12. ASSUME RegionsApart
       PROVE  RegionsApart' /\ Last(handed') \notin ToSet(handed)
  <2>1. RegionsApart'
    BY <1>7, <1>8, <1>12 DEF RegionsApart
  <2>2. a \notin ToSet(handed)
    <3> SUFFICES ASSUME a \in ToSet(handed) PROVE FALSE
      OBVIOUS
    <3>1. PICK l \in 1..Len(regions) : In(a, regions[l]) /\ a < regions[l].current
      BY DEF IInv, Walked
    <3>2. l # j
      BY <1>5, <3>1 DEF a
    <3>3. In(a, regions[j])
      BY <1>5 DEF In
    <3> QED
      BY <1>1, <1>5, <1>12, <3>1, <3>2, <3>3 DEF RegionsApart
  <2> QED
    BY <1>9, <2>1, <2>2
<1> QED
  BY <1>2, <1>10, <1>11, <1>12 DEF IInv

\* alloc_page finds no page in any region.
LEMMA RefuseStep ==
    ASSUME IInv, AllocRefused
    PROVE  IInv' /\ (RegionsApart => RegionsApart')
<1>1. /\ cursor' = Len(regions) + 1 /\ refused' = TRUE /\ ~Reading /\ Roomy = {}
      /\ map' = map /\ entry' = entry /\ regions' = regions /\ handed' = handed
  BY DEF AllocRefused
<1>2. Len(regions) \in Nat /\ cursor \in Nat
  BY DEF IInv, EntriesRead, Walked
<1>3. ASSUME NEW l \in 1..Len(regions)
      PROVE  regions[l].current = regions[l].end
  <2>1. l < cursor \/ ~HasRoom(regions[l])
    BY <1>1, <1>2 DEF Roomy
  <2> QED
    BY <2>1, UsedUp
<1>4. EntriesRead'
  BY <1>1 DEF IInv, EntriesRead
<1>5. cursor' \in 1..(Len(regions) + 1) /\ 1..(cursor' - 1) = 1..Len(regions)
  BY <1>1, <1>2
<1>6. Walked'
  BY <1>1, <1>3, <1>5 DEF IInv, Walked, Reading
<1> QED
  BY <1>1, <1>4, <1>6 DEF IInv, RegionsApart

LEMMA NextInv ==
    ASSUME BelowTop, IInv, [Next]_vars
    PROVE  /\ IInv'
           /\ NoOverlap /\ RegionsApart => RegionsApart'
<1>1. CASE UNCHANGED vars
  BY <1>1 DEF vars, IInv, EntriesRead, Walked, Reading, RegionsApart
<1>2. CASE ReadEntry
  BY <1>2, ReadStep
<1>3. CASE AllocFresh
  BY <1>3, AllocStep
<1>4. CASE AllocRefused
  BY <1>4, RefuseStep
<1> QED
  BY <1>1, <1>2, <1>3, <1>4 DEF Next

-----------------------------------------------------------------------------
(* The theorems.                                                           *)

LEMMA InvHolds ==
    ASSUME BelowTop
    PROVE  Spec => []IInv
<1>1. IInv /\ [Next]_vars => IInv'
  BY NextInv
<1> QED
  BY <1>1, InitInv, PTL DEF Spec

\* What alloc_page takes from the regions lies in a usable entry of the memory
\* map and above the kernel, whole, however the entries are aligned: the start
\* is rounded up and the end down, and the cursor never runs past an end.
THEOREM FramesUsable ==
    ASSUME BelowTop
    PROVE  Spec => []OnlyUsableFrames
<1>1. IInv => OnlyUsableFrames
  <2> SUFFICES ASSUME IInv, NEW n \in 1..Len(handed)
               PROVE  UsablePage(handed[n])
    BY DEF OnlyUsableFrames
  <2> DEFINE a == handed[n]
  <2>1. a \in Nat /\ a \in ToSet(handed)
    BY DEF IInv, Walked, ToSet
  <2> HIDE DEF a
  <2>2. Aligned(a)
    BY <2>1 DEF IInv, Walked
  <2>3. PICK j \in 1..Len(regions) : In(a, regions[j])
    BY <2>1 DEF IInv, Walked
  <2>4. PICK i \in 1..(entry - 1) : CutFrom(regions[j], map[i])
    BY DEF IInv, EntriesRead
  <2>5. map \in Maps /\ i \in 1..Len(map) /\ DOMAIN map = 1..Len(map) /\ map[i] \in EntryType
    <3>1. map \in Maps /\ entry \in 1..(Len(map) + 1)
      BY DEF IInv, EntriesRead
    <3>2. Len(map) \in Nat /\ map \in Seq([addr : Nat, len : Nat, usable : BOOLEAN])
      BY <3>1, MapTypes, MapAssumption
    <3>3. DOMAIN map = 1..Len(map)
      BY <3>2
    <3> QED
      BY <3>1, <3>2, <3>3, MapTypes
  <2>6. regions[j] \in Regions /\ Paged(regions[j])
    BY DEF IInv, EntriesRead
  <2>7. a + PageSize <= regions[j].end /\ regions[j].start <= a
    BY <2>1, <2>2, <2>3, <2>6, AlignedGap DEF In, Paged, Regions
  <2>8. a >= MinimumAddr /\ map[i].addr <= a /\ a + PageSize <= map[i].addr + map[i].len
    BY <2>1, <2>4, <2>5, <2>6, <2>7, Sizes DEF CutFrom, Regions, EntryType
  <2>9. map[i].usable
    BY <2>4 DEF CutFrom, Below4GB
  <2> QED
    BY <2>5, <2>8, <2>9 DEF UsablePage, a
<1> QED
  BY <1>1, InvHolds, PTL

\* When alloc_page finds no region with room, every whole page of usable memory
\* above the kernel has been handed out: no page is lost between an entry and its
\* region, and the cursor passes no region that has one left.
THEOREM AllHandedOut ==
    ASSUME BelowTop
    PROVE  Spec => []RefusedOnlyWhenExhausted
<1>1. IInv => RefusedOnlyWhenExhausted
  <2> SUFFICES ASSUME IInv, refused, Len(map) <= MaxRegions,
                      NEW a \in WholePages, UsablePage(a)
               PROVE  a \in ToSet(handed)
    BY DEF RefusedOnlyWhenExhausted
  <2>1. a \in Nat /\ Aligned(a) /\ a < WordSize
    <3> DEFINE n == WordSize \div PageSize
    <3>1. n \in Nat /\ n * PageSize <= WordSize
      BY Sizes
    <3>2. PICK q \in 0..(n - 1) : a = PageSize * q
      BY DEF WholePages
    <3> HIDE DEF n
    <3>3. q \in Nat /\ q + 1 <= n
      BY <3>1, <3>2
    <3>4. (q + 1) * PageSize <= n * PageSize
      BY <3>1, <3>3, Sizes
    <3>5. (q + 1) * PageSize = q * PageSize + PageSize /\ a = q * PageSize /\ a \in Nat
      BY <3>2, <3>3, Sizes
    <3> QED
      BY <3>1, <3>3, <3>4, <3>5, Sizes DEF Aligned
  <2>2. /\ ~Reading /\ cursor = Len(regions) + 1 /\ map \in Maps
        /\ entry \in 1..(Len(map) + 1) /\ Len(regions) <= entry - 1 /\ Len(regions) \in Nat
    BY DEF IInv, EntriesRead, Walked
  <2>3. Len(map) \in Nat /\ DOMAIN map = 1..Len(map)
    BY <2>2, MapAssumption
  <2>4. entry = Len(map) + 1
    BY <2>2, <2>3, Sizes DEF Reading
  <2>5. PICK i \in 1..Len(map) : /\ map[i].usable /\ map[i].addr <= a
                                 /\ a + PageSize <= map[i].addr + map[i].len
    BY <2>3 DEF UsablePage
  <2>6. map[i].addr \in Nat
    BY <2>2, MapTypes DEF EntryType
  <2>7. PageOf(a, map[i])
    BY <2>1, <2>5, <2>6, Sizes DEF PageOf, Below4GB, UsablePage
  <2>8. PICK j \in 1..Len(regions) : In(a, regions[j])
    BY <2>3, <2>4, <2>7 DEF IInv, EntriesRead
  <2>9. regions[j].current = regions[j].end
    BY <2>2, UsedUp
  <2>10. a < regions[j].current
    BY <2>8, <2>9 DEF In
  <2> QED
    BY <2>1, <2>8, <2>10 DEF IInv, Walked
<1> QED
  BY <1>1, InvHolds, PTL

\* No frame is taken from the regions twice, and none once a request was refused,
\* if no two usable entries of the map overlap: the code does not merge them.
THEOREM FreshAlways ==
    ASSUME BelowTop, NoOverlap
    PROVE  Spec => FreshOnce
<1>1. IInv /\ RegionsApart /\ [Next]_vars => IInv' /\ RegionsApart'
  BY NextInv
<1>2. IInv /\ RegionsApart /\ [Next]_vars =>
        [handed' # handed => ~refused /\ Last(handed') \notin ToSet(handed)]_vars
  BY AllocStep DEF Next, ReadEntry, AllocRefused, vars
<1> QED
  BY <1>1, <1>2, InitInv, PTL DEF Spec, FreshOnce
=============================================================================
