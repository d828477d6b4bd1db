---------------------------- MODULE MemoryProofs ----------------------------
(***************************************************************************)
(* The allocators of physical frames (PhysAlloc), of kernel addresses      *)
(* (VirtualAlloc) and of the kernel heap (KernelHeap), for any memory map, *)
(* page size, pool, number of list nodes, callers and sizes of requests.   *)
(* The last two keep the same kind of list, and the lemmas on taking from  *)
(* it and giving back to it serve both.                                    *)
(***************************************************************************)
EXTENDS PhysAlloc, VirtualAlloc, KernelHeap, NumberLemmas, FiniteSetTheorems,
        SequenceTheorems, TLAPS

\* What FreeFramesAreRam says of one frame.
InMemory(f) ==
    bootInfo.map # NoMap =>
        /\ \E r \in bootInfo.map :
             r.usable /\ r.base <= f * Grain /\ (f + 1) * Grain <= r.base + r.length
        /\ f \in High => ~ \E x \in 0..(bootInfo.fb.length - 1) :
                             (bootInfo.fb.base + x) \div Grain = f

\* A frame that has been handed out will be free again, so it is memory too;
\* what boot reserved is never given back.
FramesKnown ==
    /\ booting \in BOOLEAN
    /\ booting => held = {} /\ reserved = {}
    /\ reserved \subseteq used
    /\ \A f \in Low \cup High : f \notin used \/ (\E r \in held : f \in Pages(r)) => InMemory(f)

PhysInv == FramesKnown /\ FramesAccounted

\* FirstRun finds a run of free frames, if there is one.
LEMMA FirstRunIsFree ==
    ASSUME NEW S, S \subseteq Nat, NEW c \in Nat \ {0}, NEW s, s = FirstRun(S, c)
    PROVE  \/ s \in S /\ s \in Nat /\ Run(s, c) \subseteq S /\ s \in Run(s, c)
           \/ s = 0 /\ ~(Run(s, c) \subseteq S)
<1> DEFINE starts == {x \in S : Run(x, c) \subseteq S}
<1>1. CASE starts = {}
    <2>1. s = 0
        BY <1>1 DEF FirstRun
    <2>2. 0 \in Run(0, c)
        BY DEF Run
    <2> QED BY <1>1, <2>1, <2>2
<1>2. CASE starts # {}
    <2>1. s = Min(starts) /\ starts \subseteq Nat
        BY <1>2 DEF FirstRun
    <2>2. s \in starts
        BY <1>2, <2>1, LeastMember
    <2>3. s \in Nat /\ s \in Run(s, c)
        BY <2>2 DEF Run
    <2> QED BY <2>2, <2>3
<1> QED BY <1>1, <1>2

\* A frame that the memory map leaves free lies wholly in one usable region.
LEMMA UsableIsWhole ==
    ASSUME NEW r \in [base : Nat, length : Nat, usable : BOOLEAN], NEW f \in Nat, f \in Usable(r)
    PROVE  r.base <= f * Grain /\ (f + 1) * Grain <= r.base + r.length
<1>0. Grain \in Nat \ {0} /\ r.base \in Nat /\ r.length \in Nat
    BY FrameAssumption
<1>1. PICK up \in Nat : up = r.base + Grain - 1
    BY <1>0
<1>2. PICK end \in Nat : end = r.base + r.length
    BY <1>0
<1>3. up \div Grain <= f /\ f + 1 <= end \div Grain /\ up \div Grain \in Nat /\ end \div Grain \in Nat
    BY <1>0, <1>1, <1>2 DEF Usable, PagesUp, PagesDown
<1>4. (f + 1) * Grain <= end
    BY <1>0, <1>3, QuotientBound
<1>5. ~((f + 1) * Grain <= up)
    <2>1. ~(f + 1 <= up \div Grain)
        BY <1>3
    <2> QED BY <1>0, <2>1, QuotientBound
<1>6. (f + 1) * Grain = f * Grain + Grain /\ f * Grain \in Nat
    BY <1>0
<1> QED BY <1>0, <1>1, <1>2, <1>4, <1>5, <1>6

\* A frame outside the frame buffer's frames holds no byte of it.
LEMMA OutsideFrameBuffer ==
    ASSUME NEW fb \in [base : Nat, length : Nat], NEW f \in Nat, f \notin FrameBufferFrames(fb),
           NEW x \in 0..(fb.length - 1)
    PROVE  (fb.base + x) \div Grain # f
<1>0. Grain \in Nat \ {0} /\ fb.base \in Nat /\ fb.length \in Nat /\ x \in Nat /\ x < fb.length
    BY FrameAssumption
<1>1. PICK a \in Nat : a = fb.base + x
    BY <1>0
<1>2. PICK up \in Nat : up = fb.base + fb.length + Grain - 1
    BY <1>0
<1> SUFFICES ASSUME a \div Grain = f PROVE FALSE
    BY <1>1
<1>3. f * Grain <= a
    BY <1>0, QuotientBound
<1>4. ~((f + 1) * Grain <= a)
    BY <1>0, QuotientBound
<1>5. (f + 1) * Grain = f * Grain + Grain /\ f * Grain \in Nat
    BY <1>0
<1>6. fb.base \div Grain \in Nat /\ up \div Grain \in Nat
    BY <1>0
<1>7. ~(f + 1 <= fb.base \div Grain)
    <2>1. ~((f + 1) * Grain <= fb.base)
        BY <1>0, <1>1, <1>4, <1>5
    <2> QED BY <1>0, <2>1, QuotientBound
<1>8. f + 1 <= up \div Grain
    <2>1. (f + 1) * Grain <= up
        BY <1>0, <1>1, <1>2, <1>3, <1>5
    <2> QED BY <1>0, <2>1, QuotientBound, SMTT(30)
<1>9. f \in (fb.base \div Grain)..((up \div Grain) - 1)
    BY <1>6, <1>7, <1>8
<1> QED BY <1>2, <1>9 DEF FrameBufferFrames, PagesDown, PagesUp

LEMMA FrameNumbers == Low \subseteq Nat /\ High \subseteq Nat /\ 0 \notin High
BY FrameAssumption DEF Low, High

LEMMA FramesInitially == Physical => PhysInv
<1> SUFFICES ASSUME Physical PROVE PhysInv
    OBVIOUS
<1>1. /\ bootInfo.map \in MemMaps \cup {NoMap} /\ bootInfo.fb \in FrameBuffers
      /\ booting = TRUE /\ held = {} /\ reserved = {}
      /\ used = ((Low \cup High) \ FreeAtBoot(bootInfo.map))
                \cup (FrameBufferFrames(bootInfo.fb) \cap High)
    BY DEF Physical
<1>2. ASSUME NEW f \in Low \cup High, f \notin used, bootInfo.map # NoMap
      PROVE  /\ \E r \in bootInfo.map :
                  r.usable /\ r.base <= f * Grain /\ (f + 1) * Grain <= r.base + r.length
             /\ f \in High => ~ \E x \in 0..(bootInfo.fb.length - 1) :
                                  (bootInfo.fb.base + x) \div Grain = f
    <2>0. f \in Nat
        BY FrameNumbers
    <2>1. f \in FreeAtBoot(bootInfo.map) /\ (f \in High => f \notin FrameBufferFrames(bootInfo.fb))
        BY <1>1, <1>2
    <2>2. PICK r \in bootInfo.map : r.usable /\ f \in Usable(r)
        BY <2>1, <1>2 DEF FreeAtBoot
    <2>3. r \in [base : Nat, length : Nat, usable : BOOLEAN]
        BY <1>1, <1>2, FrameAssumption
    <2>4. bootInfo.fb \in [base : Nat, length : Nat]
        BY <1>1, FrameAssumption
    <2>5. r.base <= f * Grain /\ (f + 1) * Grain <= r.base + r.length
        BY <2>0, <2>2, <2>3, UsableIsWhole
    <2>6. f \in High => \A x \in 0..(bootInfo.fb.length - 1) :
                           (bootInfo.fb.base + x) \div Grain # f
        BY <2>0, <2>1, <2>4, OutsideFrameBuffer
    <2> QED BY <2>2, <2>5, <2>6
<1>3. FramesKnown
    BY <1>1, <1>2 DEF FramesKnown, InMemory
<1>4. FramesAccounted
    BY <1>1 DEF FramesAccounted
<1> QED BY <1>3, <1>4 DEF PhysInv

\* The two allocators have in common: nothing changes, a free run is handed out, or
\* the run at frame 0 is marked and nobody gets it.
LEMMA TakingKeepsFrames ==
    ASSUME PhysInv, ~booting, NEW s \in Nat, NEW c \in Nat \ {0},
           UNCHANGED <<bootInfo, booting, reserved>>,
           s \in Run(s, c), Run(s, c) \subseteq (Low \cup High) \ used,
           used' = used \cup Run(s, c),
           held' = IF s = 0 THEN held ELSE held \cup {PageRange(s, c)}
    PROVE  PhysInv'
<1>1. Pages(PageRange(s, c)) = Run(s, c)
    BY DEF Pages, PageRange
<1>2. \A f : InMemory(f)' <=> InMemory(f)
    BY DEF InMemory, High
<1>3. \A f \in Run(s, c) : InMemory(f)
    BY DEF PhysInv, FramesKnown
<1>4. held' = held \/ held' = held \cup {PageRange(s, c)}
    OBVIOUS
<1>5. FramesKnown'
    <2>1. ASSUME NEW f \in Low \cup High, f \notin used' \/ (\E r \in held' : f \in Pages(r))
          PROVE  InMemory(f)
        <3>1. f \notin used \/ (\E r \in held : f \in Pages(r)) \/ f \in Run(s, c)
            BY <2>1, <1>1, <1>4
        <3> QED BY <3>1, <1>3 DEF PhysInv, FramesKnown
    <2>2. (\A r : Pages(r)' = Pages(r)) /\ Low' = Low /\ High' = High
        BY DEF Pages, Run, Low, High
    <2> QED BY <2>1, <2>2, <1>2 DEF PhysInv, FramesKnown
<1>6. FramesAccounted'
    <2>1. \A r \in held : Pages(r) \subseteq used \ reserved
        BY DEF PhysInv, FramesAccounted
    <2>2. Run(s, c) \cap used = {} /\ reserved \subseteq used
        BY DEF PhysInv, FramesKnown
    <2>3. \A r \in held' : Pages(r) \subseteq used' \ reserved'
        BY <1>1, <1>4, <2>1, <2>2
    <2>4. \A r1, r2 \in held' : r1 # r2 => Pages(r1) \cap Pages(r2) = {}
        <3>1. \A r1, r2 \in held : r1 # r2 => Pages(r1) \cap Pages(r2) = {}
            BY DEF PhysInv, FramesAccounted
        <3>2. \A r \in held : Pages(r) \cap Run(s, c) = {}
            BY <2>1, <2>2
        <3> QED BY <3>1, <3>2, <1>1, <1>4
    <2>5. ASSUME ~booting', 0 \in reserved' PROVE used' = reserved' \cup UNION {Pages(r) : r \in held'}
        <3>1. used = reserved \cup UNION {Pages(r) : r \in held}
            BY <2>5 DEF PhysInv, FramesAccounted
        <3>2. held' = held \cup {PageRange(s, c)}
            \* Frame 0 is reserved, so the run does not start there.
            BY <2>2, <2>5
        <3>3. UNION {Pages(r) : r \in held'} = (UNION {Pages(r) : r \in held}) \cup Run(s, c)
            BY <3>2, <1>1
        <3> QED BY <3>1, <3>3
    <2>6. \A r : Pages(r)' = Pages(r)
        BY DEF Pages, Run
    <2> QED BY <2>3, <2>4, <2>5, <2>6 DEF FramesAccounted
<1> QED BY <1>5, <1>6 DEF PhysInv

LEMMA SameFrames ==
    ASSUME PhysInv, UNCHANGED physVars
    PROVE  PhysInv'
BY DEF PhysInv, FramesKnown, FramesAccounted, InMemory, Pages, Run, Low, High, physVars

LEMMA AllocKeepsFrames ==
    ASSUME PhysInv, NEW c \in RunSizes, PhysicalAllocPages(c) \/ PhysicalAllocLowPages(c)
    PROVE  PhysInv'
<1>0. c \in Nat \ {0}
    BY FrameAssumption
<1>1. CASE PhysicalAllocPages(c)
    <2>1. PICK s : s = FirstRun(High \ used, c)
        OBVIOUS
    <2>2. /\ ~booting /\ UNCHANGED <<bootInfo, booting, reserved>>
          /\ held' = IF s = 0 THEN held ELSE held \cup {PageRange(s, c)}
          /\ used' = IF s = 0 THEN used ELSE used \cup Run(s, c)
        BY <1>1, <2>1 DEF PhysicalAllocPages, Hand
    <2>3. CASE s = 0
        <3>1. UNCHANGED physVars
            BY <2>2, <2>3 DEF physVars
        <3> QED BY <3>1, SameFrames
    <2>4. CASE s # 0
        <3>1. s \in Nat /\ Run(s, c) \subseteq High \ used /\ s \in Run(s, c)
            BY <1>0, <2>1, <2>4, FirstRunIsFree, FrameNumbers
        <3>2. Run(s, c) \subseteq (Low \cup High) \ used /\ used' = used \cup Run(s, c)
            BY <3>1, <2>2, <2>4
        <3> QED BY <1>0, <2>2, <3>1, <3>2, TakingKeepsFrames
    <2> QED BY <2>3, <2>4
<1>2. CASE PhysicalAllocLowPages(c)
    <2>1. PICK s : s = FirstRun(Low \ used, c)
        OBVIOUS
    <2>2. /\ ~booting /\ UNCHANGED <<bootInfo, booting, reserved>>
          /\ held' = IF s = 0 THEN held ELSE held \cup {PageRange(s, c)}
          /\ used' = IF Run(s, c) \subseteq Low \ used THEN used \cup Run(s, c) ELSE used
        BY <1>2, <2>1 DEF PhysicalAllocLowPages, Hand
    <2>3. CASE ~(Run(s, c) \subseteq Low \ used)
        <3>1. s = 0
            BY <1>0, <2>1, <2>3, FirstRunIsFree, FrameNumbers
        <3>2. UNCHANGED physVars
            BY <2>2, <2>3, <3>1 DEF physVars
        <3> QED BY <3>2, SameFrames
    <2>4. CASE Run(s, c) \subseteq Low \ used
        <3>1. s \in Nat /\ s \in Run(s, c)
            <4>1. Low \ used \subseteq Nat /\ c \in Nat \ {0}
                BY <1>0, FrameNumbers
            <4> QED BY <2>1, <2>4, <4>1, FirstRunIsFree, ZenonT(30)
        <3>2. Run(s, c) \subseteq (Low \cup High) \ used /\ used' = used \cup Run(s, c)
            BY <2>2, <2>4
        <3> QED BY <1>0, <2>2, <3>1, <3>2, TakingKeepsFrames
    <2> QED BY <2>3, <2>4
<1> QED BY <1>1, <1>2

LEMMA FreeKeepsFrames ==
    ASSUME PhysInv, NEW r \in held, PhysicalFreePages(r)
    PROVE  PhysInv'
<1>1. /\ ~booting /\ used' = used \ Pages(r) /\ held' = held \ {r}
      /\ UNCHANGED <<bootInfo, booting, reserved>>
    BY DEF PhysicalFreePages
<1>2. (\A f : InMemory(f)' <=> InMemory(f)) /\ (\A x : Pages(x)' = Pages(x)) /\ Low' = Low /\ High' = High
    BY <1>1 DEF InMemory, High, Low, Pages, Run
<1>3. Pages(r) \subseteq used \ reserved
    BY DEF PhysInv, FramesAccounted
<1>4. FramesKnown'
    <2>1. ASSUME NEW f \in Low \cup High, f \notin used' \/ (\E x \in held' : f \in Pages(x))
          PROVE  InMemory(f)
        <3>1. f \notin used \/ (\E x \in held : f \in Pages(x))
            BY <2>1, <1>1
        <3> QED BY <3>1 DEF PhysInv, FramesKnown
    <2>2. reserved' \subseteq used'
        BY <1>1, <1>3 DEF PhysInv, FramesKnown
    <2> QED BY <1>1, <1>2, <2>1, <2>2 DEF FramesKnown, PhysInv
<1>5. FramesAccounted'
    <2>1. \A x \in held : x # r => Pages(x) \cap Pages(r) = {}
        BY DEF PhysInv, FramesAccounted
    <2>2. \A x \in held' : Pages(x) \subseteq used' \ reserved'
        BY <1>1, <2>1 DEF PhysInv, FramesAccounted
    <2>3. \A x, y \in held' : x # y => Pages(x) \cap Pages(y) = {}
        BY <1>1 DEF PhysInv, FramesAccounted
    <2>4. ASSUME 0 \in reserved' PROVE used' = reserved' \cup UNION {Pages(x) : x \in held'}
        <3>1. used = reserved \cup UNION {Pages(x) : x \in held}
            BY <2>4, <1>1 DEF PhysInv, FramesAccounted
        <3>2. UNION {Pages(x) : x \in held'} = (UNION {Pages(x) : x \in held}) \ Pages(r)
            BY <1>1, <2>1
        <3> QED BY <1>1, <1>3, <3>1, <3>2
    <2> QED BY <1>2, <2>2, <2>3, <2>4 DEF FramesAccounted
<1> QED BY <1>4, <1>5 DEF PhysInv

LEMMA BootKeepsFrames ==
    ASSUME PhysInv,
           BootDone \/ \E s \in Low \cup High, c \in RunSizes : PhysicalReserve(s, c)
    PROVE  PhysInv'
<1>1. /\ booting /\ held = {} /\ held' = {} /\ bootInfo' = bootInfo /\ used \subseteq used'
      /\ \/ booting' = FALSE /\ reserved' = used /\ used' = used
         \/ booting' = booting /\ reserved' = reserved /\ reserved = {}
    BY DEF BootDone, PhysicalReserve, PhysInv, FramesKnown
<1>2. (\A f : InMemory(f)' <=> InMemory(f)) /\ Low' = Low /\ High' = High
    BY <1>1 DEF InMemory, High, Low
<1>3. FramesKnown'
    BY <1>1, <1>2 DEF PhysInv, FramesKnown
<1>4. FramesAccounted'
    BY <1>1 DEF FramesAccounted, PhysInv, FramesKnown
<1> QED BY <1>3, <1>4 DEF PhysInv

\* Whatever the memory map and the frame buffer, the frames that can be handed out
\* are memory and the ones handed out are marked, disjoint and given back whole
\* (PageAlloc::Physical, PhysicalReserve, PhysicalAllocPages, PhysicalFreePages and
\* their low counterparts).
THEOREM FramesStaySound == PhysSpec => []FramesAreSound
<1>1. PhysInv /\ [PhysNext]_physVars => PhysInv'
    <2> SUFFICES ASSUME PhysInv, [PhysNext]_physVars PROVE PhysInv'
        OBVIOUS
    <2>1. CASE UNCHANGED physVars
        BY <2>1, SameFrames
    <2>2. CASE BootDone \/ \E s \in Low \cup High, c \in RunSizes : PhysicalReserve(s, c)
        BY <2>2, BootKeepsFrames
    <2>3. CASE \E c \in RunSizes : PhysicalAllocPages(c) \/ PhysicalAllocLowPages(c)
        BY <2>3, AllocKeepsFrames
    <2>4. CASE \E r \in held : PhysicalFreePages(r)
        BY <2>4, FreeKeepsFrames
    <2> QED BY <2>1, <2>2, <2>3, <2>4 DEF PhysNext
<1>2. PhysInv => FramesAreSound
    BY DEF PhysInv, FramesKnown, InMemory, FramesAreSound, FreeFramesAreRam
<1> QED BY <1>1, <1>2, FramesInitially, PTL DEF PhysSpec

-----------------------------------------------------------------------------
(***************************************************************************)
(* The list of free virtual ranges.                                        *)
(***************************************************************************)
Ranges == [start : Nat, count : Nat \ {0}]

Ascends(l) == \A i, j \in 1..Len(l) : i < j => l[i].start + l[i].count < l[j].start
Listed(l, p) == \E i \in 1..Len(l) : p \in Pages(l[i])

\* A page is in one range of the list at most.
LEMMA ListedOnce ==
    ASSUME NEW l \in Seq(Ranges), Ascends(l), NEW i \in 1..Len(l), NEW j \in 1..Len(l), i # j,
           NEW p \in Pages(l[i])
    PROVE  p \notin Pages(l[j])
<1>1. l[i] \in Ranges /\ l[j] \in Ranges /\ Len(l) \in Nat
    OBVIOUS
<1>2. PICK s, c, t, d \in Nat : s = l[i].start /\ c = l[i].count /\ t = l[j].start /\ d = l[j].count
    BY <1>1 DEF Ranges
<1>3. s + c < t \/ t + d < s
    BY <1>2 DEF Ascends
<1>4. p \in s..(s + c - 1)
    BY <1>2 DEF Pages, Run
<1>5. p \notin t..(t + d - 1)
    BY <1>3, <1>4
<1> QED BY <1>2, <1>5 DEF Pages, Run

\* m is u, of length a, with v, of length b, behind it.
IsJoin(m, u, v, a, b) ==
    /\ Len(m) = a + b
    /\ \A j \in 1..a : m[j] = u[j]
    /\ \A j \in (a + 1)..(a + b) : m[j] = v[j - a]

LEMMA Joined ==
    ASSUME NEW S, NEW u \in Seq(S), NEW v \in Seq(S)
    PROVE  u \o v \in Seq(S) /\ IsJoin(u \o v, u, v, Len(u), Len(v))
<1>1. PICK m : m = u \o v
    OBVIOUS
<1>2. PICK a, b \in Nat : a = Len(u) /\ b = Len(v)
    OBVIOUS
<1>3. m \in Seq(S) /\ Len(m) = a + b
    BY <1>1, <1>2, ConcatProperties
<1>4. \A j \in 1..(a + b) : m[j] = IF j <= a THEN u[j] ELSE v[j - a]
    BY <1>1, <1>2, ConcatProperties
<1>5. \A j \in 1..a : j \in 1..(a + b) /\ j <= a
    BY <1>2
<1>6. \A j \in (a + 1)..(a + b) : j \in 1..(a + b) /\ ~(j <= a)
    BY <1>2
<1>7. IsJoin(m, u, v, a, b)
    BY <1>3, <1>4, <1>5, <1>6 DEF IsJoin
<1> QED BY <1>1, <1>2, <1>3, <1>7

\* A tail of a list.
\* v is what l, of length n, has from place b on.
IsTail(v, l, b, n, S) ==
    /\ v \in Seq(S) /\ Len(v) = n + 1 - b
    /\ \A j \in 1..(n + 1 - b) : v[j] = l[b - 1 + j]

LEMMA TailFrom ==
    ASSUME NEW S, NEW l \in Seq(S), NEW n \in Nat, n = Len(l), NEW b \in 1..(n + 1),
           NEW v, v = SubSeq(l, b, n)
    PROVE  IsTail(v, l, b, n, S)
<1>1. v \in Seq(S) /\ Len(v) = IF b <= n THEN n - b + 1 ELSE 0
    OBVIOUS
<1>2. Len(v) = n + 1 - b
    BY <1>1
<1>3. \A j \in 1..(n - b + 1) : v[j] = l[b + j - 1]
    OBVIOUS
<1>4. \A j \in 1..(n + 1 - b) : j \in 1..(n - b + 1) /\ b + j - 1 = b - 1 + j
    OBVIOUS
<1> QED BY <1>1, <1>2, <1>3, <1>4 DEF IsTail

\* m is l without its range in place i.
IsWithout(m, l, i) ==
    /\ m \in Seq(Ranges) /\ Len(m) = Len(l) - 1
    /\ \A j \in 1..(i - 1) : m[j] = l[j]
    /\ \A j \in i..Len(m) : m[j] = l[j + 1]

LEMMA Without ==
    ASSUME NEW l \in Seq(Ranges), NEW i \in 1..Len(l),
           NEW m, m = SubSeq(l, 1, i - 1) \o SubSeq(l, i + 1, Len(l))
    PROVE  IsWithout(m, l, i)
<1>1. PICK n \in Nat : n = Len(l) /\ i \in 1..n
    OBVIOUS
<1>2. PICK u : u = SubSeq(l, 1, i - 1)
    OBVIOUS
<1>3. PICK v : v = SubSeq(l, i + 1, n)
    OBVIOUS
<1>4. u \in Seq(Ranges) /\ Len(u) = i - 1 /\ \A j \in 1..(i - 1) : u[j] = l[j]
    BY <1>1, <1>2
<1>5. i + 1 \in 1..(n + 1) /\ n + 1 - (i + 1) = n - i /\ (i + 1) - 1 = i /\ n - i \in Nat /\ i - 1 \in Nat
    BY <1>1
<1>6. v \in Seq(Ranges) /\ Len(v) = n - i /\ \A j \in 1..(n - i) : v[j] = l[i + j]
    <2>1. IsTail(v, l, i + 1, n, Ranges)
        BY <1>1, <1>3, <1>5, TailFrom, Zenon
    <2> QED BY <1>5, <2>1 DEF IsTail
<1>7. /\ m \in Seq(Ranges) /\ Len(m) = (i - 1) + (n - i)
      /\ \A j \in 1..(i - 1) : m[j] = u[j]
      /\ \A j \in ((i - 1) + 1)..((i - 1) + (n - i)) : m[j] = v[j - (i - 1)]
    <2>1. PICK a, b \in Nat : a = i - 1 /\ b = n - i
        BY <1>5
    <2>2. m = u \o v /\ Len(u) = a /\ Len(v) = b /\ u \in Seq(Ranges) /\ v \in Seq(Ranges)
        BY <1>1, <1>2, <1>3, <1>4, <1>6, <2>1
    <2>3. m \in Seq(Ranges) /\ IsJoin(m, u, v, a, b)
        BY <2>2, Joined, Zenon
    <2> QED BY <2>1, <2>3 DEF IsJoin
<1>8. \A j \in i..(n - 1) : /\ j \in ((i - 1) + 1)..((i - 1) + (n - i)) /\ j - (i - 1) \in 1..(n - i)
                            /\ i + (j - (i - 1)) = j + 1
    BY <1>1
<1>9. (i - 1) + (n - i) = n - 1
    BY <1>1
<1>10. \A j \in i..(n - 1) : m[j] = l[j + 1]
    BY <1>6, <1>7, <1>8
<1> QED BY <1>1, <1>4, <1>7, <1>9, <1>10 DEF IsWithout

\* m is l, of length n, with x in the place of the ranges between a and b.
IsSplice(m, l, n, a, b, x) ==
    /\ m \in Seq(Ranges) /\ Len(m) = a + 1 + (n + 1 - b)
    /\ \A j \in 1..a : m[j] = l[j]
    /\ m[a + 1] = x
    /\ \A j \in (a + 2)..(a + 1 + (n + 1 - b)) : m[j] = l[b - 2 - a + j]

LEMMA Spliced ==
    ASSUME NEW l \in Seq(Ranges), NEW n \in Nat, n = Len(l),
           NEW a \in 0..n, NEW b \in (a + 1)..(n + 1), NEW x \in Ranges,
           NEW m, m = SubSeq(l, 1, a) \o <<x>> \o SubSeq(l, b, n)
    PROVE  IsSplice(m, l, n, a, b, x)
<1>1. PICK u : u = SubSeq(l, 1, a)
    OBVIOUS
<1>2. PICK v : v = SubSeq(l, b, n)
    OBVIOUS
<1>3. PICK d \in Nat : d = n + 1 - b
    <2>1. n + 1 - b \in Nat
        BY SMTT(30)
    <2> QED BY <2>1, Zenon
<1>4. PICK c \in Nat : c = a + 1 /\ a \in Nat
    <2>1. a \in Nat /\ a + 1 \in Nat
        BY SMTT(30)
    <2> QED BY <2>1, Zenon
<1>5. u \in Seq(Ranges) /\ Len(u) = a /\ \A j \in 1..a : u[j] = l[j]
    BY <1>1
<1>6. b \in 1..(n + 1)
    OBVIOUS
<1>7. v \in Seq(Ranges) /\ Len(v) = d /\ \A j \in 1..d : v[j] = l[b - 1 + j]
    <2>1. IsTail(v, l, b, n, Ranges)
        BY <1>2, <1>6, TailFrom, Zenon
    <2> QED BY <1>3, <2>1 DEF IsTail
<1>8. PICK w : w = <<x>>
    OBVIOUS
<1>9. w \in Seq(Ranges) /\ Len(w) = 1 /\ w[1] = x
    BY <1>8
<1>10. PICK k : k = u \o w
    OBVIOUS
<1>11. k \in Seq(Ranges) /\ IsJoin(k, u, w, a, 1)
    BY <1>5, <1>9, <1>10, Joined, Zenon
<1>12. m = k \o v
    BY <1>1, <1>2, <1>8, <1>10
<1>13. m \in Seq(Ranges) /\ IsJoin(m, k, v, c, d)
    <2>1. Len(k) = c
        BY <1>4, <1>11 DEF IsJoin
    <2> QED BY <1>7, <1>11, <1>12, <2>1, Joined, Zenon
<1>14. \A j \in 1..a : m[j] = l[j]
    <2>1. \A j \in 1..a : j \in 1..c
        BY <1>4
    <2> QED BY <1>5, <1>11, <1>13, <2>1 DEF IsJoin
<1>15. m[a + 1] = x
    <2>1. a + 1 \in 1..c /\ a + 1 \in (a + 1)..(a + 1) /\ (a + 1) - a = 1
        BY <1>4
    <2> QED BY <1>9, <1>11, <1>13, <2>1 DEF IsJoin
<1>16. ASSUME NEW j \in (a + 2)..(a + 1 + (n + 1 - b)) PROVE m[j] = l[b - 2 - a + j]
    <2>1. j \in (c + 1)..(c + d) /\ j - c \in 1..d /\ b - 1 + (j - c) = b - 2 - a + j
        BY <1>3, <1>4
    <2> QED BY <1>7, <1>13, <2>1 DEF IsJoin
<1> QED BY <1>3, <1>4, <1>13, <1>14, <1>15, <1>16 DEF IsJoin, IsSplice

\* A range put where it fits keeps the list ascending.
FitsIn(m, l, n, a, b, x) ==
    /\ m \in Seq(Ranges) /\ Len(m) = a + 1 + (n + 1 - b) /\ Ascends(m)
    /\ \A q : Listed(m, q) <=> q \in Pages(x) \/ \E i \in (1..a) \cup (b..n) : q \in Pages(l[i])

LEMMA SpliceAscends ==
    ASSUME NEW l \in Seq(Ranges), Ascends(l), NEW n \in Nat, n = Len(l),
           NEW a \in 0..n, NEW b \in (a + 1)..(n + 1), NEW x \in Ranges,
           NEW m, m = SubSeq(l, 1, a) \o <<x>> \o SubSeq(l, b, n),
           \A i \in 1..a : l[i].start + l[i].count < x.start,
           \A i \in b..n : x.start + x.count < l[i].start
    PROVE  FitsIn(m, l, n, a, b, x)
<1>1. /\ m \in Seq(Ranges) /\ Len(m) = a + 1 + (n + 1 - b)
      /\ \A j \in 1..a : m[j] = l[j]
      /\ m[a + 1] = x
      /\ \A j \in (a + 2)..(a + 1 + (n + 1 - b)) : m[j] = l[b - 2 - a + j]
    <2>1. IsSplice(m, l, n, a, b, x)
        BY Spliced, Zenon
    <2> QED BY <2>1 DEF IsSplice
<1>2. PICK k \in Nat : k = a + 1 + (n + 1 - b) /\ a \in Nat /\ b \in Nat /\ a + 1 <= k
    OBVIOUS
<1>3. \A j \in (a + 2)..k : b - 2 - a + j \in b..n
    BY <1>2
<1>4. \A j \in 1..k : j \in 1..a \/ j = a + 1 \/ j \in (a + 2)..k
    BY <1>2
<1>5. ASSUME NEW i \in 1..k, NEW j \in 1..k, i < j PROVE m[i].start + m[i].count < m[j].start
    <2>1. CASE j \in 1..a
        <3>1. i \in 1..a /\ i \in 1..n /\ j \in 1..n
            BY <1>2, <1>5, <2>1
        <3> QED BY <1>1, <1>5, <2>1, <3>1 DEF Ascends
    <2>2. CASE j = a + 1
        <3>1. i \in 1..a
            BY <1>2, <1>5, <2>2
        <3> QED BY <1>1, <2>2, <3>1
    <2>3. CASE j \in (a + 2)..k
        <3>1. m[j] = l[b - 2 - a + j] /\ b - 2 - a + j \in b..n
            BY <1>1, <1>2, <1>3, <2>3
        <3>2. CASE i \in 1..a
            <4>1. i \in 1..n /\ b - 2 - a + j \in 1..n /\ i < b - 2 - a + j
                BY <1>2, <3>1, <3>2
            <4> QED BY <1>1, <3>1, <3>2, <4>1 DEF Ascends
        <3>3. CASE i = a + 1
            BY <1>1, <3>1, <3>3
        <3>4. CASE i \in (a + 2)..k
            <4>1. m[i] = l[b - 2 - a + i] /\ b - 2 - a + i \in b..n
                BY <1>1, <1>2, <1>3, <3>4
            <4>2. b - 2 - a + i \in 1..n /\ b - 2 - a + j \in 1..n /\ b - 2 - a + i < b - 2 - a + j
                <5>1. i \in Int /\ j \in Int /\ i < j /\ a \in Int /\ b \in Int
                    BY <1>2, <1>5
                <5>2. b - 2 - a + i < b - 2 - a + j
                    BY <5>1
                <5>3. \A k1 \in b..n : k1 \in 1..n
                    BY <1>2
                <5> QED BY <3>1, <4>1, <5>2, <5>3
            <4> QED BY <3>1, <4>1, <4>2 DEF Ascends
        <3> QED BY <1>4, <3>2, <3>3, <3>4
    <2> QED BY <1>4, <2>1, <2>2, <2>3
<1>6. Ascends(m)
    BY <1>1, <1>2, <1>5 DEF Ascends
<1>7. ASSUME NEW q PROVE Listed(m, q) <=> q \in Pages(x) \/ \E i \in (1..a) \cup (b..n) : q \in Pages(l[i])
    <2>1. ASSUME Listed(m, q)
          PROVE  q \in Pages(x) \/ \E i \in (1..a) \cup (b..n) : q \in Pages(l[i])
        <3>1. PICK j \in 1..k : q \in Pages(m[j])
            BY <1>1, <1>2, <2>1 DEF Listed
        <3>2. CASE j \in 1..a
            BY <1>1, <3>1, <3>2
        <3>3. CASE j = a + 1
            BY <1>1, <3>1, <3>3
        <3>4. CASE j \in (a + 2)..k
            BY <1>1, <1>2, <1>3, <3>1, <3>4
        <3> QED BY <1>4, <3>2, <3>3, <3>4
    <2>2. ASSUME q \in Pages(x) PROVE Listed(m, q)
        <3>1. a + 1 \in 1..k
            BY <1>2
        <3> QED BY <1>1, <1>2, <2>2, <3>1 DEF Listed
    <2>3. ASSUME NEW i \in (1..a) \cup (b..n), q \in Pages(l[i]) PROVE Listed(m, q)
        <3>1. CASE i \in 1..a
            <4>1. i \in 1..k
                BY <1>2, <3>1
            <4> QED BY <1>1, <1>2, <2>3, <3>1, <4>1 DEF Listed
        <3>2. CASE i \in b..n
            <4>1. PICK j \in (a + 2)..k : b - 2 - a + j = i
                <5>1. i - b + 2 + a \in (a + 2)..k /\ b - 2 - a + (i - b + 2 + a) = i
                    BY <1>2, <3>2
                <5> QED BY <5>1
            <4>2. j \in 1..k
                BY <1>2, <4>1
            <4> QED BY <1>1, <1>2, <2>3, <4>1, <4>2 DEF Listed
        <3> QED BY <3>1, <3>2
    <2> QED BY <2>1, <2>2, <2>3
<1> QED BY <1>1, <1>6, <1>7 DEF FitsIn

\* VirtualAllocPages takes c pages from the front of a range, and no others.
LEMMA TakenFromList ==
    ASSUME NEW l \in Seq(Ranges), Ascends(l), NEW i \in 1..Len(l), NEW c \in Nat \ {0},
           c <= l[i].count, NEW m, m = TakeFrom(l, i, c)
    PROVE  /\ m \in Seq(Ranges) /\ Ascends(m)
           /\ Len(m) = IF l[i].count = c THEN Len(l) - 1 ELSE Len(l)
           /\ \A q : Listed(m, q) <=> Listed(l, q) /\ q \notin Run(l[i].start, c)
<1>0. PICK n \in Nat : n = Len(l) /\ i \in 1..n
    OBVIOUS
<1>1. PICK s, d \in Nat : s = l[i].start /\ d = l[i].count /\ c <= d
    <2>1. l[i] \in Ranges
        OBVIOUS
    <2> QED BY <2>1 DEF Ranges
<1>2. CASE d = c
    <2>1. /\ m \in Seq(Ranges) /\ Len(m) = n - 1
          /\ \A j \in 1..(i - 1) : m[j] = l[j]
          /\ \A j \in i..(n - 1) : m[j] = l[j + 1]
        <3>1. m = SubSeq(l, 1, i - 1) \o SubSeq(l, i + 1, Len(l))
            BY <1>1, <1>2 DEF TakeFrom
        <3>2. IsWithout(m, l, i)
            BY <3>1, Without, Zenon
        <3> QED BY <1>0, <3>2 DEF IsWithout
    <2>2. PICK at \in [1..(n - 1) -> 1..n] :
             /\ \A j \in 1..(n - 1) : m[j] = l[at[j]] /\ at[j] # i
             /\ \A j, k \in 1..(n - 1) : j < k => at[j] < at[k]
             /\ \A k \in 1..n : k # i => \E j \in 1..(n - 1) : at[j] = k
        <3>1. PICK at : at = [j \in 1..(n - 1) |-> IF j < i THEN j ELSE j + 1]
            OBVIOUS
        <3>2. at \in [1..(n - 1) -> 1..n] /\ \A j \in 1..(n - 1) : at[j] # i
            BY <1>0, <3>1
        <3>3. \A j, k \in 1..(n - 1) : j < k => at[j] < at[k]
            BY <1>0, <3>1
        <3>4. ASSUME NEW k \in 1..n, k # i PROVE \E j \in 1..(n - 1) : at[j] = k
            <4>1. CASE k < i
                <5>1. k \in 1..(n - 1) /\ at[k] = k
                    BY <1>0, <3>1, <4>1
                <5> QED BY <5>1
            <4>2. CASE k > i
                <5>1. k - 1 \in 1..(n - 1) /\ at[k - 1] = k
                    BY <1>0, <3>1, <4>2
                <5> QED BY <5>1
            <4> QED BY <1>0, <3>4, <4>1, <4>2
        <3>5. ASSUME NEW j \in 1..(n - 1) PROVE m[j] = l[at[j]]
            <4>1. CASE j < i
                BY <1>0, <2>1, <3>1, <4>1
            <4>2. CASE ~(j < i)
                <5>1. j \in i..(n - 1) /\ at[j] = j + 1
                    BY <1>0, <3>1, <4>2
                <5> QED BY <2>1, <5>1
            <4> QED BY <4>1, <4>2
        <3> QED BY <3>2, <3>3, <3>4, <3>5
    <2>3. Ascends(m)
        <3>1. ASSUME NEW j \in 1..(n - 1), NEW k \in 1..(n - 1), j < k
              PROVE  m[j].start + m[j].count < m[k].start
            <4>1. at[j] \in 1..Len(l) /\ at[k] \in 1..Len(l) /\ at[j] < at[k]
                BY <1>0, <2>2, <3>1
            <4>2. l[at[j]].start + l[at[j]].count < l[at[k]].start
                BY <4>1 DEF Ascends
            <4> QED BY <2>2, <4>2
        <3> QED BY <2>1, <3>1 DEF Ascends
    <2>4. ASSUME NEW q PROVE Listed(m, q) <=> Listed(l, q) /\ q \notin Pages(l[i])
        <3>1. ASSUME NEW j \in 1..(n - 1), q \in Pages(m[j]) PROVE Listed(l, q) /\ q \notin Pages(l[i])
            <4>1. at[j] \in 1..Len(l) /\ at[j] # i /\ q \in Pages(l[at[j]])
                BY <1>0, <2>2, <3>1
            <4> QED BY <4>1, ListedOnce DEF Listed
        <3>2. ASSUME NEW k \in 1..n, q \in Pages(l[k]), q \notin Pages(l[i]) PROVE Listed(m, q)
            <4>1. PICK j \in 1..(n - 1) : at[j] = k
                BY <2>2, <3>2
            <4> QED BY <2>1, <2>2, <3>2, <4>1 DEF Listed
        <3> QED BY <1>0, <2>1, <3>1, <3>2 DEF Listed
    <2>5. Pages(l[i]) = Run(l[i].start, c)
        BY <1>1, <1>2 DEF Pages
    <2> QED BY <1>0, <1>1, <1>2, <2>1, <2>3, <2>4, <2>5
<1>3. CASE d # c
    <2>1. PICK x : x = [start |-> s + c, count |-> d - c]
        OBVIOUS
    <2>2. x \in Ranges /\ x.start = s + c /\ x.count = d - c /\ d - c > 0
        <3>1. s + c \in Nat /\ d - c \in Nat \ {0}
            BY <1>1, <1>3
        <3> QED BY <2>1, <3>1 DEF Ranges
    <2>3. m = [l EXCEPT ![i] = x]
        BY <1>1, <1>3, <2>1 DEF TakeFrom, PageRange
    <2>4. m \in Seq(Ranges) /\ Len(m) = n /\ m[i] = x /\ \A j \in 1..n : j # i => m[j] = l[j]
        BY <1>0, <2>2, <2>3
    <2>5. ASSUME NEW j \in 1..n, NEW k \in 1..n, j < k PROVE m[j].start + m[j].count < m[k].start
        <3>1. l[j].start + l[j].count < l[k].start
            BY <1>0, <2>5 DEF Ascends
        <3>2. l[j].start \in Nat /\ l[j].count \in Nat /\ l[k].start \in Nat
            <4>1. l[j] \in Ranges /\ l[k] \in Ranges
                BY <1>0
            <4> QED BY <4>1 DEF Ranges
        <3>3. x.start + x.count = s + d
            BY <1>1, <2>2, SMTT(30)
        <3>4. CASE j = i
            BY <1>0, <1>1, <2>4, <2>5, <3>1, <3>3, <3>4
        <3>5. CASE k = i
            <4>1. m[j] = l[j] /\ m[k].start = s + c /\ l[k].start = s
                BY <1>0, <1>1, <2>2, <2>4, <2>5, <3>5
            <4>2. PICK y, z \in Nat : y = l[j].start /\ z = l[j].count
                BY <3>2, Zenon
            <4>3. y + z < s
                BY <3>1, <4>1, <4>2, Zenon
            <4>4. s \in Nat /\ c \in Nat
                BY <1>1, Zenon
            <4>5. c \in Nat => y + z < s + c
                BY ONLY <4>3, s \in Nat, y \in Nat, z \in Nat
            <4> QED BY <4>1, <4>2, <4>4, <4>5
        <3>6. CASE j # i /\ k # i
            BY <2>4, <3>1, <3>6
        <3> QED BY <3>4, <3>5, <3>6
    <2>6. Ascends(m)
        BY <2>4, <2>5 DEF Ascends
    <2>7. ASSUME NEW q PROVE q \in Pages(x) <=> q \in Pages(l[i]) /\ q \notin Run(s, c)
        <3>0. s \in Int /\ c \in Int /\ d \in Int
            BY <1>1
        <3>1. (s + c) + (d - c) - 1 = s + d - 1
            BY <3>0
        <3>2. Pages(x) = (s + c)..(s + d - 1) /\ Pages(l[i]) = s..(s + d - 1)
            BY <1>1, <2>2, <3>1 DEF Pages, Run
        <3>3. q \in (s + c)..(s + d - 1) <=> q \in s..(s + d - 1) /\ q \notin s..(s + c - 1)
            BY <1>1
        <3> QED BY <3>2, <3>3 DEF Run
    <2>8. ASSUME NEW q PROVE Listed(m, q) <=> Listed(l, q) /\ q \notin Run(s, c)
        <3>1. ASSUME NEW j \in 1..n, j # i, q \in Pages(l[j]) PROVE q \notin Run(s, c)
            <4>1. q \notin Pages(l[i])
                BY <1>0, <3>1, ListedOnce
            <4> QED BY <1>1, <4>1, SMTT(30) DEF Pages, Run
        <3>2. ASSUME NEW j \in 1..n, q \in Pages(m[j]) PROVE Listed(l, q) /\ q \notin Run(s, c)
            BY <1>0, <2>4, <2>7, <3>1, <3>2 DEF Listed
        <3>3. ASSUME NEW j \in 1..n, q \in Pages(l[j]), q \notin Run(s, c) PROVE Listed(m, q)
            BY <1>0, <2>4, <2>7, <3>3 DEF Listed
        <3> QED BY <1>0, <2>4, <3>2, <3>3 DEF Listed
    <2> QED BY <1>0, <1>1, <1>3, <2>4, <2>6, <2>8
<1> QED BY <1>2, <1>3

\* Where VirtualFreePages puts a range: behind those that start before it.
LEMMA WalkedPast ==
    ASSUME NEW l \in Seq(Ranges), Ascends(l), NEW n \in Nat, n = Len(l), NEW s \in Nat,
           NEW p, p = Before(l, s)
    PROVE  /\ p \in 0..n
           /\ \A i \in 1..p : l[i].start < s
           /\ \A i \in (p + 1)..n : s <= l[i].start
<1>1. PICK S : S = {x \in 0..n : \A i \in 1..x : l[i].start < s}
    OBVIOUS
<1>2. 0 \in S /\ S \subseteq 0..n
    BY <1>1
<1>3. p = Max(S)
    BY <1>1 DEF Before
<1>4. p \in S /\ \A x \in S : p >= x
    BY <1>2, <1>3, GreatestMember
<1>5. p \in 0..n /\ \A i \in 1..p : l[i].start < s
    BY <1>1, <1>4
<1>6. ASSUME NEW i \in (p + 1)..n PROVE s <= l[i].start
    <2>1. p + 1 \in 0..n /\ p + 1 \in 1..n /\ i \in 1..n /\ i >= p + 1
        BY <1>5
    <2>2. ~(p >= p + 1)
        BY <1>5
    <2>3. p + 1 \notin S
        BY <1>4, <2>2
    <2>4. PICK j \in 1..(p + 1) : ~(l[j].start < s)
        BY <1>1, <2>1, <2>3
    <2>5. j \notin 1..p
        BY <1>5, <2>4
    <2>6. j = p + 1
        BY <1>5, <2>5
    <2>7. l[p + 1] \in Ranges /\ l[i] \in Ranges
        BY <2>1
    <2>8. l[p + 1].start \in Nat /\ l[i].start \in Nat /\ l[p + 1].count \in Nat
        BY <2>7 DEF Ranges
    <2>9. s <= l[p + 1].start
        BY <2>4, <2>6, <2>8
    <2>10. CASE i = p + 1
        BY <2>9, <2>10
    <2>11. CASE i # p + 1
        <3>1. p + 1 < i
            BY <1>5, <2>1, <2>11
        <3>2. l[p + 1].start + l[p + 1].count < l[i].start
            BY <2>1, <3>1 DEF Ascends
        <3> QED BY <2>8, <2>9, <3>2
    <2> QED BY <2>10, <2>11
<1> QED BY <1>5, <1>6

\* The neighbours of a range none of whose pages is listed.
LEMMA Neighbours ==
    ASSUME NEW l \in Seq(Ranges), Ascends(l), NEW n \in Nat, n = Len(l),
           NEW s \in Nat, NEW c \in Nat \ {0}, \A q \in Run(s, c) : ~Listed(l, q),
           NEW p, p = Before(l, s)
    PROVE  /\ p \in 0..n
           /\ \A i \in 1..p : l[i].start < s /\ l[i].start + l[i].count <= s
           /\ \A i \in (p + 1)..n : s + c <= l[i].start
<1>1. /\ p \in 0..n /\ \A i \in 1..p : l[i].start < s
      /\ \A i \in (p + 1)..n : s <= l[i].start
    BY WalkedPast, Zenon
<1>2. \A i \in 1..n : l[i] \in Ranges
    OBVIOUS
<1>3. \A i \in 1..n : l[i].start \in Nat /\ l[i].count \in Nat \ {0}
    BY <1>2 DEF Ranges
<1>4. ASSUME NEW i \in 1..p PROVE l[i].start + l[i].count <= s
    <2>1. i \in 1..n /\ s \in Run(s, c)
        BY <1>1 DEF Run
    <2>2. s \notin Pages(l[i])
        BY <2>1 DEF Listed
    <2> QED BY <1>1, <1>3, <2>1, <2>2 DEF Pages, Run
<1>5. ASSUME NEW i \in (p + 1)..n PROVE s + c <= l[i].start
    <2>1. i \in 1..n
        BY <1>1
    <2>2. l[i].start \in Pages(l[i])
        BY <1>3, <2>1 DEF Pages, Run
    <2>3. l[i].start \notin Run(s, c)
        BY <2>1, <2>2 DEF Listed
    <2> QED BY <1>1, <1>3, <2>1, <2>3 DEF Run
<1> QED BY <1>1, <1>4, <1>5

\* What a range that is put behind the first p of the list takes over on its left: it
\* starts at u, d pages before s, and replaces what the list has behind the first a.
Grows(l, p, s, a, u, d) ==
    /\ a \in 0..p /\ u \in Nat /\ d \in Nat /\ u + d = s
    /\ (IF TouchesLeft(l, p, s) THEN p - 1 ELSE p) = a
    /\ (IF TouchesLeft(l, p, s) THEN l[p].start ELSE s) = u
    /\ (IF TouchesLeft(l, p, s) THEN l[p].count ELSE 0) = d
    /\ (IF TouchesLeft(l, p, s) THEN 0 ELSE 1) = 1 - (p - a)
    /\ \A i \in 1..a : l[i].start + l[i].count < u
    /\ \A q : q \in u..(s - 1) <=> \E i \in (a + 1)..p : q \in Pages(l[i])

LEMMA LeftPart ==
    ASSUME NEW l \in Seq(Ranges), Ascends(l), NEW n \in Nat, n = Len(l), NEW s \in Nat,
           NEW p \in 0..n, \A i \in 1..p : l[i].start < s /\ l[i].start + l[i].count <= s
    PROVE  \E a, u, d : Grows(l, p, s, a, u, d)
<1>1. \A i \in 1..n : l[i].start \in Nat /\ l[i].count \in Nat \ {0}
    <2>1. \A i \in 1..n : l[i] \in Ranges
        OBVIOUS
    <2> QED BY <2>1 DEF Ranges
<1>2. CASE TouchesLeft(l, p, s)
    <2>1. p \in 1..n /\ l[p].start + l[p].count = s
        BY <1>2 DEF TouchesLeft
    <2>2. PICK u, d \in Nat : u = l[p].start /\ d = l[p].count /\ u + d = s
        BY <1>1, <2>1
    <2>3. p - 1 \in 0..p /\ p - (p - 1) = 1 /\ \A i \in ((p - 1) + 1)..p : i = p
        BY <2>1, SMTT(30)
    <2>4. ASSUME NEW i \in 1..(p - 1) PROVE l[i].start + l[i].count < u
        <3>1. i \in 1..n /\ i < p
            BY <2>1
        <3> QED BY <2>1, <2>2, <3>1, SMTT(30) DEF Ascends
    <2>5. Pages(l[p]) = u..(s - 1)
        <3>1. Pages(l[p]) = Run(u, d)
            BY <2>2, Zenon DEF Pages
        <3>2. Run(u, d) = u..(s - 1)
            BY <2>2, SMTT(30) DEF Run
        <3> QED BY <3>1, <3>2
    <2>6. p \in ((p - 1) + 1)..p
        BY <2>1
    <2>7. Grows(l, p, s, p - 1, u, d)
        BY <1>2, <2>2, <2>3, <2>4, <2>5, <2>6 DEF Grows
    <2> QED BY <2>7
<1>3. CASE ~TouchesLeft(l, p, s)
    <2>1. ASSUME NEW i \in 1..p PROVE l[i].start + l[i].count < s
        <3>1. i \in 1..n /\ p \in 1..n /\ i <= p /\ p \in 1..p
            OBVIOUS
        <3>2. l[p].start + l[p].count # s /\ l[p].start + l[p].count <= s
            BY <1>3, <3>1 DEF TouchesLeft
        <3>3. l[i].start \in Nat /\ l[i].count \in Nat /\ l[p].start \in Nat /\ l[p].count \in Nat
            BY <1>1, <3>1
        <3>4. CASE i = p
            BY <3>2, <3>3, <3>4
        <3>5. CASE i < p
            <4>1. l[i].start + l[i].count < l[p].start
                BY <3>1, <3>5 DEF Ascends
            <4> QED BY <3>2, <3>3, <4>1
        <3> QED BY <3>1, <3>4, <3>5
    <2>2. p \in 0..p /\ p - p = 0 /\ (p + 1)..p = {} /\ s..(s - 1) = {}
        OBVIOUS
    <2>3. Grows(l, p, s, p, s, 0)
        BY <1>3, <2>1, <2>2 DEF Grows
    <2> QED BY <2>3
<1> QED BY <1>2, <1>3

\* The same on its right, where it ends before e.
GrowsOn(l, n, p, s, c, b, e, d) ==
    /\ b \in (p + 1)..(n + 1) /\ e \in Nat /\ d \in Nat /\ s + c + d = e
    /\ (IF TouchesRight(l, p, s, c) THEN p + 2 ELSE p + 1) = b
    /\ (IF TouchesRight(l, p, s, c) THEN l[p + 1].count ELSE 0) = d
    /\ (IF TouchesRight(l, p, s, c) THEN 1 ELSE 0) = b - (p + 1)
    /\ \A i \in b..n : e < l[i].start
    /\ \A q : q \in (s + c)..(e - 1) <=> \E i \in (p + 1)..(b - 1) : q \in Pages(l[i])

LEMMA RightPart ==
    ASSUME NEW l \in Seq(Ranges), Ascends(l), NEW n \in Nat, n = Len(l), NEW s \in Nat,
           NEW c \in Nat, NEW p \in 0..n, \A i \in (p + 1)..n : s + c <= l[i].start
    PROVE  \E b, e, d : GrowsOn(l, n, p, s, c, b, e, d)
<1>1. \A i \in 1..n : l[i].start \in Nat /\ l[i].count \in Nat \ {0}
    <2>1. \A i \in 1..n : l[i] \in Ranges
        OBVIOUS
    <2> QED BY <2>1 DEF Ranges
<1>2. CASE TouchesRight(l, p, s, c)
    <2>1. p + 1 \in 1..n /\ s + c = l[p + 1].start
        BY <1>2 DEF TouchesRight
    <2>2. PICK d \in Nat : d = l[p + 1].count
        BY <1>1, <2>1
    <2>3. PICK e \in Nat : e = s + c + d
        OBVIOUS
    <2>4. /\ p + 2 \in (p + 1)..(n + 1) /\ (p + 2) - (p + 1) = 1 /\ p + 1 \in (p + 1)..((p + 2) - 1)
          /\ \A i \in (p + 1)..((p + 2) - 1) : i = p + 1
        BY <2>1
    <2>5. ASSUME NEW i \in (p + 2)..n PROVE e < l[i].start
        <3>1. i \in 1..n /\ p + 1 < i
            OBVIOUS
        <3>2. l[p + 1].start + l[p + 1].count < l[i].start
            BY <2>1, <3>1 DEF Ascends
        <3> QED BY <2>1, <2>2, <2>3, <3>2
    <2>6. Pages(l[p + 1]) = (s + c)..(e - 1)
        BY <2>1, <2>2, <2>3 DEF Pages, Run
    <2>7. GrowsOn(l, n, p, s, c, p + 2, e, d)
        BY <1>2, <2>2, <2>3, <2>4, <2>5, <2>6 DEF GrowsOn
    <2> QED BY <2>7
<1>3. CASE ~TouchesRight(l, p, s, c)
    <2>1. ASSUME NEW i \in (p + 1)..n PROVE s + c < l[i].start
        <3>1. i \in 1..n /\ p + 1 \in 1..n /\ p + 1 <= i /\ p + 1 \in (p + 1)..n /\ p < n
            OBVIOUS
        <3>2. l[p + 1].start # s + c /\ s + c <= l[p + 1].start
            BY <1>3, <3>1 DEF TouchesRight
        <3>3. l[i].start \in Nat /\ l[p + 1].count \in Nat /\ l[p + 1].start \in Nat
            BY <1>1, <3>1
        <3>4. CASE i = p + 1
            BY <3>2, <3>3, <3>4
        <3>5. CASE p + 1 < i
            <4>1. l[p + 1].start + l[p + 1].count < l[i].start
                BY <3>1, <3>5 DEF Ascends
            <4> QED BY <3>2, <3>3, <4>1
        <3> QED BY <3>1, <3>4, <3>5
    <2>2. /\ p + 1 \in (p + 1)..(n + 1) /\ (p + 1) - (p + 1) = 0
          /\ (p + 1)..((p + 1) - 1) = {} /\ (s + c)..((s + c) - 1) = {} /\ s + c + 0 = s + c
        OBVIOUS
    <2>3. GrowsOn(l, n, p, s, c, p + 1, s + c, 0)
        <3>1. s + c \in Nat /\ 0 \in Nat
            OBVIOUS
        <3> QED BY <1>3, <2>1, <2>2, <3>1, Zenon DEF GrowsOn
    <2> QED BY <2>3
<1> QED BY <1>2, <1>3

\* VirtualFreePages lists the pages of the range, and no others, and takes a node for
\* each range the list has more.
TakesBack(ret, l, n, f, s, c) ==
    /\ ret.kept = TRUE /\ ret.list \in Seq(Ranges) /\ Ascends(ret.list)
    /\ ret.nodes \in Nat /\ Len(ret.list) + ret.nodes = n + f
    /\ \A q : Listed(ret.list, q) <=> Listed(l, q) \/ q \in Run(s, c)

LEMMA ReturnedToList ==
    ASSUME NEW l \in Seq(Ranges), Ascends(l), NEW n \in Nat, n = Len(l), NEW f \in Nat,
           NEW s \in Nat, NEW c \in Nat \ {0}, \A q \in Run(s, c) : ~Listed(l, q),
           NEW p, p = Before(l, s), TouchesLeft(l, p, s) \/ f # 0,
           NEW ret, ret = Returned(l, f, s, c)
    PROVE  TakesBack(ret, l, n, f, s, c)
<1>1. /\ p \in 0..n
      /\ \A i \in 1..p : l[i].start < s /\ l[i].start + l[i].count <= s
      /\ \A i \in (p + 1)..n : s + c <= l[i].start
    BY Neighbours, Zenon
<1>2. PICK a, u, dl : Grows(l, p, s, a, u, dl)
    BY <1>1, LeftPart, Zenon
<1>3. PICK b, e, dr : GrowsOn(l, n, p, s, c, b, e, dr)
    <2>1. c \in Nat
        OBVIOUS
    <2> QED BY <1>1, <2>1, RightPart, Zenon
<1>4. /\ a \in 0..p /\ u \in Nat /\ dl \in Nat /\ u + dl = s
      /\ b \in (p + 1)..(n + 1) /\ e \in Nat /\ dr \in Nat /\ s + c + dr = e
    BY <1>2, <1>3 DEF Grows, GrowsOn
<1>5. a \in 0..n /\ b \in (a + 1)..(n + 1) /\ p \in Nat
    BY <1>1, <1>4
<1>6. PICK x : x = [start |-> u, count |-> c + dl + dr]
    OBVIOUS
<1>7. x \in Ranges /\ x.start = u /\ x.start + x.count = e
    BY <1>4, <1>6 DEF Ranges
<1>8. PICK m : m = SubSeq(l, 1, a) \o <<x>> \o SubSeq(l, b, n)
    OBVIOUS
<1>9. /\ ret.kept = TRUE /\ ret.list = m
      /\ ret.nodes = f - (1 - (p - a)) + (b - (p + 1))
    <2>1. ret = [list |-> Merged(l, p, s, c, TouchesLeft(l, p, s), TouchesRight(l, p, s, c)),
                 nodes |-> f - (IF TouchesLeft(l, p, s) THEN 0 ELSE 1)
                             + (IF TouchesRight(l, p, s, c) THEN 1 ELSE 0),
                 kept |-> TRUE]
        BY DEF Returned
    <2>2. m = Merged(l, p, s, c, TouchesLeft(l, p, s), TouchesRight(l, p, s, c))
        BY <1>2, <1>3, <1>6, <1>8 DEF Merged, Grows, GrowsOn, PageRange
    <2>3. ret.nodes = f - (IF TouchesLeft(l, p, s) THEN 0 ELSE 1)
                        + (IF TouchesRight(l, p, s, c) THEN 1 ELSE 0)
          /\ ret.kept = TRUE /\ ret.list = m
        BY <2>1, <2>2
    <2>4. (IF TouchesLeft(l, p, s) THEN 0 ELSE 1) = 1 - (p - a)
        BY <1>2 DEF Grows
    <2>5. (IF TouchesRight(l, p, s, c) THEN 1 ELSE 0) = b - (p + 1)
        BY <1>3 DEF GrowsOn
    <2> QED BY <2>3, <2>4, <2>5, Zenon
<1>10. \A i \in 1..a : l[i].start + l[i].count < x.start
    BY <1>2, <1>7 DEF Grows
<1>11. \A i \in b..n : x.start + x.count < l[i].start
    BY <1>3, <1>7 DEF GrowsOn
<1>12. /\ m \in Seq(Ranges) /\ Len(m) = a + 1 + (n + 1 - b) /\ Ascends(m)
       /\ \A q : Listed(m, q) <=> q \in Pages(x) \/ \E i \in (1..a) \cup (b..n) : q \in Pages(l[i])
    <2>1. FitsIn(m, l, n, a, b, x)
        BY <1>5, <1>7, <1>8, <1>10, <1>11, SpliceAscends, Zenon
    <2> QED BY <2>1 DEF FitsIn
<1>13. ret.nodes \in Nat /\ Len(ret.list) + ret.nodes = n + f
    <2>1. a # p \/ f # 0
        BY <1>2, <1>5 DEF Grows
    <2>2. a \in Int /\ b \in Int /\ p \in Int /\ a <= p /\ p + 1 <= b
        BY <1>4, <1>5
    <2>3. f - (1 - (p - a)) + (b - (p + 1)) \in Nat
        BY <2>1, <2>2, SMTT(30)
    <2>4. a + 1 + (n + 1 - b) + (f - (1 - (p - a)) + (b - (p + 1))) = n + f
        BY <2>2, SMTT(30)
    <2> QED BY <1>9, <1>12, <2>3, <2>4
<1>14. ASSUME NEW q
       PROVE  q \in Pages(x) <=> \/ q \in Run(s, c)
                                 \/ q \in u..(s - 1)
                                 \/ q \in (s + c)..(e - 1)
    <2>1. Pages(x) = u..(e - 1)
        BY <1>4, <1>6 DEF Pages, Run
    <2>2. q \in u..(e - 1) <=> q \in s..(s + c - 1) \/ q \in u..(s - 1) \/ q \in (s + c)..(e - 1)
        BY <1>4, SMTT(30)
    <2> QED BY <2>1, <2>2 DEF Run
<1>15. \A i : i \in 1..n <=> i \in (1..a) \cup (b..n) \/ i \in (a + 1)..p \/ i \in (p + 1)..(b - 1)
    BY <1>1, <1>4
<1>16. ASSUME NEW q PROVE Listed(m, q) <=> Listed(l, q) \/ q \in Run(s, c)
    <2>1. q \in u..(s - 1) <=> \E i \in (a + 1)..p : q \in Pages(l[i])
        BY <1>2 DEF Grows
    <2>2. q \in (s + c)..(e - 1) <=> \E i \in (p + 1)..(b - 1) : q \in Pages(l[i])
        BY <1>3 DEF GrowsOn
    <2> QED BY <1>12, <1>14, <1>15, <2>1, <2>2, Zenon DEF Listed
<1> QED BY <1>9, <1>12, <1>13, <1>16 DEF TakesBack

-----------------------------------------------------------------------------
\* The inductive invariant of VirtualAllocPages and VirtualFreePages: RangesAreSound
\* page by page, with the order of the list between any two of its ranges.
VirtTypes ==
    /\ nodePool \in Nat \ {0} /\ freeNodes \in Nat
    /\ freeVma \in Seq(Ranges) /\ handed \subseteq Ranges

Tiling ==
    /\ \A p \in Pool : Listed(freeVma, p) \/ (\E r \in handed : p \in Pages(r)) \/ p \in lost
    /\ \A i \in 1..Len(freeVma) : Pages(freeVma[i]) \subseteq Pool
    /\ \A r \in handed : \A p \in Pages(r) :
         p \in Pool /\ ~Listed(freeVma, p) /\ p \notin lost /\ \A q \in handed : p \in Pages(q) => q = r
    /\ \A p \in lost : p \in Pool /\ ~Listed(freeVma, p)

VirtInv ==
    /\ VirtTypes /\ Ascends(freeVma) /\ Tiling
    /\ Len(freeVma) + freeNodes = nodePool
    /\ NothingLostWithEnoughNodes

\* A list of ranges inside the pool is a list of pages inside it.
LEMMA ListedInPool ==
    ASSUME NEW l, (\A i \in 1..Len(l) : Pages(l[i]) \subseteq Pool) \/ \A q : Listed(l, q) => q \in Pool
    PROVE  /\ \A i \in 1..Len(l) : Pages(l[i]) \subseteq Pool
           /\ \A q : Listed(l, q) => q \in Pool
BY DEF Listed

LEMMA AllocKeepsRanges ==
    ASSUME VirtInv, NEW c \in RangeSizes, VirtualAllocPages(c)
    PROVE  VirtInv'
<1>1. PICK i : i = Min(Fitting(freeVma, c))
    OBVIOUS
<1>2. /\ freeVma' = TakeFrom(freeVma, i, c)
      /\ freeNodes' = (IF freeVma[i].count = c THEN freeNodes + 1 ELSE freeNodes)
      /\ handed' = handed \cup {PageRange(freeVma[i].start, c)}
      /\ nodePool' = nodePool /\ lost' = lost /\ Fitting(freeVma, c) # {}
    BY <1>1 DEF VirtualAllocPages
<1>3. freeVma \in Seq(Ranges) /\ Len(freeVma) \in Nat /\ c \in Nat \ {0} /\ freeNodes \in Nat /\ nodePool \in Nat \ {0}
    BY PoolAssumption DEF VirtInv, VirtTypes
<1>4. i \in 1..Len(freeVma) /\ freeVma[i].count >= c
    <2>1. Fitting(freeVma, c) \subseteq Nat
        BY <1>3 DEF Fitting
    <2>2. i \in Fitting(freeVma, c)
        BY <1>1, <1>2, <2>1, LeastMember
    <2> QED BY <2>2 DEF Fitting
<1>5. freeVma[i] \in Ranges
    BY <1>3, <1>4
<1>6. PICK s, d \in Nat : s = freeVma[i].start /\ d = freeVma[i].count /\ c <= d
    BY <1>3, <1>4, <1>5 DEF Ranges
<1>7. /\ freeVma' \in Seq(Ranges) /\ Ascends(freeVma')
      /\ Len(freeVma') = (IF freeVma[i].count = c THEN Len(freeVma) - 1 ELSE Len(freeVma))
      /\ \A q : Listed(freeVma', q) <=> Listed(freeVma, q) /\ q \notin Run(freeVma[i].start, c)
    <2>1. Ascends(freeVma) /\ c <= freeVma[i].count
        BY <1>6 DEF VirtInv
    <2> QED BY <1>2, <1>3, <1>4, <2>1, TakenFromList
<1>8. PICK t : t = PageRange(s, c)
    OBVIOUS
<1>9. t \in Ranges /\ Pages(t) = Run(s, c)
    BY <1>3, <1>8 DEF Ranges, PageRange, Pages
<1>10. \A q \in Run(s, c) : q \in Pages(freeVma[i])
    BY <1>3, <1>6, SMTT(30) DEF Pages, Run
<1>11. \A q \in Run(s, c) : Listed(freeVma, q)
    BY <1>4, <1>10 DEF Listed
<1>12. handed' = handed \cup {t}
    BY <1>2, <1>6, <1>8
<1>13. VirtTypes'
    BY <1>2, <1>3, <1>7, <1>9, <1>12 DEF VirtInv, VirtTypes
<1>14. Len(freeVma') + freeNodes' = nodePool'
    <2>1. Len(freeVma) + freeNodes = nodePool
        BY DEF VirtInv
    <2>2. Len(freeVma) - 1 + (freeNodes + 1) = Len(freeVma) + freeNodes
        BY <1>3
    <2> QED BY <1>2, <1>7, <2>1, <2>2
<1>15. Pool' = Pool
    BY DEF Pool
<1>16. \A q : Listed(freeVma', q) <=> Listed(freeVma, q) /\ q \notin Pages(t)
    BY <1>6, <1>7, <1>9
<1>17. Tiling'
    <2>1. /\ \A p \in Pool : Listed(freeVma, p) \/ (\E r \in handed : p \in Pages(r)) \/ p \in lost
          /\ \A q : Listed(freeVma, q) => q \in Pool
          /\ \A r \in handed : \A p \in Pages(r) :
               p \in Pool /\ ~Listed(freeVma, p) /\ p \notin lost /\ \A q \in handed : p \in Pages(q) => q = r
          /\ \A p \in lost : p \in Pool /\ ~Listed(freeVma, p)
        BY ListedInPool, Zenon DEF VirtInv, Tiling
    <2>2. \A p \in Pages(t) : Listed(freeVma, p)
        BY <1>9, <1>11
    <2>3. \A p \in Pool : Listed(freeVma', p) \/ (\E r \in handed' : p \in Pages(r)) \/ p \in lost'
        BY <1>2, <1>12, <1>16, <2>1
    <2>4. \A j \in 1..Len(freeVma') : Pages(freeVma'[j]) \subseteq Pool
        <3>1. \A q : Listed(freeVma', q) => q \in Pool
            BY <1>16, <2>1
        <3> QED BY <3>1, ListedInPool, Zenon
    <2>5. \A r \in handed' : \A p \in Pages(r) :
               /\ p \in Pool /\ ~Listed(freeVma', p) /\ p \notin lost'
               /\ \A q \in handed' : p \in Pages(q) => q = r
        BY <1>2, <1>12, <1>16, <2>1, <2>2, Zenon
    <2>6. \A p \in lost' : p \in Pool /\ ~Listed(freeVma', p)
        BY <1>2, <1>16, <2>1
    <2> QED BY <1>15, <2>3, <2>4, <2>5, <2>6 DEF Tiling
<1>18. NothingLostWithEnoughNodes'
    BY <1>2 DEF VirtInv, NothingLostWithEnoughNodes
<1> QED BY <1>7, <1>13, <1>14, <1>17, <1>18 DEF VirtInv

\* An ascending list in the pool that leaves a range out, with room to the left of
\* it, has at most half as many ranges as the pool has pages.
LEMMA HalfAsManyRanges ==
    ASSUME NEW l \in Seq(Ranges), Ascends(l), NEW n \in Nat, n = Len(l),
           \A i \in 1..n : PoolBase <= l[i].start /\ l[i].start + l[i].count <= PoolBase + PoolPages,
           NEW s \in Nat, PoolBase <= s, s < PoolBase + PoolPages, NEW p \in 0..n,
           \A i \in 1..p : l[i].start + l[i].count < s,
           \A i \in (p + 1)..n : s < l[i].start
    PROVE  2 * n <= PoolPages
<1>0. PoolBase \in Nat /\ PoolPages \in Nat
    BY PoolAssumption
<1>1. \A i \in 1..n : l[i].start \in Nat /\ l[i].count \in Nat \ {0}
    <2>1. \A i \in 1..n : l[i] \in Ranges
        OBVIOUS
    <2> QED BY <2>1 DEF Ranges
<1>2. PICK S : S = {k \in 0..n : k = 0 \/ PoolBase + 2 * k - (IF k <= p THEN 1 ELSE 0) <= l[k].start + l[k].count}
    OBVIOUS
<1>3. 0 \in S
    BY <1>2
<1>4. ASSUME NEW k \in 0..(n - 1), k \in S PROVE k + 1 \in S
    <2>1. PICK t, d \in Nat : t = l[k + 1].start /\ d = l[k + 1].count /\ d # 0 /\ PoolBase <= t
        <3>1. k + 1 \in 1..n
            OBVIOUS
        <3> QED BY <1>1, <3>1
    <2>2. PoolBase + 2 * (k + 1) - (IF k + 1 <= p THEN 1 ELSE 0) <= t + d
        <3>1. CASE k = 0
            <4>1. CASE k + 1 <= p
                BY <1>0, <2>1, <3>1, <4>1
            <4>2. CASE ~(k + 1 <= p)
                <5>1. k + 1 \in (p + 1)..n
                    BY <4>2
                <5>2. s < t
                    BY <2>1, <5>1
                <5> QED BY <1>0, <2>1, <3>1, <4>2, <5>2
            <4> QED BY <4>1, <4>2
        <3>2. CASE k # 0
            <4>1. PICK e \in Nat : e = l[k].start + l[k].count /\ e < t
                <5>1. k \in 1..n /\ k + 1 \in 1..n /\ k < k + 1
                    BY <3>2
                <5> QED BY <1>1, <2>1, <5>1 DEF Ascends
            <4>2. PoolBase + 2 * k - (IF k <= p THEN 1 ELSE 0) <= e
                BY <1>2, <1>4, <3>2, <4>1
            <4>3. CASE k = p
                <5>1. k \in 1..p /\ k + 1 \in (p + 1)..n
                    BY <3>2, <4>3
                <5>2. e < s /\ s < t
                    BY <2>1, <4>1, <5>1
                <5> QED BY <1>0, <2>1, <4>1, <4>2, <4>3, <5>2, SMTT(30)
            <4>4. CASE k # p
                <5>1. (k + 1 <= p <=> k <= p)
                    BY <4>4
                <5> QED BY <1>0, <2>1, <4>1, <4>2, <5>1, SMTT(30)
            <4> QED BY <4>3, <4>4
        <3> QED BY <3>1, <3>2
    <2> QED BY <1>2, <2>1, <2>2
<1>5. n \in S
    <2>1. 0..n \subseteq S
        BY <1>3, <1>4, InductionUpTo
    <2> QED BY <2>1
<1>6. CASE n = 0
    BY <1>0, <1>6
<1>7. CASE n # 0
    <2>1. PICK e \in Nat : e = l[n].start + l[n].count /\ e <= PoolBase + PoolPages
        <3>1. n \in 1..n
            BY <1>7
        <3> QED BY <1>1, <3>1
    <2>2. PoolBase + 2 * n - (IF n <= p THEN 1 ELSE 0) <= e
        BY <1>2, <1>5, <1>7, <2>1
    <2>3. CASE n <= p
        <3>1. n \in 1..p
            BY <1>7, <2>3
        <3>2. e < s
            BY <2>1, <3>1
        <3> QED BY <1>0, <2>1, <2>2, <2>3, <3>2
    <2>4. CASE ~(n <= p)
        BY <1>0, <2>1, <2>2, <2>4
    <2> QED BY <2>3, <2>4
<1> QED BY <1>6, <1>7

LEMMA FreeKeepsRanges ==
    ASSUME VirtInv, NEW r \in handed, VirtualFreePages(r)
    PROVE  VirtInv'
<1>1. PICK s, c : s = r.start /\ c = r.count /\ r \in Ranges /\ s \in Nat /\ c \in Nat \ {0}
    BY DEF VirtInv, VirtTypes, Ranges
<1>2. PICK ret : ret = Returned(freeVma, freeNodes, s, c)
    OBVIOUS
<1>3. /\ freeVma' = ret.list /\ freeNodes' = ret.nodes /\ handed' = handed \ {r}
      /\ lost' = (IF ret.kept THEN lost ELSE lost \cup Pages(r)) /\ nodePool' = nodePool
    BY <1>1, <1>2 DEF VirtualFreePages
<1>4. /\ freeVma \in Seq(Ranges) /\ Len(freeVma) \in Nat /\ freeNodes \in Nat /\ nodePool \in Nat \ {0}
      /\ Ascends(freeVma) /\ Len(freeVma) + freeNodes = nodePool
    BY DEF VirtInv, VirtTypes
<1>5. /\ \A p \in Pool : Listed(freeVma, p) \/ (\E q \in handed : p \in Pages(q)) \/ p \in lost
      /\ \A q : Listed(freeVma, q) => q \in Pool
      /\ \A t \in handed : \A p \in Pages(t) :
           p \in Pool /\ ~Listed(freeVma, p) /\ p \notin lost /\ \A q \in handed : p \in Pages(q) => q = t
      /\ \A p \in lost : p \in Pool /\ ~Listed(freeVma, p)
    BY ListedInPool, Zenon DEF VirtInv, Tiling
<1>6. Pages(r) = Run(s, c) /\ s \in Run(s, c)
    BY <1>1 DEF Pages, Run
<1>7. \A q \in Run(s, c) : ~Listed(freeVma, q)
    BY <1>5, <1>6
<1>8. PICK at : at = Before(freeVma, s)
    OBVIOUS
<1>9. Pool' = Pool
    BY DEF Pool
<1>10. CASE TouchesLeft(freeVma, at, s) \/ freeNodes # 0
    <2>1. /\ ret.kept = TRUE /\ ret.list \in Seq(Ranges) /\ Ascends(ret.list)
          /\ ret.nodes \in Nat /\ Len(ret.list) + ret.nodes = Len(freeVma) + freeNodes
          /\ \A q : Listed(ret.list, q) <=> Listed(freeVma, q) \/ q \in Run(s, c)
        <3>1. TakesBack(ret, freeVma, Len(freeVma), freeNodes, s, c)
            BY <1>1, <1>2, <1>4, <1>7, <1>8, <1>10, ReturnedToList, Zenon
        <3> QED BY <3>1 DEF TakesBack
    <2>2. lost' = lost /\ \A q : Listed(freeVma', q) <=> Listed(freeVma, q) \/ q \in Pages(r)
        BY <1>3, <1>6, <2>1
    <2>3. \A p \in Pool : Listed(freeVma', p) \/ (\E q \in handed' : p \in Pages(q)) \/ p \in lost'
        BY <1>3, <1>5, <2>2
    <2>4. \A j \in 1..Len(freeVma') : Pages(freeVma'[j]) \subseteq Pool
        <3>1. \A q : Listed(freeVma', q) => q \in Pool
            BY <1>5, <2>2
        <3> QED BY <3>1, ListedInPool, Zenon
    <2>5. \A t \in handed' : \A p \in Pages(t) :
               /\ p \in Pool /\ ~Listed(freeVma', p) /\ p \notin lost'
               /\ \A q \in handed' : p \in Pages(q) => q = t
        BY <1>3, <1>5, <2>2, Zenon
    <2>6. \A p \in lost' : p \in Pool /\ ~Listed(freeVma', p)
        BY <1>5, <2>2
    <2>7. Tiling'
        BY <1>9, <2>3, <2>4, <2>5, <2>6 DEF Tiling
    <2>8. VirtTypes'
        BY <1>3, <1>4, <2>1 DEF VirtInv, VirtTypes
    <2>9. NothingLostWithEnoughNodes'
        BY <1>3, <2>2 DEF VirtInv, NothingLostWithEnoughNodes
    <2> QED BY <1>3, <1>4, <2>1, <2>7, <2>8, <2>9 DEF VirtInv
<1>11. CASE ~(TouchesLeft(freeVma, at, s) \/ freeNodes # 0)
    <2>1. ret = [list |-> freeVma, nodes |-> freeNodes, kept |-> FALSE]
        BY <1>2, <1>8, <1>11 DEF Returned
    <2>2. freeVma' = freeVma /\ freeNodes' = freeNodes /\ lost' = lost \cup Pages(r)
        BY <1>3, <2>1
    <2>3. Tiling'
        <3>1. \A p \in Pool : Listed(freeVma', p) \/ (\E q \in handed' : p \in Pages(q)) \/ p \in lost'
            BY <1>3, <1>5, <2>2
        <3>2. \A t \in handed' : \A p \in Pages(t) :
                   /\ p \in Pool /\ ~Listed(freeVma', p) /\ p \notin lost'
                   /\ \A q \in handed' : p \in Pages(q) => q = t
            <4>1. ASSUME NEW t \in handed, t # r, NEW p \in Pages(t) PROVE p \notin Pages(r)
                BY <1>5, <4>1
            <4> QED BY <1>3, <1>5, <2>2, <4>1
        <3>3. \A p \in lost' : p \in Pool /\ ~Listed(freeVma', p)
            BY <1>5, <2>2
        <3>4. \A j \in 1..Len(freeVma') : Pages(freeVma'[j]) \subseteq Pool
            BY <2>2 DEF VirtInv, Tiling
        <3> QED BY <1>9, <3>1, <3>2, <3>3, <3>4 DEF Tiling
    <2>4. VirtTypes'
        BY <1>3, <1>4, <2>2 DEF VirtInv, VirtTypes
    <2>5. 2 * Len(freeVma) <= PoolPages
        <3>1. /\ at \in 0..Len(freeVma)
              /\ \A i \in 1..at : freeVma[i].start < s /\ freeVma[i].start + freeVma[i].count <= s
              /\ \A i \in (at + 1)..Len(freeVma) : s + c <= freeVma[i].start
            BY <1>1, <1>4, <1>7, <1>8, Neighbours, Zenon
        <3>2. PoolBase \in Nat /\ PoolPages \in Nat
            BY PoolAssumption
        <3>3. \A i \in 1..Len(freeVma) : freeVma[i].start \in Nat /\ freeVma[i].count \in Nat \ {0}
            <4>1. \A i \in 1..Len(freeVma) : freeVma[i] \in Ranges
                BY <1>4
            <4> QED BY <4>1 DEF Ranges
        <3>4. PICK a, u, d : Grows(freeVma, at, s, a, u, d)
            <4>1. PICK n \in Nat : n = Len(freeVma)
                BY <1>4
            <4> QED BY <1>1, <1>4, <3>1, <4>1, LeftPart, Zenon
        <3>5. \A i \in 1..at : freeVma[i].start + freeVma[i].count < s
            BY <1>11, <3>4 DEF Grows
        <3>6. \A i \in (at + 1)..Len(freeVma) : s < freeVma[i].start
            <4>1. ASSUME NEW i \in (at + 1)..Len(freeVma) PROVE s < freeVma[i].start
                <5>1. s + c <= freeVma[i].start /\ i \in 1..Len(freeVma)
                    BY <1>4, <3>1
                <5> QED BY <1>1, <3>3, <5>1
            <4> QED BY <4>1
        <3>7. PoolBase <= s /\ s < PoolBase + PoolPages
            <4>1. s \in Pool
                BY <1>5, <1>6
            <4> QED BY <1>1, <3>2, <4>1 DEF Pool, Run
        <3>8. ASSUME NEW i \in 1..Len(freeVma)
              PROVE  /\ PoolBase <= freeVma[i].start
                     /\ freeVma[i].start + freeVma[i].count <= PoolBase + PoolPages
            <4>1. PICK t, e \in Nat : t = freeVma[i].start /\ e = freeVma[i].count /\ e # 0
                BY <3>3
            <4>2. Pages(freeVma[i]) = t..(t + e - 1) /\ Pages(freeVma[i]) \subseteq Pool
                BY <4>1 DEF Pages, Run, VirtInv, Tiling
            <4>3. t \in t..(t + e - 1) /\ t + e - 1 \in t..(t + e - 1)
                BY <4>1
            <4>4. t \in PoolBase..(PoolBase + PoolPages - 1) /\ t + e - 1 \in PoolBase..(PoolBase + PoolPages - 1)
                BY <4>2, <4>3 DEF Pool, Run
            <4> QED BY <3>2, <4>1, <4>4
        <3> QED BY <1>1, <1>4, <3>1, <3>5, <3>6, <3>7, <3>8, HalfAsManyRanges, Zenon
    <2>6. ~(nodePool > PoolPages \div 2)
        <3>1. PoolPages \in Nat /\ freeNodes = 0
            BY <1>11, PoolAssumption
        <3>2. 2 * nodePool <= PoolPages
            BY <1>4, <2>5, <3>1
        <3> QED BY <1>4, <3>1, <3>2
    <2>7. NothingLostWithEnoughNodes'
        BY <1>3, <2>6 DEF NothingLostWithEnoughNodes
    <2> QED BY <1>3, <1>4, <2>2, <2>3, <2>4, <2>7 DEF VirtInv
<1> QED BY <1>10, <1>11

LEMMA RangesInitially ==
    ASSUME Virtual
    PROVE  VirtInv
<1>1. PICK x : x = PageRange(PoolBase, PoolPages)
    OBVIOUS
<1>2. x \in Ranges /\ Pages(x) = Pool
    BY <1>1, PoolAssumption DEF Ranges, PageRange, Pages, Pool
<1>3. /\ freeVma = <<x>> /\ handed = {} /\ lost = {} /\ nodePool \in Nat \ {0}
      /\ freeNodes = nodePool - 1
    BY <1>1, PoolAssumption DEF Virtual
<1>4. freeVma \in Seq(Ranges) /\ Len(freeVma) = 1 /\ freeVma[1] = x
    BY <1>2, <1>3
<1>5. freeNodes \in Nat /\ Len(freeVma) + freeNodes = nodePool
    BY <1>3, <1>4
<1>6. 1..Len(freeVma) = {1}
    BY <1>4
<1>7. \A q : Listed(freeVma, q) <=> q \in Pool
    BY <1>2, <1>4, <1>6 DEF Listed
<1>8. Tiling
    BY <1>2, <1>3, <1>4, <1>6, <1>7 DEF Tiling
<1>9. Ascends(freeVma)
    BY <1>6 DEF Ascends
<1> QED BY <1>3, <1>4, <1>5, <1>8, <1>9 DEF VirtInv, VirtTypes, NothingLostWithEnoughNodes

\* The invariant counts a page once.
LEMMA InvTiles ==
    ASSUME VirtInv
    PROVE  RangesAreSound
<1>0. freeVma \in Seq(Ranges) /\ Ascends(freeVma) /\ Len(freeVma) \in Nat /\ Len(freeVma) + freeNodes = nodePool
    BY DEF VirtInv, VirtTypes
<1>1. ASSUME NEW p \in Pool
      PROVE  Cardinality({i \in 1..Len(freeVma) : p \in Pages(freeVma[i])})
             + Cardinality({r \in handed : p \in Pages(r)})
             + (IF p \in lost THEN 1 ELSE 0) = 1
    <2>1. PICK I : I = {i \in 1..Len(freeVma) : p \in Pages(freeVma[i])}
        OBVIOUS
    <2>2. PICK H : H = {r \in handed : p \in Pages(r)}
        OBVIOUS
    <2>3. \A i, j \in I : i = j
        BY <1>0, <2>1, ListedOnce
    <2>4. \A r, q \in H : r = q
        BY <2>2 DEF VirtInv, Tiling
    <2>5. I # {} <=> Listed(freeVma, p)
        BY <2>1 DEF Listed
    <2>6. (I = {} \/ \E i : I = {i}) /\ (H = {} \/ \E r : H = {r})
        BY <2>3, <2>4
    <2>7. Cardinality(I) = (IF I = {} THEN 0 ELSE 1) /\ Cardinality(H) = (IF H = {} THEN 0 ELSE 1)
        BY <2>6, FS_EmptySet, FS_Singleton
    <2>8. \/ I # {} /\ H = {} /\ p \notin lost
          \/ I = {} /\ H # {} /\ p \notin lost
          \/ I = {} /\ H = {} /\ p \in lost
        <3>1. Listed(freeVma, p) \/ H # {} \/ p \in lost
            BY <2>2 DEF VirtInv, Tiling
        <3>2. ASSUME NEW r \in H PROVE ~Listed(freeVma, p) /\ p \notin lost
            BY <2>2 DEF VirtInv, Tiling
        <3>3. p \in lost => ~Listed(freeVma, p)
            BY DEF VirtInv, Tiling
        <3> QED BY <2>5, <3>1, <3>2, <3>3
    <2> QED BY <2>1, <2>2, <2>7, <2>8
<1>2. \A r \in handed : Pages(r) \subseteq Pool
    BY DEF VirtInv, Tiling
<1>3. ASSUME NEW i \in 1..(Len(freeVma) - 1)
      PROVE  freeVma[i].start + freeVma[i].count < freeVma[i + 1].start
    <2>1. i \in 1..Len(freeVma) /\ i + 1 \in 1..Len(freeVma) /\ i < i + 1
        BY <1>0
    <2> QED BY <1>0, <2>1 DEF Ascends
<1>4. PoolTiled
    BY <1>0, <1>1, <1>2, <1>3 DEF PoolTiled, VirtInv, Tiling
<1> QED BY <1>4 DEF RangesAreSound, VirtInv

\* Every page of kernel address space is in one free range, held by one caller or
\* lost with a range for which there was no node, and with more than half as many
\* nodes as pages none is lost (VirtualAllocPages, VirtualFreePages): for a pool and
\* requests of any size, in any order.
THEOREM RangesStaySound == VirtSpec => []RangesAreSound
<1>1. VirtInv /\ [VirtNext]_virtVars => VirtInv'
    <2> SUFFICES ASSUME VirtInv, [VirtNext]_virtVars PROVE VirtInv'
        OBVIOUS
    <2>1. CASE VirtNext
        BY <2>1, AllocKeepsRanges, FreeKeepsRanges DEF VirtNext
    <2>2. CASE UNCHANGED virtVars
        BY <2>2 DEF virtVars, VirtInv, VirtTypes, Tiling, Pool, NothingLostWithEnoughNodes
    <2> QED BY <2>1, <2>2
<1>2. Virtual => VirtInv
    BY RangesInitially
<1>3. VirtInv => RangesAreSound
    BY InvTiles
<1> QED BY <1>1, <1>2, <1>3, PTL DEF VirtSpec

-----------------------------------------------------------------------------
(***************************************************************************)
(* The kernel heap.                                                        *)
(***************************************************************************)
HeapPool == Run(HeapBase, HeapPages)

\* The page a unit is in has a frame.
Backed(u) == u \in Nat /\ u \div PageUnits \in mappedPages
Held(u) == \E b \in live : u \in Pages(b)

HeapTypes ==
    /\ freeList \in Seq(Ranges) /\ live \subseteq Ranges
    /\ heapLow \in Nat /\ heapHigh \in Nat
    /\ framesUsed \in Nat /\ framesUsed <= HeapFrames
    /\ wanted \in [HeapCallers -> Nat] /\ DOMAIN found = HeapCallers

\* The block a second search has found is large enough for what is wanted.
FoundIsEnough ==
    \A t \in HeapCallers : found[t] # Nothing => wanted[t] # 0 /\ found[t][2].count >= wanted[t]

\* Each unit of a page with a frame is in one block, within the bounds.
UnitsTiled ==
    /\ \A u : Backed(u) <=> Listed(freeList, u) \/ Held(u)
    /\ \A b \in live : \A u \in Pages(b) :
         ~Listed(freeList, u) /\ \A d \in live : u \in Pages(d) => d = b
    /\ \A u : Backed(u) => heapLow <= u /\ u < heapHigh

\* The pages of the pool that the heap may still take have no frame.
PoolApart ==
    /\ vmaFree \in Seq(Ranges) /\ Ascends(vmaFree) /\ mappedPages \subseteq HeapPool
    /\ \A p : Listed(vmaFree, p) => p \in HeapPool /\ p \notin mappedPages
    /\ otherHolds => \A p \in Run(HeapBase, OtherPages) : ~Listed(vmaFree, p) /\ p \notin mappedPages

HeapInv == HeapTypes /\ FoundIsEnough /\ Ascends(freeList) /\ UnitsTiled /\ PoolApart

\* Pages and units.
LEMMA UnitsOfPages ==
    ASSUME NEW v \in Nat, NEW m \in Nat, NEW u
    PROVE  u \in Run(v * PageUnits, m * PageUnits) <=> u \in Nat /\ u \div PageUnits \in Run(v, m)
<1>0. PageUnits \in Nat \ {0}
    BY HeapAssumption
<1>1. PICK a, b \in Nat : a = v * PageUnits /\ b = m * PageUnits
    BY <1>0
<1>2. (v + m) * PageUnits = a + b
    BY <1>0, <1>1
<1>3. ASSUME u \in Nat PROVE u \in a..(a + b - 1) <=> u \div PageUnits \in v..(v + m - 1)
    <2>1. PICK d \in Nat : d = u \div PageUnits
        BY <1>0, <1>3
    <2>2. v <= d <=> a <= u
        BY <1>0, <1>1, <1>3, <2>1, QuotientBound
    <2>3. v + m <= d <=> a + b <= u
        <3>1. v + m \in Nat
            OBVIOUS
        <3>2. v + m <= u \div PageUnits <=> (v + m) * PageUnits <= u
            BY <1>0, <1>3, <3>1, QuotientBound
        <3> QED BY <1>2, <2>1, <3>2
    <2> QED BY <1>1, <1>3, <2>1, <2>2, <2>3
<1>4. u \in a..(a + b - 1) => u \in Nat
    BY <1>1
<1> QED BY <1>1, <1>3, <1>4 DEF Run

\* The larger and the smaller of two numbers.
LEMMA OfTwo ==
    ASSUME NEW a \in Nat, NEW b \in Nat
    PROVE  /\ Max({a, b}) \in {a, b} /\ a <= Max({a, b}) /\ b <= Max({a, b})
           /\ Min({a, b}) \in {a, b} /\ Min({a, b}) <= a /\ Min({a, b}) <= b
<1>1. \E x \in {a, b} : \A y \in {a, b} : x >= y
    BY DEF Max
<1>2. Max({a, b}) \in {a, b} /\ \A y \in {a, b} : Max({a, b}) >= y
    BY <1>1 DEF Max
<1>3. Min({a, b}) \in {a, b} /\ \A y \in {a, b} : Min({a, b}) <= y
    BY LeastMember
<1> QED BY <1>2, <1>3

\* insert_and_coalesce.
LEMMA CoalescedIs ==
    ASSUME NEW l \in Seq(Ranges), Ascends(l), NEW b \in Ranges, \A u \in Pages(b) : ~Listed(l, u)
    PROVE  /\ Coalesced(l, b) \in Seq(Ranges) /\ Ascends(Coalesced(l, b))
           /\ \A u : Listed(Coalesced(l, b), u) <=> Listed(l, u) \/ u \in Pages(b)
<1>1. PICK s, c : s = b.start /\ c = b.count /\ s \in Nat /\ c \in Nat \ {0}
    BY DEF Ranges
<1>2. PICK n \in Nat : n = Len(l)
    OBVIOUS
<1>3. PICK p : p = Before(l, s)
    OBVIOUS
<1>4. PICK ret : ret = Returned(l, 1, s, c)
    OBVIOUS
<1>5. 1 \in Nat /\ 1 # 0 /\ \A u \in Run(s, c) : ~Listed(l, u)
    BY <1>1 DEF Pages
<1>6. TakesBack(ret, l, n, 1, s, c)
    BY <1>1, <1>2, <1>3, <1>4, <1>5, ReturnedToList, Zenon
<1>7. ret.list = Coalesced(l, b)
    BY <1>1, <1>3, <1>4 DEF Returned, Coalesced
<1>8. Pages(b) = Run(s, c)
    BY <1>1 DEF Pages
<1> QED BY <1>6, <1>7, <1>8 DEF TakesBack

\* A block, or part of one, is handed out.
LEMMA HandOutKeepsUnits ==
    ASSUME HeapInv, NEW i \in 1..Len(freeList), NEW total \in Nat \ {0},
           freeList[i].count >= total, HandOut(i, total),
           UNCHANGED <<mappedPages, heapLow, heapHigh>>
    PROVE  /\ freeList' \in Seq(Ranges) /\ live' \subseteq Ranges
           /\ Ascends(freeList') /\ UnitsTiled'
<1>1. freeList \in Seq(Ranges) /\ Ascends(freeList) /\ freeList[i] \in Ranges /\ Header \in Nat
    BY HeapAssumption DEF HeapInv, HeapTypes
<1>2. PICK s, d \in Nat : s = freeList[i].start /\ d = freeList[i].count /\ total <= d
    BY <1>1 DEF Ranges
<1>3. PICK c \in Nat \ {0} : c = (IF d >= total + Header + 1 THEN total ELSE d) /\ c <= d
    BY <1>1, <1>2
<1>4. PICK t : t = PageRange(s, c)
    OBVIOUS
<1>5. freeList' = TakeFrom(freeList, i, c) /\ live' = live \cup {t}
    BY <1>2, <1>3, <1>4 DEF HandOut, Carved, Block
<1>6. t \in Ranges /\ Pages(t) = Run(s, c)
    BY <1>2, <1>3, <1>4 DEF Ranges, PageRange, Pages
<1>7. /\ freeList' \in Seq(Ranges) /\ Ascends(freeList')
      /\ \A q : Listed(freeList', q) <=> Listed(freeList, q) /\ q \notin Run(freeList[i].start, c)
    <2>1. c <= freeList[i].count
        BY <1>2, <1>3
    <2> QED BY <1>1, <1>3, <1>5, <2>1, TakenFromList
<1>8. \A q : Listed(freeList', q) <=> Listed(freeList, q) /\ q \notin Pages(t)
    BY <1>2, <1>6, <1>7
<1>9. \A q \in Pages(t) : Listed(freeList, q)
    <2>1. \A q \in Run(s, c) : q \in Pages(freeList[i])
        BY <1>2, <1>3 DEF Pages, Run
    <2> QED BY <1>6, <2>1 DEF Listed
<1>10. /\ \A u : Backed(u) <=> Listed(freeList, u) \/ Held(u)
       /\ \A b \in live : \A u \in Pages(b) :
            ~Listed(freeList, u) /\ \A e \in live : u \in Pages(e) => e = b
       /\ \A u : Backed(u) => heapLow <= u /\ u < heapHigh
    BY DEF HeapInv, UnitsTiled
<1>11. \A u : Backed(u)' <=> Backed(u)
    BY DEF Backed
<1>12. \A u : Held(u)' <=> Held(u) \/ u \in Pages(t)
    BY <1>5 DEF Held
<1>13. \A u : Backed(u)' <=> Listed(freeList', u) \/ Held(u)'
    BY <1>8, <1>9, <1>10, <1>11, <1>12
<1>14. \A b \in live' : \A u \in Pages(b) :
            ~Listed(freeList', u) /\ \A e \in live' : u \in Pages(e) => e = b
    BY <1>5, <1>8, <1>9, <1>10, Zenon
<1>15. UnitsTiled'
    BY <1>10, <1>11, <1>13, <1>14 DEF UnitsTiled
<1>16. live' \subseteq Ranges
    BY <1>5, <1>6 DEF HeapInv, HeapTypes
<1> QED BY <1>7, <1>15, <1>16

\* What is wanted of the pool of addresses stands.
LEMMA PoolStands ==
    ASSUME PoolApart, UNCHANGED <<vmaFree, mappedPages, otherHolds>>
    PROVE  PoolApart'
BY DEF PoolApart, HeapPool

LEMMA AllocFitsKeepsHeap ==
    ASSUME HeapInv, NEW t \in HeapCallers, NEW n \in HeapSizes, AllocFits(t, n)
    PROVE  HeapInv'
<1>1. Total(n) \in Nat \ {0}
    BY HeapAssumption DEF Total
<1>2. PICK i : i = Min(Fit(Total(n))) /\ HandOut(i, Total(n)) /\ Fit(Total(n)) # {}
    BY DEF AllocFits
<1>3. UNCHANGED <<heapLow, heapHigh, mappedPages, framesUsed, vmaFree, otherHolds, wanted, found>>
    BY DEF AllocFits
<1>4. i \in 1..Len(freeList) /\ freeList[i].count >= Total(n)
    <2>1. Fit(Total(n)) \subseteq Nat
        BY DEF Fit, HeapInv, HeapTypes
    <2>2. i \in Fit(Total(n))
        BY <1>2, <2>1, LeastMember
    <2> QED BY <2>2 DEF Fit
<1>5. /\ freeList' \in Seq(Ranges) /\ live' \subseteq Ranges
      /\ Ascends(freeList') /\ UnitsTiled'
    BY <1>1, <1>2, <1>3, <1>4, HandOutKeepsUnits
<1>6. HeapTypes' /\ FoundIsEnough'
    BY <1>3, <1>5 DEF HeapInv, HeapTypes, FoundIsEnough
<1>7. PoolApart'
    BY <1>3, PoolStands DEF HeapInv
<1> QED BY <1>5, <1>6, <1>7 DEF HeapInv

LEMMA AllocTakesKeepsHeap ==
    ASSUME HeapInv, NEW t \in HeapCallers, AllocTakes(t)
    PROVE  HeapInv'
<1>1. /\ found[t] # Nothing /\ found' = [found EXCEPT ![t] = Nothing]
      /\ wanted' = [wanted EXCEPT ![t] = 0]
      /\ UNCHANGED <<heapLow, heapHigh, mappedPages, framesUsed, vmaFree, otherHolds>>
    BY DEF AllocTakes
<1>2. wanted[t] \in Nat \ {0} /\ found[t][2].count >= wanted[t]
    BY <1>1 DEF HeapInv, HeapTypes, FoundIsEnough
<1>3. /\ freeList' \in Seq(Ranges) /\ live' \subseteq Ranges
      /\ Ascends(freeList') /\ UnitsTiled'
    <2>1. CASE \E i \in 1..Len(freeList) : Links(i) = found[t]
        <3>1. PICK S : S = {i \in 1..Len(freeList) : Links(i) = found[t]}
            OBVIOUS
        <3>2. S # {} /\ S \subseteq Nat
            BY <2>1, <3>1 DEF HeapInv, HeapTypes
        <3>3. PICK i : i = Min(S) /\ HandOut(i, wanted[t])
            BY <3>1, <3>2 DEF AllocTakes
        <3>4. i \in S
            BY <3>2, <3>3, LeastMember
        <3>5. i \in 1..Len(freeList) /\ Links(i) = found[t]
            BY <3>1, <3>4
        <3>6. found[t][2] = freeList[i]
            BY <3>5 DEF Links
        <3>7. freeList[i].count >= wanted[t]
            BY <1>2, <3>6
        <3> QED BY <1>1, <1>2, <3>3, <3>5, <3>7, HandOutKeepsUnits
    <2>2. CASE ~\E i \in 1..Len(freeList) : Links(i) = found[t]
        <3>1. {i \in 1..Len(freeList) : Links(i) = found[t]} = {}
            BY <2>2
        <3>2. UNCHANGED <<freeList, live>>
            BY <3>1 DEF AllocTakes
        <3>3. \A u : (Backed(u)' <=> Backed(u)) /\ (Held(u)' <=> Held(u))
            BY <1>1, <3>2 DEF Backed, Held
        <3>4. UnitsTiled'
            BY <1>1, <3>2, <3>3 DEF HeapInv, UnitsTiled
        <3> QED BY <3>2, <3>4 DEF HeapInv, HeapTypes
    <2> QED BY <2>1, <2>2
<1>4. HeapTypes' /\ FoundIsEnough'
    BY <1>1, <1>3 DEF HeapInv, HeapTypes, FoundIsEnough
<1>5. PoolApart'
    BY <1>1, PoolStands DEF HeapInv
<1> QED BY <1>3, <1>4, <1>5 DEF HeapInv

LEMMA AllocAgainKeepsHeap ==
    ASSUME HeapInv, NEW t \in HeapCallers, AllocAgain(t)
    PROVE  HeapInv'
<1>1. /\ wanted[t] # 0 /\ found[t] = Nothing
      /\ UNCHANGED <<freeList, live, heapLow, heapHigh, mappedPages, framesUsed, vmaFree, otherHolds>>
    BY DEF AllocAgain
<1>2. HeapTypes' /\ FoundIsEnough'
    <2>1. CASE Fit(wanted[t]) # {}
        <3>1. found' = [found EXCEPT ![t] = Links(Min(Fit(wanted[t])))] /\ wanted' = wanted
            BY <2>1 DEF AllocAgain
        <3>2. PICK i : i = Min(Fit(wanted[t]))
            OBVIOUS
        <3>3. Fit(wanted[t]) \subseteq Nat
            BY DEF Fit, HeapInv, HeapTypes
        <3>4. i \in Fit(wanted[t])
            BY <2>1, <3>2, <3>3, LeastMember
        <3>5. Links(i)[2].count >= wanted[t]
            BY <3>4 DEF Links, Fit
        <3> QED BY <1>1, <3>1, <3>2, <3>5 DEF HeapInv, HeapTypes, FoundIsEnough
    <2>2. CASE Fit(wanted[t]) = {}
        <3>1. wanted' = [wanted EXCEPT ![t] = 0] /\ found' = found
            BY <2>2 DEF AllocAgain
        <3> QED BY <1>1, <3>1 DEF HeapInv, HeapTypes, FoundIsEnough
    <2> QED BY <2>1, <2>2
<1>3. \A u : (Backed(u)' <=> Backed(u)) /\ (Held(u)' <=> Held(u))
    BY <1>1 DEF Backed, Held
<1>4. UnitsTiled' /\ Ascends(freeList')
    BY <1>1, <1>3 DEF HeapInv, UnitsTiled
<1>5. PoolApart'
    BY <1>1, PoolStands DEF HeapInv
<1> QED BY <1>2, <1>4, <1>5 DEF HeapInv

LEMMA FreeKeepsHeap ==
    ASSUME HeapInv, NEW b \in live, Free(b)
    PROVE  HeapInv'
<1>1. /\ live' = live \ {b} /\ freeList' = Coalesced(freeList, b)
      /\ UNCHANGED <<heapLow, heapHigh, mappedPages, framesUsed, vmaFree, otherHolds, wanted, found>>
    BY DEF Free
<1>2. /\ \A u : Backed(u) <=> Listed(freeList, u) \/ Held(u)
      /\ \A e \in live : \A u \in Pages(e) :
            ~Listed(freeList, u) /\ \A d \in live : u \in Pages(d) => d = e
      /\ \A u : Backed(u) => heapLow <= u /\ u < heapHigh
    BY DEF HeapInv, UnitsTiled
<1>3. /\ freeList' \in Seq(Ranges) /\ Ascends(freeList')
      /\ \A u : Listed(freeList', u) <=> Listed(freeList, u) \/ u \in Pages(b)
    <2>1. freeList \in Seq(Ranges) /\ Ascends(freeList) /\ b \in Ranges /\ \A u \in Pages(b) : ~Listed(freeList, u)
        BY <1>2 DEF HeapInv, HeapTypes
    <2> QED BY <1>1, <2>1, CoalescedIs
<1>4. HeapTypes' /\ FoundIsEnough'
    BY <1>1, <1>3 DEF HeapInv, HeapTypes, FoundIsEnough
<1>5. \A u : (Backed(u)' <=> Backed(u)) /\ (Held(u) <=> Held(u)' \/ u \in Pages(b))
    BY <1>1 DEF Backed, Held
<1>6. \A e \in live' : \A u \in Pages(e) :
            ~Listed(freeList', u) /\ \A d \in live' : u \in Pages(d) => d = e
    BY <1>1, <1>2, <1>3
<1>7. \A u : Backed(u)' <=> Listed(freeList', u) \/ Held(u)'
    BY <1>2, <1>3, <1>5
<1>8. UnitsTiled'
    BY <1>1, <1>2, <1>5, <1>6, <1>7 DEF UnitsTiled
<1>9. PoolApart'
    BY <1>1, PoolStands DEF HeapInv
<1> QED BY <1>3, <1>4, <1>8, <1>9 DEF HeapInv

LEMMA OtherKeepsHeap ==
    ASSUME HeapInv, OtherReturns
    PROVE  HeapInv'
<1>1. /\ otherHolds /\ otherHolds' = FALSE /\ vmaFree' = Returned(vmaFree, 1, HeapBase, OtherPages).list
      /\ UNCHANGED <<freeList, live, heapLow, heapHigh, mappedPages, framesUsed, wanted, found>>
    BY DEF OtherReturns
<1>2. \A u : (Backed(u)' <=> Backed(u)) /\ (Held(u)' <=> Held(u))
    BY <1>1 DEF Backed, Held
<1>3. UnitsTiled' /\ Ascends(freeList') /\ HeapTypes' /\ FoundIsEnough'
    BY <1>1, <1>2 DEF HeapInv, UnitsTiled, HeapTypes, FoundIsEnough
<1>4. /\ vmaFree \in Seq(Ranges) /\ Ascends(vmaFree) /\ mappedPages \subseteq HeapPool
      /\ \A p : Listed(vmaFree, p) => p \in HeapPool /\ p \notin mappedPages
      /\ \A p \in Run(HeapBase, OtherPages) : ~Listed(vmaFree, p) /\ p \notin mappedPages
    BY <1>1 DEF HeapInv, PoolApart
<1>5. HeapBase \in Nat /\ OtherPages \in Nat \ {0} /\ HeapPages \in Nat /\ OtherPages < HeapPages
    BY HeapAssumption
<1>6. PICK ret, n, at : /\ ret = Returned(vmaFree, 1, HeapBase, OtherPages)
                        /\ n = Len(vmaFree) /\ at = Before(vmaFree, HeapBase)
    OBVIOUS
<1>7. TakesBack(ret, vmaFree, n, 1, HeapBase, OtherPages)
    <2>1. 1 \in Nat /\ 1 # 0 /\ n \in Nat
        BY <1>4, <1>6
    <2> QED BY <1>4, <1>5, <1>6, <2>1, ReturnedToList, Zenon
<1>8. /\ vmaFree' \in Seq(Ranges) /\ Ascends(vmaFree')
      /\ \A p : Listed(vmaFree', p) <=> Listed(vmaFree, p) \/ p \in Run(HeapBase, OtherPages)
    BY <1>1, <1>6, <1>7 DEF TakesBack
<1>9. \A p \in Run(HeapBase, OtherPages) : p \in HeapPool
    BY <1>5 DEF HeapPool, Run
<1>10. HeapPool' = HeapPool
    BY DEF HeapPool
<1>11. PoolApart'
    BY <1>1, <1>4, <1>8, <1>9, <1>10 DEF PoolApart
<1> QED BY <1>3, <1>11 DEF HeapInv

\* The pages that get a frame before the frames run out.
LEMMA MappableFits ==
    ASSUME HeapInv, NEW v \in Nat, NEW c \in Nat, NEW m, m = Mappable(v, c)
    PROVE  /\ m \in 0..c
           /\ framesUsed + FramesFor(v, m) \in Nat /\ framesUsed + FramesFor(v, m) <= HeapFrames
<1>1. framesUsed \in Nat /\ framesUsed <= HeapFrames /\ TableSpan \in Nat \ {0} /\ HeapFrames \in Nat
    BY HeapAssumption DEF HeapInv, HeapTypes
<1>2. PICK S : S = {k \in 0..c : framesUsed + FramesFor(v, k) <= HeapFrames}
    OBVIOUS
<1>3. 0 \in S
    <2>1. Run(v, 0) = {}
        BY DEF Run
    <2>2. NewTables(Run(v, 0)) = {}
        BY <2>1 DEF NewTables
    <2>3. FramesFor(v, 0) = 0
        BY <2>2, FS_EmptySet DEF FramesFor
    <2> QED BY <1>1, <1>2, <2>3
<1>4. m \in S
    BY <1>2, <1>3, GreatestMember DEF Mappable
<1>5. m \in 0..c /\ framesUsed + FramesFor(v, m) <= HeapFrames
    BY <1>2, <1>4
<1>6. NewTables(Run(v, m)) \subseteq 0..(v + m)
    <2> SUFFICES ASSUME NEW p \in Run(v, m) PROVE p \div TableSpan \in 0..(v + m)
        BY DEF NewTables, Table
    <2>1. p \in Nat /\ p <= v + m
        BY <1>5 DEF Run
    <2>2. PICK d \in Nat : d = p \div TableSpan
        BY <1>1, <2>1
    <2>3. d * TableSpan <= p
        BY <1>1, <2>1, <2>2, QuotientBound
    <2>4. d <= d * TableSpan
        BY <1>1, <2>2
    <2> QED BY <1>1, <1>5, <2>1, <2>2, <2>3, <2>4
<1>7. Cardinality(NewTables(Run(v, m))) \in Nat
    <2>1. IsFiniteSet(0..(v + m))
        BY <1>5, FS_Interval
    <2>2. IsFiniteSet(NewTables(Run(v, m)))
        BY <1>6, <2>1, FS_Subset
    <2> QED BY <2>2, FS_CardinalityType
<1>8. FramesFor(v, m) \in Nat
    BY <1>5, <1>7 DEF FramesFor
<1> QED BY <1>1, <1>5, <1>8

\* The first pages of a new range become a free block.
LEMMA GrowByKeepsUnits ==
    ASSUME HeapInv, NEW v \in Nat, NEW c, NEW m \in Nat \ {0}, Run(v, m) \cap mappedPages = {},
           GrowBy(v, c, m), live' = live
    PROVE  /\ freeList' \in Seq(Ranges) /\ Ascends(freeList') /\ UnitsTiled'
           /\ heapLow' \in Nat /\ heapHigh' \in Nat /\ mappedPages' = mappedPages \cup Run(v, m)
<1>0. PageUnits \in Nat \ {0} /\ heapLow \in Nat /\ heapHigh \in Nat
    BY HeapAssumption DEF HeapInv, HeapTypes
<1>1. PICK s \in Nat, k \in Nat \ {0} : s = v * PageUnits /\ k = m * PageUnits /\ (v + m) * PageUnits = s + k
    <2>1. v * PageUnits \in Nat /\ m * PageUnits \in Nat /\ m * PageUnits # 0
        BY <1>0
    <2>2. (v + m) * PageUnits = v * PageUnits + m * PageUnits
        BY <1>0
    <2> QED BY <2>1, <2>2
<1>2. PICK b : b = Block(s, k)
    OBVIOUS
<1>3. b \in Ranges /\ Pages(b) = Run(s, k)
    BY <1>1, <1>2 DEF Ranges, Block, PageRange, Pages
<1>4. \A u : u \in Pages(b) <=> u \in Nat /\ u \div PageUnits \in Run(v, m)
    BY <1>1, <1>3, UnitsOfPages
<1>5. /\ freeList' = Coalesced(freeList, b) /\ mappedPages' = mappedPages \cup Run(v, m)
      /\ heapLow' = Min({heapLow, s}) /\ heapHigh' = Max({heapHigh, s + k})
    BY <1>1, <1>2 DEF GrowBy
<1>6. /\ \A u : Backed(u) <=> Listed(freeList, u) \/ Held(u)
      /\ \A e \in live : \A u \in Pages(e) :
            ~Listed(freeList, u) /\ \A d \in live : u \in Pages(d) => d = e
      /\ \A u : Backed(u) => heapLow <= u /\ u < heapHigh
    BY DEF HeapInv, UnitsTiled
<1>7. \A u \in Pages(b) : ~Backed(u)
    BY <1>4 DEF Backed
<1>8. /\ freeList' \in Seq(Ranges) /\ Ascends(freeList')
      /\ \A u : Listed(freeList', u) <=> Listed(freeList, u) \/ u \in Pages(b)
    <2>1. freeList \in Seq(Ranges) /\ Ascends(freeList) /\ \A u \in Pages(b) : ~Listed(freeList, u)
        BY <1>6, <1>7 DEF HeapInv, HeapTypes
    <2> QED BY <1>3, <1>5, <2>1, CoalescedIs
<1>9. \A u : (Backed(u)' <=> Backed(u) \/ u \in Pages(b)) /\ (Held(u)' <=> Held(u))
    BY <1>4, <1>5 DEF Backed, Held
<1>10. \A e \in live' : \A u \in Pages(e) :
            ~Listed(freeList', u) /\ \A d \in live' : u \in Pages(d) => d = e
    <2>1. \A e \in live : \A u \in Pages(e) : Backed(u)
        BY <1>6 DEF Held
    <2> QED BY <1>6, <1>7, <1>8, <2>1
<1>11. \A u : Backed(u)' <=> Listed(freeList', u) \/ Held(u)'
    BY <1>6, <1>8, <1>9
<1>12. /\ heapLow' \in Nat /\ heapLow' <= heapLow /\ heapLow' <= s
       /\ heapHigh' \in Nat /\ heapHigh <= heapHigh' /\ s + k <= heapHigh'
    <2>1. s + k \in Nat
        BY <1>1
    <2>2. PICK x, y : x = Min({heapLow, s}) /\ y = Max({heapHigh, s + k})
        OBVIOUS
    <2>3. x \in {heapLow, s} /\ x <= heapLow /\ x <= s
        BY <1>0, <1>1, <2>2, OfTwo
    <2>4. y \in {heapHigh, s + k} /\ heapHigh <= y /\ s + k <= y
        BY <1>0, <2>1, <2>2, OfTwo
    <2> QED BY <1>0, <1>1, <1>5, <2>1, <2>2, <2>3, <2>4
<1>13. \A u : Backed(u)' => heapLow' <= u /\ u < heapHigh'
    <2>1. ASSUME NEW u \in Pages(b) PROVE heapLow' <= u /\ u < heapHigh'
        <3>1. u \in Int /\ s <= u /\ u < s + k
            BY <1>1, <1>3 DEF Run
        <3> QED BY <1>1, <1>12, <3>1
    <2>2. ASSUME NEW u, Backed(u) PROVE heapLow' <= u /\ u < heapHigh'
        <3>1. u \in Nat /\ heapLow <= u /\ u < heapHigh
            BY <1>6, <2>2 DEF Backed
        <3> QED BY <1>0, <1>12, <3>1
    <2> QED BY <1>9, <2>1, <2>2
<1>14. UnitsTiled'
    BY <1>10, <1>11, <1>13 DEF UnitsTiled
<1> QED BY <1>5, <1>8, <1>12, <1>14

LEMMA AllocGrowsKeepsHeap ==
    ASSUME HeapInv, NEW t \in HeapCallers, NEW n \in HeapSizes, AllocGrows(t, n)
    PROVE  HeapInv'
<1>1. PICK total \in Nat \ {0} : total = Total(n)
    BY HeapAssumption DEF Total
<1>2. PICK c \in Nat \ {0} : c = GrowPages(total)
    <2>1. total + PageUnits - 1 \in Nat /\ PageUnits \in Nat \ {0} /\ GrowChunk \in Nat \ {0}
        BY <1>1, HeapAssumption
    <2>2. PICK a \in Nat : a = (total + PageUnits - 1) \div PageUnits
        BY <2>1
    <2>3. GrowPages(total) \in {a, GrowChunk} /\ GrowChunk <= GrowPages(total)
        BY <2>1, <2>2, OfTwo DEF GrowPages
    <2> QED BY <2>1, <2>2, <2>3
<1>3. PICK i : i = Min(Fitting(vmaFree, c))
    OBVIOUS
<1>4. PICK v : v = vmaFree[i].start
    OBVIOUS
<1>5. PICK m : m = Mappable(v, c)
    OBVIOUS
<1>6. /\ wanted[t] = 0 /\ Fitting(vmaFree, c) # {} /\ vmaFree' = TakeFrom(vmaFree, i, c)
      /\ framesUsed' = IF m = c THEN framesUsed + FramesFor(v, m) ELSE HeapFrames
      /\ IF m = 0
         THEN UNCHANGED <<freeList, mappedPages, tables, heapLow, heapHigh, wanted>>
         ELSE GrowBy(v, c, m) /\ wanted' = [wanted EXCEPT ![t] = total]
      /\ UNCHANGED <<live, otherHolds, found, damaged>>
    BY <1>1, <1>2, <1>3, <1>4, <1>5 DEF AllocGrows
<1>7. /\ vmaFree \in Seq(Ranges) /\ Ascends(vmaFree) /\ mappedPages \subseteq HeapPool
      /\ \A p : Listed(vmaFree, p) => p \in HeapPool /\ p \notin mappedPages
      /\ otherHolds => \A p \in Run(HeapBase, OtherPages) : ~Listed(vmaFree, p) /\ p \notin mappedPages
    BY DEF HeapInv, PoolApart
<1>8. i \in 1..Len(vmaFree) /\ vmaFree[i].count >= c
    <2>1. Fitting(vmaFree, c) \subseteq Nat
        BY <1>7 DEF Fitting
    <2>2. i \in Fitting(vmaFree, c)
        BY <1>3, <1>6, <2>1, LeastMember
    <2> QED BY <2>2 DEF Fitting
<1>9. v \in Nat /\ vmaFree[i].count \in Nat
    <2>1. vmaFree[i] \in Ranges
        BY <1>7, <1>8
    <2> QED BY <1>4, <2>1 DEF Ranges
<1>10. /\ vmaFree' \in Seq(Ranges) /\ Ascends(vmaFree')
       /\ \A q : Listed(vmaFree', q) <=> Listed(vmaFree, q) /\ q \notin Run(v, c)
    <2>1. c <= vmaFree[i].count
        BY <1>2, <1>8, <1>9
    <2> QED BY <1>2, <1>4, <1>6, <1>7, <1>8, <2>1, TakenFromList
<1>11. /\ m \in 0..c
       /\ framesUsed + FramesFor(v, m) \in Nat /\ framesUsed + FramesFor(v, m) <= HeapFrames
    BY <1>2, <1>5, <1>9, MappableFits
<1>12. framesUsed' \in Nat /\ framesUsed' <= HeapFrames
    BY <1>6, <1>11, HeapAssumption
<1>13. \A q \in Run(v, m) : Listed(vmaFree, q) /\ q \in Run(v, c)
    <2>1. \A q \in Run(v, m) : q \in Run(v, c) /\ q \in Run(v, vmaFree[i].count)
        BY <1>2, <1>8, <1>9, <1>11 DEF Run
    <2> QED BY <1>4, <1>8, <2>1 DEF Listed, Pages
<1>14. HeapPool' = HeapPool
    BY DEF HeapPool
<1>15. CASE m = 0
    <2>1. /\ freeList' = freeList /\ mappedPages' = mappedPages /\ heapLow' = heapLow
          /\ heapHigh' = heapHigh /\ wanted' = wanted /\ live' = live /\ found' = found
        BY <1>6, <1>15
    <2>2. \A u : (Backed(u)' <=> Backed(u)) /\ (Held(u)' <=> Held(u))
        BY <2>1 DEF Backed, Held
    <2>3. UnitsTiled' /\ Ascends(freeList')
        BY <2>1, <2>2 DEF HeapInv, UnitsTiled
    <2>4. HeapTypes' /\ FoundIsEnough'
        BY <1>12, <2>1 DEF HeapInv, HeapTypes, FoundIsEnough
    <2>5. PoolApart'
        BY <1>6, <1>7, <1>10, <1>14, <2>1 DEF PoolApart
    <2> QED BY <2>3, <2>4, <2>5 DEF HeapInv
<1>16. CASE m # 0
    <2>1. GrowBy(v, c, m) /\ wanted' = [wanted EXCEPT ![t] = total] /\ live' = live /\ found' = found
        BY <1>6, <1>16
    <2>2. m \in Nat \ {0} /\ Run(v, m) \cap mappedPages = {}
        BY <1>2, <1>7, <1>11, <1>13, <1>16
    <2>3. /\ freeList' \in Seq(Ranges) /\ Ascends(freeList') /\ UnitsTiled'
          /\ heapLow' \in Nat /\ heapHigh' \in Nat /\ mappedPages' = mappedPages \cup Run(v, m)
        BY <1>9, <2>1, <2>2, GrowByKeepsUnits
    <2>4. HeapTypes'
        BY <1>1, <1>12, <2>1, <2>3 DEF HeapInv, HeapTypes
    <2>5. FoundIsEnough'
        <3>1. found[t] = Nothing
            BY <1>6 DEF HeapInv, FoundIsEnough
        <3> QED BY <2>1, <3>1 DEF HeapInv, HeapTypes, FoundIsEnough
    <2>6. PoolApart'
        BY <1>6, <1>7, <1>10, <1>13, <1>14, <2>3 DEF PoolApart
    <2> QED BY <2>3, <2>4, <2>5, <2>6 DEF HeapInv
<1> QED BY <1>15, <1>16

LEMMA HeapInitially == HeapInit => HeapInv
<1> SUFFICES ASSUME HeapInit PROVE HeapInv
    OBVIOUS
<1>0. /\ PageUnits \in Nat \ {0} /\ InitPages \in Nat \ {0} /\ OtherPages \in Nat \ {0}
      /\ HeapBase \in Nat /\ HeapPages \in Nat /\ HeapFrames \in Nat /\ TableSpan \in Nat \ {0}
      /\ OtherPages + InitPages < HeapPages
    BY HeapAssumption
<1>1. PICK v \in Nat : v = HeapBase + OtherPages
    BY <1>0
<1>2. PICK s \in Nat, k \in Nat \ {0} :
            s = v * PageUnits /\ k = InitPages * PageUnits /\ (v + InitPages) * PageUnits = s + k
    <2>1. v * PageUnits \in Nat /\ InitPages * PageUnits \in Nat /\ InitPages * PageUnits # 0
        BY <1>0, <1>1
    <2>2. (v + InitPages) * PageUnits = v * PageUnits + InitPages * PageUnits
        BY <1>0, <1>1
    <2> QED BY <2>1, <2>2
<1>3. PICK a \in Nat, d \in Nat \ {0} : a = v + InitPages /\ d = HeapPages - OtherPages - InitPages
    BY <1>0, <1>1
<1>4. PICK b, r : b = Block(s, k) /\ r = PageRange(a, d)
    OBVIOUS
<1>5. /\ freeList = <<b>> /\ live = {} /\ heapLow = s /\ heapHigh = s + k
      /\ mappedPages = Run(v, InitPages) /\ vmaFree = <<r>>
      /\ tables = {Table(p) : p \in Run(v, InitPages)}
      /\ framesUsed = InitPages + Cardinality(tables) /\ framesUsed <= HeapFrames
      /\ wanted = [t \in HeapCallers |-> 0] /\ found = [t \in HeapCallers |-> Nothing]
    BY <1>1, <1>2, <1>3, <1>4 DEF HeapInit
<1>6. b \in Ranges /\ Pages(b) = Run(s, k) /\ r \in Ranges /\ Pages(r) = Run(a, d)
    BY <1>2, <1>3, <1>4 DEF Ranges, Block, PageRange, Pages
<1>7. /\ Len(freeList) = 1 /\ freeList[1] = b /\ freeList \in Seq(Ranges)
      /\ Len(vmaFree) = 1 /\ vmaFree[1] = r /\ vmaFree \in Seq(Ranges)
    BY <1>5, <1>6
<1>8. /\ Ascends(freeList) /\ \A u : Listed(freeList, u) <=> u \in Run(s, k)
      /\ Ascends(vmaFree) /\ \A p : Listed(vmaFree, p) <=> p \in Run(a, d)
    BY <1>6, <1>7 DEF Ascends, Listed
<1>9. framesUsed \in Nat
    <2>1. tables \subseteq 0..a
        <3> SUFFICES ASSUME NEW p \in Run(v, InitPages) PROVE p \div TableSpan \in 0..a
            BY <1>5 DEF Table
        <3>1. p \in Nat /\ p <= a
            BY <1>0, <1>1, <1>3 DEF Run
        <3>2. PICK q \in Nat : q = p \div TableSpan
            BY <1>0, <3>1
        <3>3. q * TableSpan <= p
            BY <1>0, <3>1, <3>2, QuotientBound
        <3>4. q <= q * TableSpan
            BY <1>0, <3>2
        <3> QED BY <1>0, <1>3, <3>1, <3>2, <3>3, <3>4
    <2>2. IsFiniteSet(0..a)
        BY <1>3, FS_Interval
    <2>3. IsFiniteSet(tables)
        BY <2>1, <2>2, FS_Subset
    <2>4. Cardinality(tables) \in Nat
        BY <2>3, FS_CardinalityType
    <2> QED BY <1>0, <1>5, <2>4
<1>10. HeapTypes /\ FoundIsEnough
    BY <1>2, <1>5, <1>7, <1>9 DEF HeapTypes, FoundIsEnough
<1>11. UnitsTiled
    <2>1. \A u : Backed(u) <=> u \in Run(s, k)
        BY <1>0, <1>1, <1>2, <1>5, UnitsOfPages DEF Backed
    <2>2. \A u \in Run(s, k) : s <= u /\ u < s + k
        BY <1>2 DEF Run
    <2>3. \A u : ~Held(u)
        BY <1>5 DEF Held
    <2> QED BY <1>5, <1>8, <2>1, <2>2, <2>3 DEF UnitsTiled
<1>12. PoolApart
    <2>1. \A p \in Run(v, InitPages) : p \in HeapPool
        BY <1>0, <1>1 DEF HeapPool, Run
    <2>2. \A p \in Run(a, d) : p \in HeapPool /\ p \notin Run(v, InitPages) /\ p \notin Run(HeapBase, OtherPages)
        BY <1>0, <1>1, <1>3 DEF HeapPool, Run
    <2>3. \A p \in Run(HeapBase, OtherPages) : p \notin Run(v, InitPages)
        BY <1>0, <1>1 DEF Run
    <2> QED BY <1>5, <1>7, <1>8, <2>1, <2>2, <2>3 DEF PoolApart
<1> QED BY <1>8, <1>10, <1>11, <1>12 DEF HeapInv

LEMMA InvMeansHeapIsSound ==
    ASSUME HeapInv
    PROVE  HeapIsSound
<1>0. /\ freeList \in Seq(Ranges) /\ Ascends(freeList) /\ Len(freeList) \in Nat /\ live \subseteq Ranges
      /\ heapLow \in Nat /\ heapHigh \in Nat
      /\ HeapBase \in Nat /\ HeapPages \in Nat /\ PageUnits \in Nat \ {0}
    BY HeapAssumption DEF HeapInv, HeapTypes
<1>1. /\ \A u : Backed(u) <=> Listed(freeList, u) \/ Held(u)
      /\ \A b \in live : \A u \in Pages(b) :
            ~Listed(freeList, u) /\ \A d \in live : u \in Pages(d) => d = b
      /\ \A u : Backed(u) => heapLow <= u /\ u < heapHigh
    BY DEF HeapInv, UnitsTiled
<1>2. \A b : Units(b) = Pages(b)
    BY DEF Units, Pages, Run
<1>3. HeapTiled
    <2> SUFFICES ASSUME NEW p \in HeapBase..(HeapBase + HeapPages - 1),
                        NEW u \in (p * PageUnits)..((p + 1) * PageUnits - 1)
                 PROVE  Cardinality({i \in 1..Len(freeList) : u \in Pages(freeList[i])})
                        + Cardinality({b \in live : u \in Pages(b)})
                        = IF p \in mappedPages THEN 1 ELSE 0
        BY <1>2 DEF HeapTiled
    <2>1. PICK I : I = {i \in 1..Len(freeList) : u \in Pages(freeList[i])}
        OBVIOUS
    <2>2. PICK H : H = {b \in live : u \in Pages(b)}
        OBVIOUS
    <2>3. Backed(u) <=> p \in mappedPages
        <3>1. p \in Nat /\ 1 \in Nat
            BY <1>0
        <3>2. p * PageUnits \in Nat /\ (p + 1) * PageUnits = p * PageUnits + 1 * PageUnits
            BY <1>0, <3>1
        <3>3. u \in Run(p * PageUnits, 1 * PageUnits)
            <4>1. PICK a, b : a = p * PageUnits /\ b = (p + 1) * PageUnits /\ u \in a..(b - 1)
                OBVIOUS
            <4>2. PICK c : c = 1 * PageUnits
                OBVIOUS
            <4>3. b = a + c /\ a \in Int /\ b \in Int /\ c \in Int
                BY <1>0, <3>1, <3>2, <4>1, <4>2
            <4>4. u \in a..(a + c - 1)
                BY <4>1, <4>3
            <4> QED BY <4>1, <4>2, <4>4 DEF Run
        <3>4. u \in Nat /\ u \div PageUnits \in Run(p, 1)
            BY <3>1, <3>3, UnitsOfPages
        <3>5. u \div PageUnits = p
            BY <3>1, <3>4 DEF Run
        <3> QED BY <3>4, <3>5 DEF Backed
    <2>4. \A i, j \in I : i = j
        BY <1>0, <2>1, ListedOnce
    <2>5. \A b, d \in H : b = d
        BY <1>1, <2>2
    <2>6. (I # {} <=> Listed(freeList, u)) /\ (H # {} <=> Held(u))
        BY <2>1, <2>2 DEF Listed, Held
    <2>7. (I = {} \/ \E i : I = {i}) /\ (H = {} \/ \E b : H = {b})
        <3>1. I = {} \/ \E i : I = {i}
            BY <2>4
        <3>2. H = {} \/ \E b : H = {b}
            BY <2>5
        <3> QED BY <3>1, <3>2
    <2>8. Cardinality(I) = (IF I = {} THEN 0 ELSE 1) /\ Cardinality(H) = (IF H = {} THEN 0 ELSE 1)
        BY <2>7, FS_EmptySet, FS_Singleton
    <2>9. \/ I # {} /\ H = {} /\ p \in mappedPages
          \/ I = {} /\ H # {} /\ p \in mappedPages
          \/ I = {} /\ H = {} /\ p \notin mappedPages
        <3>1. H # {} => ~Listed(freeList, u)
            BY <1>1, <2>2
        <3> QED BY <1>1, <2>3, <2>6, <3>1
    <2> QED BY <2>1, <2>2, <2>8, <2>9
<1>4. FreeListCoalesced
    <2> SUFFICES ASSUME NEW i \in 1..(Len(freeList) - 1)
                 PROVE  freeList[i].start + freeList[i].count < freeList[i + 1].start
        BY DEF FreeListCoalesced
    <2>1. i \in 1..Len(freeList) /\ i + 1 \in 1..Len(freeList) /\ i < i + 1
        BY <1>0
    <2> QED BY <1>0, <2>1 DEF Ascends
<1>5. BoundsCoverHeap
    <2> SUFFICES ASSUME NEW b \in FreeBlocks \cup live
                 PROVE  heapLow <= b.start /\ b.start + b.count <= heapHigh
        BY DEF BoundsCoverHeap
    <2>1. b \in Ranges /\ \A u \in Pages(b) : Listed(freeList, u) \/ Held(u)
        BY <1>0 DEF FreeBlocks, Listed, Held
    <2>2. PICK s \in Nat, k \in Nat \ {0} : s = b.start /\ k = b.count
        BY <2>1 DEF Ranges
    <2>3. s \in Pages(b) /\ s + k - 1 \in Pages(b)
        BY <2>2 DEF Pages, Run
    <2>4. heapLow <= s /\ s + k - 1 < heapHigh
        BY <1>1, <2>1, <2>3
    <2>5. s + k <= heapHigh
        BY <1>0, <2>2, <2>4
    <2> QED BY <2>2, <2>4, <2>5
<1> QED BY <1>3, <1>4, <1>5 DEF HeapIsSound

\* Each unit of the heap's mapped pages is in one block, free or held, free blocks are
\* in address order and merged, and heap_low and heap_high cover them all
\* (Kmalloc::Alloc, Free, insert_and_coalesce): for requests of any size by any number
\* of callers, and however few of a new range's pages get a frame.
THEOREM HeapStaysSound == HeapSpec => []HeapIsSound
<1>1. HeapInv /\ [HeapNext]_heapVars => HeapInv'
    <2> SUFFICES ASSUME HeapInv, [HeapNext]_heapVars PROVE HeapInv'
        OBVIOUS
    <2>1. CASE HeapNext
        BY <2>1, AllocFitsKeepsHeap, AllocGrowsKeepsHeap, AllocAgainKeepsHeap, AllocTakesKeepsHeap,
           FreeKeepsHeap, OtherKeepsHeap DEF HeapNext
    <2>2. CASE UNCHANGED heapVars
        <3>1. /\ freeList' = freeList /\ live' = live /\ heapLow' = heapLow /\ heapHigh' = heapHigh
              /\ mappedPages' = mappedPages /\ framesUsed' = framesUsed /\ vmaFree' = vmaFree
              /\ otherHolds' = otherHolds /\ wanted' = wanted /\ found' = found
            BY <2>2 DEF heapVars
        <3>2. \A u : (Backed(u)' <=> Backed(u)) /\ (Held(u)' <=> Held(u))
            BY <3>1 DEF Backed, Held
        <3>3. HeapTypes' /\ FoundIsEnough' /\ Ascends(freeList') /\ UnitsTiled'
            BY <3>1, <3>2 DEF HeapInv, HeapTypes, FoundIsEnough, UnitsTiled
        <3>4. PoolApart'
            BY <3>1, PoolStands DEF HeapInv
        <3> QED BY <3>3, <3>4 DEF HeapInv
    <2> QED BY <2>1, <2>2
<1>2. HeapInit => HeapInv
    BY HeapInitially
<1>3. HeapInv => HeapIsSound
    BY InvMeansHeapIsSound
<1> QED BY <1>1, <1>2, <1>3, PTL DEF HeapSpec
=============================================================================
