------------------------------ MODULE PhysAlloc ------------------------------
(***************************************************************************)
(* The allocator of physical frames (mm/physicalalloc.cpp): two bitmaps,    *)
(* below and above PHYS_BASE, filled at boot from the firmware's memory map  *)
(* and the frame buffer, then reserved from, allocated from first fit and    *)
(* freed to.  A frame is its number; addresses of the memory map count in    *)
(* Grain-ths of a page.  handed and reserved are kept for the properties:    *)
(* the runs callers hold and the frames taken when boot ends.               *)
(***************************************************************************)
EXTENDS PageRuns

CONSTANTS LowFrames,   \* LOW_FRAMES, the frame number of PHYS_BASE
          HighFrames,  \* PHYS_FRAMES
          Grain,       \* units of the memory map per page
          MemMaps,     \* memory maps: sets of [base, length, usable]
          FrameBuffers, \* frame buffers: [base, length]
          RunSizes,    \* frame counts callers ask for
          NoMap        \* the boot loader passed no memory map

ASSUME FrameAssumption == /\ LowFrames \in Nat \ {0} /\ HighFrames \in Nat \ {0}
                          /\ Grain \in Nat \ {0}
                          /\ RunSizes \subseteq Nat \ {0}
                          /\ MemMaps \subseteq SUBSET [base : Nat, length : Nat, usable : BOOLEAN]
                          /\ FrameBuffers \subseteq [base : Nat, length : Nat]

VARIABLES bootInfo, booting, used, held, reserved

physVars == <<bootInfo, booting, used, held, reserved>>

Low == 0..(LowFrames - 1)
High == LowFrames..(LowFrames + HighFrames - 1)

PagesUp(x) == (x + Grain - 1) \div Grain
PagesDown(x) == x \div Grain

Usable(r) == PagesUp(r.base)..(PagesDown(r.base + r.length) - 1)

\* The frames the bitmaps show free after the memory map was read.
FreeAtBoot(map) ==
    IF map = NoMap THEN High
    ELSE UNION {Usable(r) \cap (Low \cup High) : r \in {x \in map : x.usable /\ x.length # 0}}

FrameBufferFrames(fb) == PagesDown(fb.base)..(PagesUp(fb.base + fb.length) - 1)

\* PageAlloc::Physical
Physical ==
    /\ bootInfo \in [map : MemMaps \cup {NoMap}, fb : FrameBuffers]
    /\ booting = TRUE
    /\ used = ((Low \cup High) \ FreeAtBoot(bootInfo.map))
              \cup (FrameBufferFrames(bootInfo.fb) \cap High)
    /\ held = {} /\ reserved = {}

\* PhysicalReserve: the low part and the high part of a run each by its rule;
\* neither frame 0 nor a part that leaves the managed range is reserved.
ReservedBy(s, c) ==
    LET lowCount == IF s + c <= LowFrames THEN c ELSE LowFrames - s
        lowPart == IF s \in Low THEN Run(s, lowCount) ELSE {}
        highPart == Run(s, c) \ Low
    IN IF s = 0 THEN {}
       ELSE lowPart \cup (IF highPart \subseteq High THEN highPart ELSE {})

PhysicalReserve(s, c) ==
    /\ booting
    /\ used' = used \cup ReservedBy(s, c)
    /\ UNCHANGED <<bootInfo, booting, held, reserved>>

BootDone ==
    /\ booting /\ booting' = FALSE
    /\ reserved' = used
    /\ UNCHANGED <<bootInfo, used, held>>

\* A caller that gets address 0 takes it for a failure.
Hand(s, c) ==
    /\ ~booting
    /\ held' = IF s = 0 THEN held ELSE held \cup {PageRange(s, c)}
    /\ UNCHANGED <<bootInfo, booting, reserved>>

PhysicalAllocPages(c) ==
    LET s == FirstRun(High \ used, c) IN
    /\ used' = IF s = 0 THEN used ELSE used \cup Run(s, c)
    /\ Hand(s, c)

\* With frame 0 free the run is marked and 0 is returned.
PhysicalAllocLowPages(c) ==
    LET s == FirstRun(Low \ used, c) IN
    /\ used' = IF Run(s, c) \subseteq Low \ used THEN used \cup Run(s, c) ELSE used
    /\ Hand(s, c)

\* PhysicalFreePages and, for a low run, PhysicalFreeLowPages.
PhysicalFreePages(r) ==
    /\ ~booting
    /\ used' = used \ Pages(r)
    /\ held' = held \ {r}
    /\ UNCHANGED <<bootInfo, booting, reserved>>

PhysNext ==
    \/ \E s \in Low \cup High, c \in RunSizes : PhysicalReserve(s, c)
    \/ BootDone
    \/ \E c \in RunSizes : PhysicalAllocPages(c) \/ PhysicalAllocLowPages(c)
    \/ \E r \in held : PhysicalFreePages(r)

PhysSpec == Physical /\ [][PhysNext]_physVars

-----------------------------------------------------------------------------
\* Whatever the memory map's alignment, a frame that can be handed out lies
\* wholly in one usable region and holds no pixel, for as long as callers free
\* what they were given.
FreeFramesAreRam ==
    bootInfo.map # NoMap =>
      \A f \in (Low \cup High) \ used :
        /\ \E r \in bootInfo.map :
             r.usable /\ r.base <= f * Grain /\ (f + 1) * Grain <= r.base + r.length
        /\ f \in High => ~ \E x \in 0..(bootInfo.fb.length - 1) :
                             (bootInfo.fb.base + x) \div Grain = f

\* Runs callers hold are disjoint and marked, and every other marked frame was
\* reserved at boot.  Frame 0 is the exception: with it in usable memory
\* PhysicalAllocLowPages marks a run and reports failure.
FramesAccounted ==
    /\ \A r \in held : Pages(r) \subseteq used \ reserved
    /\ \A r1, r2 \in held : r1 # r2 => Pages(r1) \cap Pages(r2) = {}
    /\ ~booting /\ 0 \in reserved => used = reserved \cup UNION {Pages(r) : r \in held}

\* Frames that can be handed out are memory, and those handed out are accounted for.
FramesAreSound == FreeFramesAreRam /\ FramesAccounted
=============================================================================
