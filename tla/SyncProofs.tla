----------------------------- MODULE SyncProofs -----------------------------
(***************************************************************************)
(* Threaded interrupts and pipes, for any number of tasks, interrupts,     *)
(* readers and writers, and a ring of any size.  (The sleeping lock is in  *)
(* DeviceProofs, with the drivers that use it.)                            *)
(*                                                                         *)
(* MaskedIsKnown needs no more than types.  That bytes come in order needs *)
(* to know which byte is in each place of the ring (RingNumbered).         *)
(***************************************************************************)
EXTENDS ThreadedIrq, Pipe, NumberLemmas, FiniteSetTheorems, TLAPS

IrqTypes ==
    /\ pending \in [Vectors -> BOOLEAN]
    /\ irqPc \in [Vectors -> {"check", "sleep", "work", "ack", "enable"}]
    /\ ie \in [Vectors -> BOOLEAN]

IrqInv == IrqTypes /\ MaskedIsKnown

\* Each stretch of the worker, the top half and the device.
LEMMA IrqStep ==
    ASSUME IrqInv, NEW v \in Vectors,
           \/ DeviceEvent(v) \/ TopHalf(v) \/ CheckPending(v) \/ SleepOnQueue(v)
           \/ DrainRing(v) \/ AckInterrupt(v) \/ EnableInterrupt(v)
    PROVE  IrqInv'
<1> USE DEF IrqInv, IrqTypes, MaskedIsKnown
<1>1. CASE DeviceEvent(v)
  BY <1>1 DEF DeviceEvent
<1>2. CASE TopHalf(v)
  BY <1>2 DEF TopHalf, WakeUpThreadedIrq
<1>3. CASE CheckPending(v)
  BY <1>3 DEF CheckPending, At
<1>4. CASE SleepOnQueue(v)
  BY <1>4 DEF SleepOnQueue, At
<1>5. CASE DrainRing(v)
  BY <1>5 DEF DrainRing, At
<1>6. CASE AckInterrupt(v)
  BY <1>6 DEF AckInterrupt
<1>7. CASE EnableInterrupt(v)
  BY <1>7 DEF EnableInterrupt
<1> QED
  BY <1>1, <1>2, <1>3, <1>4, <1>5, <1>6, <1>7

\* For any set of interrupt vectors: however top half and worker of
\* threaded_irq.cpp interleave, a masked controller is one that the worker knows of.
THEOREM InterruptsAreKnown == ThreadedIrqSpec => []MaskedIsKnown
<1>1. ThreadedIrqInit => IrqInv
  BY DEF ThreadedIrqInit, IrqsIdle, IrqInv, IrqTypes, MaskedIsKnown
<1>2. IrqInv /\ [ThreadedIrqNext]_<<dispatchVars, wl, irqVars>> => IrqInv'
  <2> SUFFICES ASSUME IrqInv, [ThreadedIrqNext]_<<dispatchVars, wl, irqVars>> PROVE IrqInv'
    OBVIOUS
  <2>1. CASE UNCHANGED irqVars
    BY <2>1 DEF irqVars, IrqInv, IrqTypes, MaskedIsKnown
  <2>2. CASE ThreadedIrqNext
    BY <2>1, <2>2, IrqStep DEF ThreadedIrqNext
  <2> QED
    BY <2>1, <2>2 DEF irqVars
<1>3. IrqInv => MaskedIsKnown
  BY DEF IrqInv
<1> QED
  BY <1>1, <1>2, <1>3, PTL DEF ThreadedIrqSpec

-----------------------------------------------------------------------------
(***************************************************************************)
(* Pipes.  Positions in the ring are counted from ReadPos, so the          *)
(* remainders become sums that wrap at most once; the concatenation of     *)
(* BytesInOrder becomes one statement about what was taken and one about   *)
(* what is in the ring.                                                    *)
(***************************************************************************)
Wrap(x) == IF x < Size THEN x ELSE x - Size

LEMMA WrapIsRemainder ==
    ASSUME NEW x \in 0..(2 * Size - 1)
    PROVE  x % Size = Wrap(x) /\ Wrap(x) \in 0..(Size - 1)
<1>1. Size \in Nat \ {0}
    BY PipeAssumption
<1> QED BY <1>1, OnceRound DEF Wrap

PipeTypes ==
    /\ data \in [0..(Size - 1) -> Nat]
    /\ readPos \in 0..(Size - 1) /\ available \in 0..Size
    /\ call \in [Ends -> [size : Nat, done : Nat, nonblock : BOOLEAN, slept : BOOLEAN]]
    /\ \A t \in Ends : call[t].done <= call[t].size
    /\ written \in Nat /\ got \in Seq(Nat)
    /\ pc \in [Ends -> {"user", "locked", "slept", "unlocked", "closing"}]
    /\ open \subseteq Ends /\ alive \in BOOLEAN

\* The byte that follows the j-th of the ring.
RingNumbered ==
    /\ writePos = Wrap(readPos + available)
    /\ Len(got) + available = written
    /\ \A i \in 1..Len(got) : got[i] = i
    /\ \A j \in 0..(available - 1) : data[Wrap(readPos + j)] = Len(got) + j + 1

CallersAreOpen ==
    /\ \A t \in Ends : pc[t] # "user" => t \in open
    /\ alive <=> open # {}

PipeInv == PipeTypes /\ RingNumbered /\ CallersAreOpen

LEMMA PipeInvIsEnough == PipeInv => PipeIsSound
<1> SUFFICES ASSUME PipeInv PROVE PipeIsSound
    OBVIOUS
<1>0. /\ Size \in Nat \ {0} /\ readPos \in 0..(Size - 1) /\ available \in 0..Size
      /\ written \in Nat /\ Len(got) \in Nat
    BY PipeAssumption DEF PipeInv, PipeTypes
<1>a. got \in Seq(Nat)
    BY DEF PipeInv, PipeTypes
<1>1. writePos = (readPos + available) % Size
    <2>1. readPos + available \in 0..(2 * Size - 1)
        BY <1>0
    <2> QED BY <2>1, WrapIsRemainder DEF PipeInv, RingNumbered
<1>2. \A i \in 1..available : InTransit[i] = Len(got) + i
    <2> SUFFICES ASSUME NEW i \in 1..available PROVE InTransit[i] = Len(got) + i
        OBVIOUS
    <2>1. readPos + i - 1 \in 0..(2 * Size - 1) /\ i - 1 \in 0..(available - 1)
          /\ readPos + (i - 1) = readPos + i - 1 /\ Len(got) + (i - 1) + 1 = Len(got) + i
        BY <1>0
    <2>2. (readPos + i - 1) % Size = Wrap(readPos + (i - 1))
        BY <2>1, WrapIsRemainder
    <2>3. data[Wrap(readPos + (i - 1))] = Len(got) + i
        BY <2>1 DEF PipeInv, RingNumbered
    <2> QED BY <2>2, <2>3 DEF InTransit
<1>3. InTransit \in Seq(Nat) /\ Len(InTransit) = available
    <2>1. ASSUME NEW i \in 1..available PROVE data[(readPos + i - 1) % Size] \in Nat
        <3>1. InTransit[i] = data[(readPos + i - 1) % Size]
            BY DEF InTransit
        <3>2. Len(got) + i \in Nat
            BY <1>0
        <3> QED BY <3>1, <3>2, <1>2
    <2>2. available \in Nat
        BY <1>0
    <2> QED BY <2>1, <2>2 DEF InTransit
<1>4. got \o InTransit = [i \in 1..written |-> i]
    <2>1. got \o InTransit \in Seq(Nat) /\ Len(got \o InTransit) = written
        BY <1>0, <1>a, <1>3, SMTT(30) DEF PipeInv, RingNumbered
    <2>2. ASSUME NEW i \in 1..written PROVE (got \o InTransit)[i] = i
        <3>1. CASE i <= Len(got)
            <4>1. i \in 1..Len(got)
                BY <3>1, <1>0
            <4>2. (got \o InTransit)[i] = got[i]
                BY <4>1, <1>a, <1>3
            <4> QED BY <4>1, <4>2 DEF PipeInv, RingNumbered
        <3>2. CASE i > Len(got)
            <4>0. Len(got) + available = written
                BY DEF PipeInv, RingNumbered
            <4>1. i - Len(got) \in 1..available
                BY <3>2, <4>0, <1>0
            <4>2. (got \o InTransit)[i] = InTransit[i - Len(got)]
                BY <3>2, <4>0, <1>0, <1>a, <1>3
            <4>3. InTransit[i - Len(got)] = Len(got) + (i - Len(got))
                BY <4>1, <1>2
            <4> QED BY <4>2, <4>3, <1>0
        <3>3. i <= Len(got) \/ i > Len(got)
            BY <1>0
        <3> QED BY <3>1, <3>2, <3>3, Zenon
    <2> DEFINE whole == got \o InTransit
    <2>3. whole \in Seq(Nat) /\ Len(whole) = written /\ \A i \in 1..written : whole[i] = i
        BY <2>1, <2>2
    <2> HIDE DEF whole
    <2>4. whole = [i \in 1..Len(whole) |-> whole[i]]
        BY <2>3
    <2>5. whole = [i \in 1..written |-> i]
        BY <2>3, <2>4
    <2> QED BY <2>5 DEF whole
<1>5. BufferOutlivesCalls
    BY DEF PipeInv, CallersAreOpen, BufferOutlivesCalls
<1> QED BY <1>1, <1>4, <1>5 DEF PipeIsSound, BytesInOrder

\* One turn of the loop of Read takes the oldest bytes of the ring.
LEMMA ReadKeepsBytes ==
    ASSUME PipeTypes, RingNumbered, NEW t \in Ends, ~Complete(t), available # 0, ReadChunk(t)
    PROVE  /\ RingNumbered' /\ readPos' \in 0..(Size - 1) /\ available' \in 0..Size
           /\ got' \in Seq(Nat) /\ data' = data /\ written' = written
           /\ \E k \in Nat : /\ k <= call[t].size - call[t].done
                             /\ call' = [call EXCEPT ![t].done = @ + k]
<1>0. /\ Size \in Nat \ {0} /\ readPos \in 0..(Size - 1) /\ available \in 0..Size
      /\ written \in Nat /\ Len(got) \in Nat
    BY PipeAssumption DEF PipeTypes
<1>a. got \in Seq(Nat) /\ data \in [0..(Size - 1) -> Nat]
    BY DEF PipeTypes
<1>b. call[t].size \in Nat /\ call[t].done \in Nat /\ call[t].done <= call[t].size
    BY DEF PipeTypes
<1>c. writePos = Wrap(readPos + available) /\ Len(got) + available = written
    BY DEF RingNumbered
<1>1. PICK k \in Nat : k = Least(Least(call[t].size - call[t].done, available), Size - readPos)
    BY <1>0, <1>b DEF Least
<1>2. k <= call[t].size - call[t].done /\ k <= available /\ k <= Size - readPos
    BY <1>0, <1>b, <1>1 DEF Least
<1>3. /\ got' = got \o [i \in 1..k |-> data[readPos + i - 1]]
      /\ readPos' = (readPos + k) % Size
      /\ available' = available - k
      /\ call' = [call EXCEPT ![t].done = @ + k]
      /\ data' = data /\ writePos' = writePos /\ written' = written
    BY <1>1 DEF ReadChunk
<1>4. readPos' = Wrap(readPos + k) /\ readPos' \in 0..(Size - 1) /\ available' \in 0..Size
    <2>1. readPos + k \in 0..(2 * Size - 1)
        BY <1>0, <1>2
    <2> QED BY <2>1, <1>0, <1>2, <1>3, WrapIsRemainder, SMTT(30)
<1>5. \A i \in 1..k : data[readPos + i - 1] = Len(got) + i
    <2> SUFFICES ASSUME NEW i \in 1..k PROVE data[readPos + i - 1] = Len(got) + i
        OBVIOUS
    <2>1. i - 1 \in 0..(available - 1) /\ Wrap(readPos + (i - 1)) = readPos + i - 1
          /\ Len(got) + (i - 1) + 1 = Len(got) + i
        BY <1>0, <1>2 DEF Wrap
    <2>2. data[Wrap(readPos + (i - 1))] = Len(got) + (i - 1) + 1
        BY <2>1 DEF RingNumbered
    <2> QED BY <2>1, <2>2
<1>6. /\ got' \in Seq(Nat) /\ Len(got') = Len(got) + k
      /\ \A i \in 1..(Len(got) + k) : got'[i] = i
    <2> DEFINE taken == [i \in 1..k |-> data[readPos + i - 1]]
    <2>1. taken \in Seq(Nat) /\ Len(taken) = k
        <3>1. \A i \in 1..k : data[readPos + i - 1] \in Nat
            <4>1. \A i \in 1..k : Len(got) + i \in Nat
                BY <1>0
            <4> QED BY <4>1, <1>5
        <3> QED BY <3>1
    <2>2. \A i \in 1..k : taken[i] = Len(got) + i
        BY <1>5
    <2>3. got' = got \o taken
        BY <1>3
    <2> HIDE DEF taken
    <2>4. got' \in Seq(Nat) /\ Len(got') = Len(got) + k
        <3>1. got \o taken \in Seq(Nat) /\ Len(got \o taken) = Len(got) + Len(taken)
            <4>1. got \in Seq(Nat) /\ taken \in Seq(Nat)
                BY <2>1, <1>a
            <4> QED BY <4>1
        <3> QED BY <3>1, <2>1, <2>3
    <2>5. ASSUME NEW i \in 1..(Len(got) + k) PROVE got'[i] = i
        <3>1. CASE i <= Len(got)
            <4>1. i \in 1..Len(got)
                BY <3>1, <1>0
            <4>2. got'[i] = got[i]
                BY <4>1, <2>1, <2>3, <1>a
            <4> QED BY <4>1, <4>2 DEF RingNumbered
        <3>2. CASE i > Len(got)
            <4>1. i - Len(got) \in 1..k
                BY <3>2, <1>0
            <4>2. got'[i] = taken[i - Len(got)]
                BY <3>2, <2>1, <2>3, <1>0, <1>a
            <4>3. taken[i - Len(got)] = Len(got) + (i - Len(got))
                BY <4>1, <2>2
            <4> QED BY <4>2, <4>3, <1>0
        <3> QED BY <3>1, <3>2, <1>0
    <2> QED BY <2>4, <2>5
<1>7. RingNumbered'
    <2>1. writePos' = Wrap(readPos' + available')
        <3>1. writePos = Wrap(readPos + available) /\ writePos' = writePos
              /\ available' = available - k
            BY <1>c, <1>3
        <3> QED BY <3>1, <1>0, <1>2, <1>4, SMTT(30) DEF Wrap
    <2>2. Len(got') + available' = written'
        <3>1. Len(got') = Len(got) + k /\ available' = available - k /\ written' = written
            BY <1>3, <1>6
        <3> QED BY <3>1, <1>0, <1>c
    <2>3. ASSUME NEW j \in 0..(available' - 1)
          PROVE  data'[Wrap(readPos' + j)] = Len(got') + j + 1
        <3>1. k + j \in 0..(available - 1) /\ Wrap(readPos' + j) = Wrap(readPos + (k + j))
              /\ Len(got) + (k + j) + 1 = Len(got) + k + j + 1
            <4>1. available' = available - k
                BY <1>3
            <4> QED BY <4>1, <1>0, <1>2, <1>4 DEF Wrap
        <3>2. data[Wrap(readPos + (k + j))] = Len(got) + (k + j) + 1
            BY <3>1 DEF RingNumbered
        <3> QED BY <3>1, <3>2, <1>3, <1>6
    <2>4. \A i \in 1..Len(got') : got'[i] = i
        BY <1>6
    <2>5. Wrap(readPos + available)' = Wrap(readPos' + available')
        BY DEF Wrap
    <2>6. \A j \in 0..(available' - 1) : Wrap(readPos + j)' = Wrap(readPos' + j)
        BY DEF Wrap
    <2> QED BY <2>1, <2>2, <2>3, <2>4, <2>5, <2>6 DEF RingNumbered
<1> QED BY <1>2, <1>3, <1>4, <1>6, <1>7

\* One turn of the loop of Write fills free places behind the newest byte.
LEMMA WriteKeepsBytes ==
    ASSUME PipeTypes, RingNumbered, NEW t \in Ends, ~Complete(t), available # Size, WriteChunk(t)
    PROVE  /\ RingNumbered' /\ available' \in 0..Size /\ readPos' = readPos
           /\ data' \in [0..(Size - 1) -> Nat] /\ written' \in Nat /\ got' = got
           /\ \E k \in Nat : /\ k <= call[t].size - call[t].done
                             /\ call' = [call EXCEPT ![t].done = @ + k]
<1>0. /\ Size \in Nat \ {0} /\ readPos \in 0..(Size - 1) /\ available \in 0..Size
      /\ written \in Nat /\ Len(got) \in Nat
    BY PipeAssumption DEF PipeTypes
<1>a. got \in Seq(Nat) /\ data \in [0..(Size - 1) -> Nat]
    BY DEF PipeTypes
<1>b. call[t].size \in Nat /\ call[t].done \in Nat /\ call[t].done <= call[t].size
    BY DEF PipeTypes
<1>c. writePos = Wrap(readPos + available) /\ Len(got) + available = written
    BY DEF RingNumbered
<1>1. writePos = Wrap(readPos + available) /\ writePos \in 0..(Size - 1)
    BY <1>0, <1>c DEF Wrap
<1>2. PICK k \in Nat : k = Least(Least(call[t].size - call[t].done, Size - available), Size - writePos)
    BY <1>0, <1>b, <1>1 DEF Least
<1>3. k <= call[t].size - call[t].done /\ k <= Size - available /\ k <= Size - writePos
    BY <1>0, <1>b, <1>1, <1>2, SMTT(30) DEF Least
<1>4. /\ data' = [i \in 0..(Size - 1) |->
                    IF i \in writePos..(writePos + k - 1) THEN written + 1 + i - writePos
                    ELSE data[i]]
      /\ writePos' = (writePos + k) % Size
      /\ available' = available + k /\ written' = written + k
      /\ call' = [call EXCEPT ![t].done = @ + k]
      /\ readPos' = readPos /\ got' = got
    BY <1>2 DEF WriteChunk
<1>d. /\ writePos' = (writePos + k) % Size
      /\ available' = available + k /\ written' = written + k
      /\ readPos' = readPos /\ got' = got
    BY <1>4
<1>5. available' \in 0..Size /\ written' \in Nat
    BY <1>0, <1>3, <1>d
<1>6. data' \in [0..(Size - 1) -> Nat]
    <2>1. ASSUME NEW i \in 0..(Size - 1)
          PROVE  (IF i \in writePos..(writePos + k - 1) THEN written + 1 + i - writePos
                  ELSE data[i]) \in Nat
        BY <1>0, <1>a, <1>1, SMTT(30)
    <2> QED BY <2>1, <1>4
<1>7. RingNumbered'
    <2>1. writePos' = Wrap(readPos' + available')
        <3>1. writePos + k \in 0..(2 * Size - 1)
            BY <1>0, <1>1, <1>3, SMTT(30)
        <3>2. writePos' = Wrap(writePos + k)
            BY <3>1, <1>d, WrapIsRemainder
        <3> QED BY <3>2, <1>0, <1>1, <1>3, <1>d DEF Wrap
    <2>2. Len(got') + available' = written'
        BY <1>0, <1>c, <1>d
    <2>3. ASSUME NEW j \in 0..(available' - 1)
          PROVE  data'[Wrap(readPos' + j)] = Len(got') + j + 1
        <3>0. Wrap(readPos + j) \in 0..(Size - 1)
            BY <1>0, <1>3, <1>d DEF Wrap
        <3>1. CASE j < available
            <4>1. j \in 0..(available - 1) /\ Wrap(readPos + j) \notin writePos..(writePos + k - 1)
                BY <3>1, <1>0, <1>1, <1>3 DEF Wrap
            <4>2. data[Wrap(readPos + j)] = Len(got) + j + 1
                BY <4>1 DEF RingNumbered
            <4>3. data'[Wrap(readPos + j)] = data[Wrap(readPos + j)]
                BY <3>0, <4>1, <1>4
            <4> QED BY <4>2, <4>3, <1>d
        <3>2. CASE ~(j < available)
            <4>0. PICK m \in Nat : j = available + m /\ m < k
                BY <3>2, <1>0, <1>d
            <4>1. Wrap(readPos + j) = writePos + (j - available)
                BY <4>0, <1>0, <1>1, <1>3 DEF Wrap
            <4>2. Wrap(readPos + j) \in writePos..(writePos + k - 1)
                BY <4>0, <4>1, <1>0, <1>1
            <4>3. data'[Wrap(readPos + j)] = written + 1 + Wrap(readPos + j) - writePos
                BY <3>0, <4>2, <1>4
            <4>4. written + 1 + Wrap(readPos + j) - writePos = Len(got) + j + 1
                <5>1. written + 1 + (writePos + (j - available)) - writePos = Len(got) + j + 1
                    BY <4>0, <1>0, <1>1, <1>c, SMTT(30)
                <5> QED BY <5>1, <4>1
            <4> QED BY <4>3, <4>4, <1>d
        <3> QED BY <3>1, <3>2
    <2>4. \A i \in 1..Len(got') : got'[i] = i
        BY <1>4 DEF RingNumbered
    <2>5. Wrap(readPos + available)' = Wrap(readPos' + available')
        BY DEF Wrap
    <2>6. \A j \in 0..(available' - 1) : Wrap(readPos + j)' = Wrap(readPos' + j)
        BY DEF Wrap
    <2> QED BY <2>1, <2>2, <2>3, <2>4, <2>5, <2>6 DEF RingNumbered
<1> QED BY <1>3, <1>4, <1>5, <1>6, <1>7

\* A step that leaves the ring alone keeps its bytes.
LEMMA RingAlone ==
    ASSUME RingNumbered, UNCHANGED <<data, readPos, writePos, available, written, got>>
    PROVE  RingNumbered'
BY DEF RingNumbered, Wrap

\* The pipe delivers its bytes in order and is not deleted while an end is open
\* (PipeFileSystem::Read, Write, Close), for any number of readers and writers, a
\* ring of any size and calls of any size.
THEOREM PipesDeliver == PipeSpec => []PipeIsSound
<1>1. PipeInit => PipeInv
    <2> SUFFICES ASSUME PipeInit PROVE PipeInv
        OBVIOUS
    <2>0. Size \in Nat \ {0}
        BY PipeAssumption
    <2>1. PipeTypes
        BY <2>0 DEF PipeInit, PipeFresh, PipeTypes, NoCall
    <2>2. RingNumbered
        BY <2>0 DEF PipeInit, PipeFresh, RingNumbered, Wrap
    <2>3. CallersAreOpen
        BY DEF PipeInit, PipeFresh, CallersAreOpen, Created
    <2> QED BY <2>1, <2>2, <2>3 DEF PipeInv
<1>2. PipeInv /\ [PipeNext]_<<dispatchVars, wl, bufVars, callVars>> => PipeInv'
    <2> SUFFICES ASSUME PipeInv, [PipeNext]_<<dispatchVars, wl, bufVars, callVars>>
                 PROVE  PipeInv'
        OBVIOUS
    <2>0. PipeTypes /\ RingNumbered /\ CallersAreOpen
        BY DEF PipeInv
    <2>1. ASSUME NEW t \in Ends, NEW n \in Requests, NEW nb \in BOOLEAN, StartCall(t, n, nb)
          PROVE  PipeInv'
        <3>1. n \in Nat
            BY PipeAssumption
        <3>2. PipeTypes'
            <4>0. PICK c : c = [NoCall EXCEPT !.size = n, !.nonblock = nb]
                OBVIOUS
            <4>1. /\ c \in [size : Nat, done : Nat, nonblock : BOOLEAN, slept : BOOLEAN]
                  /\ c.done <= c.size /\ call' = [call EXCEPT ![t] = c]
                <5>1. NoCall \in [size : Nat, done : Nat, nonblock : BOOLEAN, slept : BOOLEAN]
                      /\ NoCall.done = 0
                    BY DEF NoCall
                <5>2. c \in [size : Nat, done : Nat, nonblock : BOOLEAN, slept : BOOLEAN]
                      /\ c.done = 0
                    BY <5>1, <4>0, <3>1
                <5>3. c.done <= c.size
                    BY <5>2
                <5>4. call' = [call EXCEPT ![t] = c]
                    BY <4>0, <2>1, Zenon DEF StartCall
                <5> QED BY <5>2, <5>3, <5>4
            <4>2. /\ call' \in [Ends -> [size : Nat, done : Nat, nonblock : BOOLEAN, slept : BOOLEAN]]
                  /\ \A o \in Ends : call'[o].done <= call'[o].size
                BY <2>0, <3>1, <4>1 DEF PipeTypes
            <4>3. /\ UNCHANGED <<data, readPos, available, written, got, open, alive>>
                  /\ pc' = [pc EXCEPT ![t] = "locked"]
                BY <2>1 DEF StartCall, bufVars
            <4> QED BY <2>0, <4>2, <4>3 DEF PipeTypes
        <3>3. RingNumbered'
            BY <2>0, <2>1, RingAlone DEF StartCall, bufVars
        <3>4. CallersAreOpen'
            BY <2>0, <2>1 DEF StartCall, CallersAreOpen, bufVars, PipeTypes
        <3> QED BY <3>2, <3>3, <3>4 DEF PipeInv
    <2>2. ASSUME NEW t \in Ends, Transfer(t) PROVE PipeInv'
        <3>1. CallersAreOpen'
            BY <2>0, <2>2 DEF Transfer, CallersAreOpen
        <3>2. PICK k \in Nat : /\ k <= call[t].size - call[t].done
                               /\ call' = [call EXCEPT ![t].done = @ + k]
            BY <2>0, <2>2, PipeAssumption, ReadKeepsBytes, WriteKeepsBytes DEF Transfer, Stuck
        <3>3. /\ call' \in [Ends -> [size : Nat, done : Nat, nonblock : BOOLEAN, slept : BOOLEAN]]
              /\ \A o \in Ends : call'[o].done <= call'[o].size
            <4>1. call \in [Ends -> [size : Nat, done : Nat, nonblock : BOOLEAN, slept : BOOLEAN]]
                  /\ \A o \in Ends : call[o].done <= call[o].size
                BY <2>0 DEF PipeTypes
            <4>2. call[t].done + k \in Nat /\ call[t].done + k <= call[t].size
                BY <3>2, <4>1
            <4>3. call' = [call EXCEPT ![t] = [call[t] EXCEPT !.done = call[t].done + k]]
                BY <3>2, <4>1
            <4> QED BY <4>1, <4>2, <4>3
        <3>4. /\ RingNumbered' /\ data' \in [0..(Size - 1) -> Nat]
              /\ readPos' \in 0..(Size - 1) /\ available' \in 0..Size
              /\ written' \in Nat /\ got' \in Seq(Nat)
            <4>1. CASE t \in Readers /\ ReadChunk(t)
                BY <4>1, <2>0, <2>2, ReadKeepsBytes DEF Transfer, Stuck, PipeTypes
            <4>2. CASE t \in Writers /\ WriteChunk(t)
                BY <4>2, <2>0, <2>2, WriteKeepsBytes, PipeAssumption DEF Transfer, Stuck, PipeTypes
            <4> QED BY <4>1, <4>2, <2>2 DEF Transfer
        <3>5. PipeTypes'
            BY <2>0, <2>2, <3>3, <3>4 DEF Transfer, PipeTypes
        <3> QED BY <3>1, <3>4, <3>5 DEF PipeInv
    <2>3. ASSUME NEW t \in Ends, Return(t) PROVE PipeInv'
        <3>1. PipeTypes'
            BY <2>0, <2>3 DEF Return, PipeTypes, bufVars, NoCall
        <3>2. RingNumbered'
            BY <2>0, <2>3, RingAlone DEF Return, bufVars
        <3>3. CallersAreOpen'
            BY <2>0, <2>3 DEF Return, CallersAreOpen, bufVars, PipeTypes
        <3> QED BY <3>1, <3>2, <3>3 DEF PipeInv
    <2>4. ASSUME NEW t \in Ends, FirstWait(t) PROVE PipeInv'
        <3>1. PipeTypes'
            BY <2>0, <2>4 DEF FirstWait, PipeTypes, bufVars
        <3>2. RingNumbered'
            BY <2>0, <2>4, RingAlone DEF FirstWait, bufVars
        <3>3. CallersAreOpen'
            BY <2>0, <2>4 DEF FirstWait, MustWait, HasLock, CallersAreOpen, bufVars, PipeTypes
        <3> QED BY <3>1, <3>2, <3>3 DEF PipeInv
    <2>5. ASSUME NEW t \in Ends, Unlock(t) \/ NextWait(t) \/ Relock(t) PROVE PipeInv'
        <3>1. /\ UNCHANGED <<bufVars, call, written, got>>
              /\ \E w \in {"unlocked", "slept", "locked"} : pc' = [pc EXCEPT ![t] = w]
              /\ pc[t] # "user"
            BY <2>5 DEF Unlock, NextWait, Relock, MustWait, HasLock, Runs
        <3>2. PipeTypes'
            BY <2>0, <3>1 DEF PipeTypes, bufVars
        <3>3. RingNumbered'
            BY <2>0, <3>1, RingAlone DEF bufVars
        <3>4. CallersAreOpen'
            BY <2>0, <3>1 DEF CallersAreOpen, bufVars, PipeTypes
        <3> QED BY <3>2, <3>3, <3>4 DEF PipeInv
    <2>6. ASSUME NEW t \in Ends, StartClose(t) PROVE PipeInv'
        <3>1. PipeTypes'
            BY <2>0, <2>6 DEF StartClose, PipeTypes
        <3>2. RingNumbered'
            BY <2>0, <2>6, RingAlone DEF StartClose
        <3>3. CallersAreOpen'
            BY <2>0, <2>6 DEF StartClose, CallersAreOpen, PipeTypes
        <3> QED BY <3>1, <3>2, <3>3 DEF PipeInv
    <2>7. ASSUME NEW t \in Ends, FinishClose(t) PROVE PipeInv'
        <3>0. t \in open /\ alive' = (alive /\ open # {t}) /\ open' = open \ {t}
              /\ pc' = [pc EXCEPT ![t] = "user"]
            BY <2>0, <2>7 DEF FinishClose, CallersAreOpen, LastClose
        <3>1. PipeTypes'
            BY <2>0, <2>7, <3>0 DEF FinishClose, PipeTypes
        <3>2. RingNumbered'
            BY <2>0, <2>7, RingAlone DEF FinishClose
        <3>3. alive' <=> open' # {}
            BY <2>0, <3>0 DEF CallersAreOpen
        <3>4. \A o \in Ends : pc'[o] # "user" => o \in open'
            BY <2>0, <3>0 DEF CallersAreOpen, PipeTypes
        <3> QED BY <3>1, <3>2, <3>3, <3>4 DEF PipeInv, CallersAreOpen
    <2>8. CASE UNCHANGED <<bufVars, callVars>>
        <3>1. PipeTypes' /\ CallersAreOpen'
            BY <2>0, <2>8 DEF PipeTypes, CallersAreOpen, bufVars, callVars
        <3>2. RingNumbered'
            BY <2>0, <2>8, RingAlone DEF bufVars, callVars
        <3> QED BY <3>1, <3>2 DEF PipeInv
    <2> QED BY <2>1, <2>2, <2>3, <2>4, <2>5, <2>6, <2>7, <2>8 DEF PipeNext
<1> QED BY <1>1, <1>2, PipeInvIsEnough, PTL DEF PipeSpec
=============================================================================
