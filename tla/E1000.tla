-------------------------------- MODULE E1000 -------------------------------
(***************************************************************************)
(* The network card's two rings (driver/e1000/e1000.cpp).                  *)
(*                                                                         *)
(* SendRawPacket is called by tasks and by the interrupt handler, which    *)
(* answers frames, without a lock; it is cut between choosing a descriptor *)
(* and filling it, since both use the member TXTail.  Initialize polls for *)
(* the first frame and calls HandleInterrupt while interrupts are on; that *)
(* call is cut after OnReceive.                                            *)
(*                                                                         *)
(* Left out: the EEPROM, the address filter and the contents of frames.    *)
(***************************************************************************)
EXTENDS Naturals, FiniteSets

CONSTANTS TxDescs, RxDescs,   \* E1000_NUM_TX_DESC, E1000_NUM_RX_DESC
          Buffers,            \* what AllocateDMABytes can hand out
          Senders,            \* callers of SendRawPacket
          NoBuffer,
          MaxFrames           \* bound on the frames received

ASSUME E1000Assumption ==
    /\ TxDescs \in Nat \ {0, 1} /\ RxDescs \in Nat \ {0, 1} /\ MaxFrames \in Nat
    /\ NoBuffer \notin Buffers

VARIABLES tdh, tdt, txTail,   \* REG_TDH, REG_TDT, TXTail
          txDescs,            \* buffer and done bit of each descriptor
          txTrackers,         \* TXTrackers
          sending,            \* the buffer of each caller between the cuts
          freed,              \* DMA buffers that are free
          raced,              \* history: two calls of SendRawPacket overlapped
          lapped,             \* history: every descriptor was handed to the card
          rdh, rdt, rxTail,   \* REG_RDH, REG_RDT, RXTail
          rxDescs,            \* frame of each descriptor whose done bit is set, or 0
          polled,             \* Initialize: "yet", "inside" OnReceive, "over"
          arrived, received,  \* history: last frame from the wire, last one passed on
          nestedRx            \* history: an interrupt came inside the polled call

txVars == <<tdh, tdt, txTail, txDescs, txTrackers, sending, freed, raced, lapped>>
rxVars == <<rdh, rdt, rxTail, rxDescs, polled, arrived, received, nestedRx>>
e1000Vars == <<txVars, rxVars>>

TxNext(i) == (i + 1) % TxDescs
RxNext(i) == (i + 1) % RxDescs

InitTX ==
    /\ tdh = 0 /\ tdt = 0 /\ txTail = 0
    /\ txDescs = [i \in 0..(TxDescs - 1) |-> [buf |-> NoBuffer, done |-> FALSE]]
    /\ txTrackers = [i \in 0..(TxDescs - 1) |-> NoBuffer]
    /\ sending = [s \in Senders |-> NoBuffer] /\ freed = Buffers
    /\ raced = FALSE /\ lapped = FALSE

\* The tail starts one behind the first descriptor.
InitRX ==
    /\ rdh = 0 /\ rdt = RxDescs - 1 /\ rxTail = 0
    /\ rxDescs = [i \in 0..(RxDescs - 1) |-> 0]
    /\ polled = "yet" /\ arrived = 0 /\ received = 0 /\ nestedRx = FALSE

-----------------------------------------------------------------------------
\* Mutant: the done bit is not waited for.
ReclaimableAlways(i) == TRUE
Reclaimable(i) == txTrackers[i] = NoBuffer \/ txDescs[i].done

\* SendRawPacket to the allocation.  When the ring is full or no buffer is left
\* the frame is dropped; in the second case the old buffer has been freed.
ChooseDescriptor(s) ==
    /\ sending[s] = NoBuffer
    /\ txTail' = tdt
    /\ Reclaimable(tdt)
    /\ LET free == freed \cup ({txTrackers[tdt]} \ {NoBuffer})
       IN \/ \E b \in free :
                /\ freed' = free \ {b}
                /\ txTrackers' = [txTrackers EXCEPT ![tdt] = b]
                /\ sending' = [sending EXCEPT ![s] = b]
          \/ /\ freed' = free
             /\ txTrackers' = [txTrackers EXCEPT ![tdt] = NoBuffer]
             /\ UNCHANGED sending
    /\ raced' = (raced \/ \E o \in Senders : sending[o] # NoBuffer)
    /\ UNCHANGED <<tdh, tdt, txDescs, lapped, rxVars>>

\* From the descriptor to the doorbell.
PostFrame(s) ==
    /\ sending[s] # NoBuffer
    /\ txDescs' = [txDescs EXCEPT ![txTail] = [buf |-> sending[s], done |-> FALSE]]
    /\ txTail' = TxNext(txTail)
    /\ tdt' = txTail'
    /\ sending' = [sending EXCEPT ![s] = NoBuffer]
    /\ lapped' = (lapped \/ tdt' = tdh)
    /\ UNCHANGED <<tdh, txTrackers, freed, raced, rxVars>>

\* The card sends the frame at its head.
Transmits ==
    /\ tdh # tdt
    /\ txDescs' = [txDescs EXCEPT ![tdh].done = TRUE]
    /\ tdh' = TxNext(tdh)
    /\ UNCHANGED <<tdt, txTail, txTrackers, sending, freed, raced, lapped, rxVars>>

-----------------------------------------------------------------------------
\* The card stores a frame; without a descriptor it is dropped.
Arrives ==
    /\ rdh # rdt /\ arrived < MaxFrames
    /\ arrived' = arrived + 1
    /\ rxDescs' = [rxDescs EXCEPT ![rdh] = arrived']
    /\ rdh' = RxNext(rdh)
    /\ UNCHANGED <<rdt, rxTail, polled, received, nestedRx, txVars>>

\* What follows OnReceive in the loop of HandleInterrupt.
GiveBack ==
    /\ rxDescs' = [rxDescs EXCEPT ![rxTail] = 0]
    /\ rdt' = RxNext(rdt)
    /\ rxTail' = RxNext(rxTail)

\* One turn of the loop.  Whatever OnReceive sends goes through SendRawPacket.
CardInterrupt ==
    /\ rxDescs[rxTail] # 0
    /\ received' = rxDescs[rxTail]
    /\ GiveBack
    /\ nestedRx' = (nestedRx \/ polled = "inside")
    /\ UNCHANGED <<rdh, polled, arrived, txVars>>

\* The polled call of Initialize, on both sides of its OnReceive; it loops until
\* no frame is left.
PollReceives ==
    /\ polled = "yet" /\ rxDescs[rxTail] # 0
    /\ received' = rxDescs[rxTail]
    /\ polled' = "inside"
    /\ UNCHANGED <<rdh, rdt, rxTail, rxDescs, arrived, nestedRx, txVars>>

PollReturns ==
    /\ polled = "inside"
    /\ GiveBack
    /\ polled' \in {"yet", "over"}
    /\ UNCHANGED <<rdh, arrived, received, nestedRx, txVars>>

E1000Init == InitTX /\ InitRX

E1000Next ==
    \/ \E s \in Senders : ChooseDescriptor(s) \/ PostFrame(s)
    \/ Transmits \/ Arrives \/ CardInterrupt \/ PollReceives \/ PollReturns

E1000Spec == E1000Init /\ [][E1000Next]_e1000Vars

-----------------------------------------------------------------------------
Unsent == {i \in 0..(TxDescs - 1) : txDescs[i].buf # NoBuffer /\ ~txDescs[i].done}

\* A frame that has not been sent keeps a buffer of its own, and a card with
\* nothing to send takes the next frame.  Two overlapping calls break the first:
\* the second frees the buffer of the first or takes its descriptor.  When every
\* descriptor has been handed over the card sees an empty ring, and no frame is
\* sent or accepted any more.
TxRingIsSound ==
    ~raced =>
        /\ \A i \in Unsent : txTrackers[i] = txDescs[i].buf /\ txDescs[i].buf \notin freed
        /\ \A i, j \in Unsent : i # j => txDescs[i].buf # txDescs[j].buf
        /\ tdh = tdt /\ ~lapped /\ (\A s \in Senders : sending[s] = NoBuffer)
              => txTrackers[tdt] = NoBuffer \/ txDescs[tdt].done

\* From RXTail on the ring holds exactly the frames that have arrived and were not
\* passed on, in order: none is lost, repeated or overwritten, unless an interrupt
\* came while Initialize was handling a frame itself.
RxInOrder ==
    ~nestedRx /\ polled # "inside" =>
        \A k \in 0..(RxDescs - 1) :
            rxDescs[(rxTail + k) % RxDescs] = IF k < arrived - received THEN received + k + 1 ELSE 0

\* Both rings of the card, under overlapping interrupts and the polling of Initialize.
CardRingsAreSound == TxRingIsSound /\ RxInOrder
=============================================================================
