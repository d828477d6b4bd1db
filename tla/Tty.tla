-------------------------------- MODULE Tty ---------------------------------
(***************************************************************************)
(* The terminal (filesys/devfs/std_util_tty_devices.cpp): the line buffer  *)
(* that the keyboard interrupt fills in OnInput and TTY::Read empties, the *)
(* signals of its control characters and its foreground group.             *)
(*                                                                         *)
(* A system call starts with interrupts off; the first SchedulerYield of   *)
(* Read or Write turns them on for the rest of the call, and from then on  *)
(* the keyboard and the timer get in between any two statements below.     *)
(* Flags other than ICANON keep the values of the constructor: IXON, ISIG, *)
(* ECHO and ICRNL are set.  Characters are told apart by what OnInput does *)
(* with them.  VSTART does nothing and is left out, and so are the ioctls  *)
(* that only read, TCSETSW, which sets nothing, and the buffer of the      *)
(* keyboard driver, which has no reader.                                   *)
(***************************************************************************)
EXTENDS Signals, Sequences

CONSTANTS LineSize,        \* LINE_BUFFER_SIZE
          ForegroundMin,   \* DEFAULT_CONFIG_PID_START
          Sizes,           \* sizes asked for in Read
          MaxKeys          \* bound on the keys typed

ASSUME TtyAssumption ==
    /\ {LineSize, ForegroundMin, MaxKeys} \subseteq Nat \ {0}
    /\ Sizes \subseteq Nat \ {0}

VARIABLES line,        \* m_LineBuffer up to m_LineWritePos
          readPos,     \* m_LineReadPos
          canonical,   \* ICANON
          stopped,     \* m_OutputStopped
          foreground,  \* g_ForegroundPID
          io,          \* per task the call it is in
          keys,        \* history: the number of keys typed
          owed,        \* history: keys accepted and not yet given to a reader
          misread,     \* history: a reader got another key than the oldest owed
          torn         \* history: a key or a reader got into the middle of an update

lineVars == <<line, readPos>>
ttyHistory == <<keys, owed, misread, torn>>
ttyVars == <<lineVars, canonical, stopped, foreground, io, ttyHistory>>

\* at: the statement the task is at; off: interrupts are still off; canon: the local
\* copy of ICANON; want, got: bytes asked for and copied; loaded: the position and
\* the character that have been loaded.
NoChar == [id |-> 0, kind |-> "none"]
Outside == [at |-> "user", off |-> FALSE, canon |-> FALSE, want |-> 0, got |-> 0,
            pos |-> 0, char |-> NoChar]

TtyInit ==
    /\ line = <<>> /\ readPos = 0
    /\ canonical = TRUE /\ stopped = FALSE
    /\ foreground = ForegroundMin
    /\ io = [t \in Tasks |-> Outside]
    /\ keys = 0 /\ owed = <<>> /\ misread = FALSE /\ torn = FALSE

Ends == {"nl", "eof"}
Unread == SubSeq(line, readPos + 1, Len(line))
Off == current \in Tasks /\ io[current].off
At(t, where) == Running(t) /\ io[t].at = where
Others(t, where) == \E x \in Tasks \ {t} : io[x].at = where

-----------------------------------------------------------------------------
\* The keyboard interrupt.
Interruptible == ~corrupt /\ ~Off /\ returning = NoTask /\ keys < MaxKeys

\* A character that ends a line, or any in raw mode, wakes the foreground task.
WakeForeground(kind) ==
    LET t == GetTaskPID(foreground) IN
    IF (~canonical \/ kind \in Ends) /\ t # NoTask /\ state[t] = "BLOCKED"
    THEN Wake(t) ELSE UNCHANGED dispatchVars

\* Echoing to a stopped terminal waits inside the interrupt, unless the task that
\* was interrupted has a signal; such a wait is not followed.
Echoes == stopped => (current \in Tasks /\ signals'[current] # {})

\* A full buffer drops the character, a newline too.
OnInput(kind) ==
    LET key == [id |-> keys + 1, kind |-> kind] IN
    /\ Interruptible
    /\ keys' = keys + 1
    /\ UNCHANGED <<procVars, sigVars, readPos, canonical, stopped, foreground, io, misread>>
    /\ IF Len(line) >= LineSize - 1 THEN UNCHANGED <<dispatchVars, line, owed, torn>>
       ELSE /\ line' = Append(line, key)
            /\ owed' = Append(owed, key.id)
            /\ torn' = (torn \/ \E t \in Tasks : io[t].at \in {"reset", "resetLast"})
            /\ WakeForeground(kind)
            /\ Echoes

\* VINTR and VQUIT: a group below the first pid of users only swallows them.
OnSignalKey(sig) ==
    /\ Interruptible
    /\ keys' = keys + 1
    /\ IF foreground >= ForegroundMin
       THEN /\ SetTaskSignal(foreground, sig)
            /\ Echoes
            /\ line' = <<>> /\ readPos' = 0 /\ owed' = <<>>
            /\ torn' = (torn \/ \E t \in Tasks : io[t].at = "store")
       ELSE UNCHANGED <<vars, sigVars, lineVars, owed, torn>>
    /\ UNCHANGED <<canonical, stopped, foreground, io, misread>>

\* VSTOP; no character sets the terminal going again.
OnStop ==
    /\ Interruptible /\ ~stopped
    /\ keys' = keys + 1
    /\ stopped' = TRUE
    /\ UNCHANGED <<vars, sigVars, lineVars, canonical, foreground, io, owed, misread, torn>>

-----------------------------------------------------------------------------
\* System calls.
CallsTty(t) == Calling(t) /\ io[t].at = "user" /\ returning = NoTask

Goes(t, where) == io' = [io EXCEPT ![t].at = where]
Leaves(t) == io' = [io EXCEPT ![t] = Outside] /\ Returns(t)
KeepsSignals == UNCHANGED <<procVars, pgid, next, signals, handled, damaged>>
KeepsTty == UNCHANGED <<canonical, stopped, foreground>>

StartRead(t, n) ==
    /\ CallsTty(t)
    /\ io' = [io EXCEPT ![t] = [Outside EXCEPT !.at = "check", !.off = TRUE,
                                               !.canon = canonical, !.want = n]]
    /\ UNCHANGED <<vars, sigVars, lineVars, ttyHistory>> /\ KeepsTty

DataReady(t) ==
    IF io[t].canon THEN \E i \in DOMAIN Unread : Unread[i].kind \in Ends
    ELSE Unread # <<>>

\* The head of Read's loop: a pending signal ends the call.
ReadCheck(t) ==
    /\ At(t, "check")
    /\ IF io[t].got >= io[t].want \/ signals[t] # {} THEN Leaves(t)
       ELSE Goes(t, IF DataReady(t) THEN "copy" ELSE "block") /\ UNCHANGED returning
    /\ UNCHANGED <<dispatchVars, lineVars, ttyHistory>> /\ KeepsSignals /\ KeepsTty

\* The task marks itself and yields; it runs on, with interrupts on.
ReadBlock(t) ==
    /\ At(t, "block")
    /\ Block(t)
    /\ io' = [io EXCEPT ![t].at = "check", ![t].off = FALSE]
    /\ UNCHANGED <<returning, lineVars, ttyHistory>> /\ KeepsSignals /\ KeepsTty

\* m_LineBuffer[m_LineReadPos++] loads the position and stores it one higher.
ReadLoad(t) ==
    /\ At(t, "copy")
    /\ IF Unread # <<>> /\ io[t].got < io[t].want
       THEN /\ io' = [io EXCEPT ![t].at = "store", ![t].pos = readPos, ![t].char = Head(Unread)]
            /\ torn' = (torn \/ Others(t, "store"))
       ELSE Goes(t, "drain") /\ UNCHANGED torn
    /\ UNCHANGED <<vars, returning, lineVars, keys, owed, misread>> /\ KeepsSignals /\ KeepsTty

ReadStore(t) ==
    LET c == io[t].char
        last == c.kind = "eof" \/ (io[t].canon /\ c.kind = "nl")
    IN
    /\ At(t, "store")
    /\ readPos' = io[t].pos + 1
    /\ io' = [io EXCEPT ![t].at = IF last THEN "drainLast" ELSE "copy",
                        ![t].got = IF c.kind = "eof" THEN @ ELSE @ + 1,
                        ![t].pos = 0, ![t].char = NoChar]
    /\ misread' = (misread \/ owed = <<>> \/ Head(owed) # c.id)
    /\ owed' = IF owed = <<>> THEN owed ELSE Tail(owed)
    /\ UNCHANGED <<vars, returning, line, keys, torn>> /\ KeepsSignals /\ KeepsTty

\* Mutant: the buffer is emptied after a line, whatever was typed ahead.
DrainedAlways(t) == TRUE

\* "if line read position equals line write position, reset both".
Drained(t) == readPos = Len(line)

\* After the last character of a line, and after the copying loop.
ReadDrain(t) ==
    /\ At(t, "drain") \/ At(t, "drainLast")
    /\ IF Drained(t)
       THEN Goes(t, IF io[t].at = "drain" THEN "reset" ELSE "resetLast") /\ UNCHANGED returning
       ELSE IF io[t].at = "drainLast" \/ (~io[t].canon /\ readPos >= Len(line)) THEN Leaves(t)
       ELSE Goes(t, "check") /\ UNCHANGED returning
    /\ UNCHANGED <<dispatchVars, lineVars, ttyHistory>> /\ KeepsSignals /\ KeepsTty

ReadReset(t) ==
    /\ At(t, "reset") \/ At(t, "resetLast")
    /\ line' = <<>> /\ readPos' = 0
    /\ IF io[t].at = "resetLast" \/ ~io[t].canon THEN Leaves(t)
       ELSE Goes(t, "check") /\ UNCHANGED returning
    /\ UNCHANGED <<dispatchVars, ttyHistory>> /\ KeepsSignals /\ KeepsTty

\* Write waits while the terminal is stopped, and otherwise only prints.
StartWrite(t) ==
    /\ CallsTty(t) /\ stopped
    /\ io' = [io EXCEPT ![t] = [Outside EXCEPT !.at = "write", !.off = TRUE]]
    /\ UNCHANGED <<vars, sigVars, lineVars, ttyHistory>> /\ KeepsTty

WriteWaits(t) ==
    /\ At(t, "write")
    /\ IF signals[t] # {} THEN Leaves(t) /\ UNCHANGED dispatchVars
       ELSE /\ Block(t)
            /\ io' = [io EXCEPT ![t].off = FALSE] /\ UNCHANGED returning
    /\ UNCHANGED <<lineVars, ttyHistory>> /\ KeepsSignals /\ KeepsTty

\* TCSETS and TCSETSF: no waiting reader hears of the new mode.
SetMode(t) ==
    /\ CallsTty(t)
    /\ canonical' = ~canonical
    /\ Returns(t)
    /\ UNCHANGED <<dispatchVars, lineVars, stopped, foreground, io, ttyHistory>> /\ KeepsSignals

\* TIOCSPGRP takes any number.
SetForegroundPID(t, id) ==
    /\ CallsTty(t)
    /\ foreground' = id
    /\ Returns(t)
    /\ UNCHANGED <<dispatchVars, lineVars, canonical, stopped, io, ttyHistory>> /\ KeepsSignals

TtyNext ==
    /\ ~damaged
    /\ \/ \E kind \in Ends \cup {"char"} : OnInput(kind)
       \/ \E sig \in SigNums : OnSignalKey(sig)
       \/ OnStop
       \/ \E t \in Tasks :
             \/ \E n \in Sizes : StartRead(t, n)
             \/ ReadCheck(t) \/ ReadBlock(t) \/ ReadLoad(t) \/ ReadStore(t)
             \/ ReadDrain(t) \/ ReadReset(t)
             \/ StartWrite(t) \/ WriteWaits(t)
             \/ SetMode(t)
             \/ \E id \in Slots : SetForegroundPID(t, id)
             \/ EndSyscall(t) /\ UNCHANGED ttyVars
             \/ CallsTty(t) /\ Unused # {} /\ ForkIntoGroup(t, NewTask) /\ UNCHANGED ttyVars
       \/ ~Off /\ returning = NoTask /\ Switch /\ UNCHANGED <<procVars, sigVars, ttyVars>>

TtySpec == ProcessInit /\ SignalsInit /\ TtyInit /\ [][TtyNext]_<<vars, sigVars, ttyVars>>

-----------------------------------------------------------------------------
\* Readers get what was typed: every character that OnInput accepted reaches exactly
\* one reader, in the order of typing, over type-ahead, partial reads, changes of
\* mode, full buffers and flushes by a signal key; what has not been read is in the
\* buffer.  Out of this are the steps that get into the middle of an update of the
\* two positions: a key between the comparison and the reset of Read, a signal key
\* or a second reader between the load and the store of m_LineReadPos.
TypedIsRead ==
    ~torn => /\ ~misread
             /\ owed = [i \in DOMAIN Unread |-> Unread[i].id]
=============================================================================
