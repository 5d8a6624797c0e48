------------------------------ MODULE Console ------------------------------
(***************************************************************************)
(* The console (kernel/console.c) and the UART driver (kernel/uart.c):     *)
(* readers and writers, the interrupt handler, and the device with its     *)
(* receive and transmit FIFOs.                                             *)
(*                                                                         *)
(* The PLIC lets one CPU at a time handle the UART's interrupt, so there   *)
(* is one handler.  Reading the ISR register acknowledges the transmit     *)
(* interrupt; the receive interrupt stays while input is waiting.  The     *)
(* indices r, w and e of the ring are unsigned and wrap at UINT.           *)
(***************************************************************************)
EXTENDS Integers, Sequences, FiniteSets

CONSTANTS Readers, Writers,
          Nobody,                   \* holder of a lock that is free
          Letters, NL, EOF, BS, KILL, \* keys: letters, newline, ^D, backspace, ^U
          INPUT_BUF_SIZE, UINT,
          Start,                    \* how many newlines were typed and read before
          ReadSizes, WriteSizes,    \* the counts read() and write() are called with
          ERASE,                    \* bytes that erase a character on the screen
          RxSize, MaxTyped          \* bounds: keys waiting in the device, keys typed

ASSUME ConsoleAssumption == /\ INPUT_BUF_SIZE \in Nat \ {0}
                            /\ UINT \in Nat /\ UINT % INPUT_BUF_SIZE = 0
                            /\ UINT > INPUT_BUF_SIZE /\ Start \in 0..(UINT - 1)
                            /\ ERASE \in Nat

Handler == "uartintr"
Chars == Letters \cup {NL, EOF}
Keys == Chars \cup {BS, KILL}

VARIABLES buf, r, w, e,     \* cons
          lock,             \* holder of cons.lock
          pc, n, got,       \* of each reader: n is what read() still wants
          killed,
          wpc, left,        \* of each writer: left bytes are to be sent
          tx_busy,
          hpc, echo,        \* the handler, and the characters it has to echo
          rx, tx, thre,     \* device: waiting input, bytes to transmit, interrupt
          typed
cons == <<buf, r, w, e>>
reader == <<pc, n, got, killed>>
writer == <<wpc, left>>
device == <<rx, tx, thre>>
vars == <<cons, lock, reader, writer, tx_busy, hpc, echo, device, typed>>

Plus(a, b) == (a + b) % UINT
Cell(k) == k % INPUT_BUF_SIZE

---------------------------------------------------------------------------
(* The device: a key arrives, a byte leaves.  The transmit interrupt is    *)
(* raised when the last byte has left.                                     *)

key(c) == /\ typed < MaxTyped /\ typed' = typed + 1 /\ Len(rx) < RxSize
          /\ rx' = Append(rx, c)
          /\ UNCHANGED <<cons, lock, reader, writer, tx_busy, hpc, echo, tx, thre>>
drain == /\ tx > 0 /\ tx' = tx - 1 /\ thre' = (tx = 1)
         /\ UNCHANGED <<cons, lock, reader, writer, tx_busy, hpc, echo, rx, typed>>
TX_IDLE == tx = 0

---------------------------------------------------------------------------
(* uartwrite(): one byte, then the loop finds tx_busy set and sleeps.      *)

consolewrite(p, k) ==
  /\ wpc[p] = "user"
  /\ wpc' = [wpc EXCEPT ![p] = "write"] /\ left' = [left EXCEPT ![p] = k]
  /\ UNCHANGED <<cons, lock, reader, tx_busy, hpc, echo, device, typed>>
uartwrite(p) ==
  /\ wpc[p] = "write"
  /\ IF tx_busy
     THEN wpc' = [wpc EXCEPT ![p] = "sleep"] /\ UNCHANGED <<left, tx, thre, tx_busy>>
     ELSE /\ tx' = tx + 1 /\ thre' = FALSE /\ tx_busy' = TRUE
          /\ left' = [left EXCEPT ![p] = @ - 1]
          /\ wpc' = [wpc EXCEPT ![p] = IF left[p] = 1 THEN "user" ELSE "sleep"]
  /\ UNCHANGED <<cons, lock, reader, hpc, echo, rx, typed>>

---------------------------------------------------------------------------
(* uartintr().                                                             *)

\* ReadReg(ISR) acknowledges the transmit interrupt.
uartintr == /\ hpc = "idle" /\ (thre \/ rx # <<>>)
            /\ thre' = FALSE /\ hpc' = "tx"
            /\ UNCHANGED <<cons, lock, reader, writer, tx_busy, echo, rx, tx, typed>>

\* Mutant: one sleeper is woken.
wakeup_senders_one == {CHOOSE p \in Writers : wpc[p] = "sleep" \/ \A q \in Writers : wpc[q] # "sleep"}
wakeup_senders == Writers
uartintr_tx ==
  /\ hpc = "tx" /\ hpc' = "rx"
  /\ tx_busy' = (tx_busy /\ ~TX_IDLE)
  /\ wpc' = [p \in Writers |-> IF TX_IDLE /\ p \in wakeup_senders /\ wpc[p] = "sleep"
                               THEN "write" ELSE wpc[p]]
  /\ UNCHANGED <<cons, lock, reader, left, echo, device, typed>>

uartintr_done == /\ hpc = "rx" /\ rx = <<>> /\ hpc' = "idle"
                 /\ UNCHANGED <<cons, lock, reader, writer, tx_busy, echo, device, typed>>

---------------------------------------------------------------------------
(* consoleintr() of the key at the head of rx, with cons.lock held.        *)

Count(a, b) == (b - a) % UINT        \* b - a of two unsigned indices

\* How many characters ^U erases: back to w or to a newline.
IsBarrier(k) == k = 0 \/ buf[Cell(Plus(e, -k))] = NL
Erased == CHOOSE k \in 0..Count(w, e) :
            (k = Count(w, e) \/ IsBarrier(k + 1)) /\ \A j \in 1..k : ~IsBarrier(j)

NotFull == Count(r, e) < INPUT_BUF_SIZE
SendOff(c, e1) == c = NL \/ c = EOF \/ Count(r, e1) = INPUT_BUF_SIZE

Wakeup == pc' = [p \in Readers |-> IF pc[p] = "sleep" THEN "read" ELSE pc[p]]
consoleintr ==
  LET c == Head(rx) IN
  /\ hpc = "rx" /\ rx # <<>> /\ lock = Nobody
  /\ rx' = Tail(rx)
  /\ \/ /\ c = KILL /\ e' = Plus(e, -Erased) /\ echo' = ERASE * Erased
        /\ UNCHANGED <<buf, w, pc>>
     \/ /\ c = BS /\ e' = IF e # w THEN Plus(e, -1) ELSE e
        /\ echo' = (IF e # w THEN ERASE ELSE 0)
        /\ UNCHANGED <<buf, w, pc>>
     \/ /\ c \in Chars /\ NotFull
        /\ buf' = [buf EXCEPT ![Cell(e)] = c] /\ e' = Plus(e, 1) /\ echo' = 1
        /\ IF SendOff(c, e') THEN w' = e' /\ Wakeup ELSE UNCHANGED <<w, pc>>
     \/ /\ c \in Chars /\ ~NotFull
        /\ echo' = 0 /\ UNCHANGED <<buf, e, w, pc>>
  /\ lock' = Handler /\ hpc' = "echo"
  /\ UNCHANGED <<r, n, got, killed, writer, tx_busy, tx, thre, typed>>

\* uartputc_sync() of each character to echo: wait for the device, then write.
uartputc_wait == /\ hpc = "echo" /\ echo > 0 /\ TX_IDLE /\ hpc' = "put"
                 /\ UNCHANGED <<cons, lock, reader, writer, tx_busy, echo, device, typed>>
uartputc_put == /\ hpc = "put" /\ hpc' = "echo" /\ echo' = echo - 1
                /\ tx' = tx + 1 /\ thre' = FALSE
                /\ UNCHANGED <<cons, lock, reader, writer, tx_busy, rx, typed>>
consoleintr_done == /\ hpc = "echo" /\ echo = 0 /\ hpc' = "rx" /\ lock' = Nobody
                    /\ UNCHANGED <<cons, reader, writer, tx_busy, echo, device, typed>>

---------------------------------------------------------------------------
(* consoleread(): a step per character, with cons.lock held.               *)

consoleread(p, k) ==
  /\ pc[p] = "user" /\ ~killed[p]
  /\ pc' = [pc EXCEPT ![p] = "read"] /\ n' = [n EXCEPT ![p] = k] /\ got' = [got EXCEPT ![p] = <<>>]
  /\ UNCHANGED <<cons, lock, killed, writer, tx_busy, hpc, echo, device, typed>>

Return(p) == pc' = [pc EXCEPT ![p] = "user"] /\ n' = [n EXCEPT ![p] = 0] /\ lock' = Nobody
\* Nothing has arrived: give up if killed, or sleep.
read_wait(p) ==
  /\ pc[p] = "read" /\ lock \in {Nobody, p} /\ n[p] > 0 /\ r = w
  /\ IF killed[p] THEN Return(p)
     ELSE pc' = [pc EXCEPT ![p] = "sleep"] /\ lock' = Nobody /\ UNCHANGED n
  /\ UNCHANGED <<cons, got, killed, writer, tx_busy, hpc, echo, device, typed>>

\* ^D: left in the buffer if this read has something to return.
\* Mutant: the end-of-file is consumed by a read that has characters.
TakeEof(p) == Plus(r, 1)
NextAfterEof(p) == IF got[p] = <<>> THEN Plus(r, 1) ELSE r
read_eof(p) ==
  /\ pc[p] = "read" /\ lock \in {Nobody, p} /\ n[p] > 0 /\ r # w /\ buf[Cell(r)] = EOF
  /\ r' = NextAfterEof(p)
  /\ Return(p)
  /\ UNCHANGED <<buf, w, e, got, killed, writer, tx_busy, hpc, echo, device, typed>>

read_char(p) ==
  LET c == buf[Cell(r)] IN
  /\ pc[p] = "read" /\ lock \in {Nobody, p} /\ n[p] > 0 /\ r # w /\ c # EOF
  /\ r' = Plus(r, 1) /\ got' = [got EXCEPT ![p] = Append(@, c)]
  /\ IF c = NL \/ n[p] = 1 THEN Return(p)
     ELSE n' = [n EXCEPT ![p] = @ - 1] /\ lock' = p /\ UNCHANGED pc
  /\ UNCHANGED <<buf, w, e, killed, writer, tx_busy, hpc, echo, device, typed>>

\* either_copyout() failed: the character is gone, the read returns what it had.
read_fault(p) ==
  /\ pc[p] = "read" /\ lock \in {Nobody, p} /\ n[p] > 0 /\ r # w /\ buf[Cell(r)] # EOF
  /\ r' = Plus(r, 1) /\ Return(p)
  /\ UNCHANGED <<buf, w, e, got, killed, writer, tx_busy, hpc, echo, device, typed>>

\* kill(): marks the process, and wakes it if it sleeps.
kkill(p) ==
  /\ ~killed[p] /\ killed' = [killed EXCEPT ![p] = TRUE]
  /\ pc' = [pc EXCEPT ![p] = IF @ = "sleep" THEN "read" ELSE @]
  /\ UNCHANGED <<cons, lock, n, got, writer, tx_busy, hpc, echo, device, typed>>

---------------------------------------------------------------------------
Init ==
  /\ buf = [k \in 0..(INPUT_BUF_SIZE - 1) |-> NL] /\ r = Start /\ w = Start /\ e = Start
  /\ lock = Nobody
  /\ pc = [p \in Readers |-> "user"] /\ n = [p \in Readers |-> 0]
  /\ got = [p \in Readers |-> <<>>] /\ killed = [p \in Readers |-> FALSE]
  /\ wpc = [p \in Writers |-> "user"] /\ left = [p \in Writers |-> 0]
  /\ tx_busy = FALSE /\ hpc = "idle" /\ echo = 0
  /\ rx = <<>> /\ tx = 0 /\ thre = FALSE /\ typed = 0

handler == \/ uartintr \/ uartintr_tx \/ uartintr_done
           \/ consoleintr \/ uartputc_wait \/ uartputc_put \/ consoleintr_done
reading(p) == read_wait(p) \/ read_eof(p) \/ read_char(p) \/ read_fault(p)
Next == \/ \E c \in Keys : key(c)
        \/ drain
        \/ handler
        \/ \E p \in Writers : uartwrite(p) \/ \E k \in WriteSizes : consolewrite(p, k)
        \/ \E p \in Readers : reading(p) \/ kkill(p) \/ \E k \in ReadSizes : consoleread(p, k)

\* The device transmits, its interrupts are handled and processes that can run do.
Fairness == /\ WF_vars(drain) /\ WF_vars(handler)
            /\ \A p \in Writers : WF_vars(uartwrite(p))
            /\ \A p \in Readers : WF_vars(reading(p))
Spec == Init /\ [][Next]_vars /\ Fairness

---------------------------------------------------------------------------
(* Properties.                                                             *)

TypeOK ==
  /\ buf \in [0..(INPUT_BUF_SIZE - 1) -> Chars]
  /\ {r, w, e} \subseteq 0..(UINT - 1)
  /\ lock \in Readers \cup {Nobody, Handler}
  /\ pc \in [Readers -> {"user", "read", "sleep"}] /\ got \in [Readers -> Seq(Chars)]
  /\ wpc \in [Writers -> {"user", "write", "sleep"}]
  /\ hpc \in {"idle", "tx", "rx", "echo", "put"} /\ echo \in Nat
  /\ tx \in Nat /\ thre \in BOOLEAN /\ tx_busy \in BOOLEAN

\* Nobody sleeps on what has already happened: a sleeping reader has nothing to
\* read, and a sleeping writer waits for an interrupt that is still to come: the
\* device is sending, its interrupt is pending, or the handler is about to look.
NoLostWakeup ==
  /\ \A p \in Readers : pc[p] = "sleep" => r = w /\ ~killed[p]
  /\ \A p \in Writers : wpc[p] = "sleep" => tx_busy
  /\ tx_busy => tx > 0 \/ thre \/ hpc = "tx"

\* The transmit FIFO never holds more than a byte of write() and a byte of echo,
\* though uartputc_sync() writes without tx_lock: nothing is overwritten.
FifoBounded == tx <= 2

(***************************************************************************)
(* The inductive invariant.                                                *)
(***************************************************************************)
\* Who may still add a byte: a writer while tx_busy is clear, the handler that has
\* seen the device idle.
FifoInv == /\ hpc = "put" => echo > 0 /\ tx <= 1
           /\ ~tx_busy => tx <= 1
           /\ hpc = "put" /\ ~tx_busy => tx = 0

\* r, w and e follow each other around the ring, and what can still be edited holds
\* no newline, so ^U stops at w.
RingInv == /\ Count(r, e) = Count(r, w) + Count(w, e)
           /\ Count(r, e) <= INPUT_BUF_SIZE
           /\ \A k \in 1..Count(w, e) : buf[Cell(Plus(w, k - 1))] # NL

\* A read that goes on has seen no newline.
LineInv == \A p \in Readers : pc[p] # "user" => \A k \in DOMAIN got[p] : got[p][k] # NL

IInv == NoLostWakeup /\ FifoBounded /\ FifoInv /\ RingInv /\ LineInv

From(a, b) == [k \in 1..Count(a, b) |-> buf[Cell(Plus(a, k - 1))]]
Abstract == INSTANCE Tty WITH Size <- INPUT_BUF_SIZE, edit <- From(w, e), queue <- From(r, w)

\* The ring with its three wrapping indices implements an editable line and a queue:
\* nothing is reordered, returned twice or taken from the line still edited, and ^D ends
\* one read.  (Which character a read may lose is left open: Tty allows any at the head.)
ImplementsTty == Abstract!Spec

\* A writer that sleeps in uartwrite() is woken: the device's interrupt comes, whatever
\* echo and input the handler has to deal with.
SenderWoken == \A p \in Writers : wpc[p] = "sleep" ~> wpc[p] = "write"

\* Nobody sleeps in vain, and the device is not overrun.
ConsoleInv == TypeOK /\ IInv
=============================================================================
