------------------------------- MODULE Serial -------------------------------
(***************************************************************************)
(* The serial receiver: a host thread puts bytes in a ring                  *)
(* (vm_serial_rx_enqueue of io.c), IN of KEYBOARD takes them out (vm.c),     *)
(* and the kernel's interrupt handler drains it into the console            *)
(* (serial_drain_rx of kernel/src/irq.c).  The device side of each step is  *)
(* one critical section of the shared lock; taking an interrupt is the      *)
(* compare-and-swap of vm_handle_interrupts.                                *)
(***************************************************************************)
EXTENDS Integers, Sequences

CONSTANTS
  Bytes,      \* what the host types
  Size        \* entries of serial_rx_fifo, a power of two in the code

ASSUME SerialAssumption == Size \in Nat \ {0, 1} /\ Bytes \subseteq Nat

VARIABLES
  serial_rx_fifo, serial_rx_head, serial_rx_tail,
  rx_ready,       \* SERIAL_STATUS_RX_READY of io[SCREEN_ATTRIBUTE]
  int_enable,     \* its SERIAL_CTRL_RX_INT_ENABLE
  pending,        \* INT_SERIAL in core 0's bitmap
  isr,            \* where core 0 is: in serial_drain_rx, in another handler
                  \* ("trap"), or in none
  last,           \* history: the last byte given to console_rx_feed
  early           \* history: the ring was not empty when the kernel enabled
                  \* the interrupt

ring == <<serial_rx_fifo, serial_rx_head, serial_rx_tail>>
vars == <<ring, rx_ready, int_enable, pending, isr, last, early>>

Index == 0 .. Size - 1

Succ(i) == (i + 1) % Size
Empty == serial_rx_head = serial_rx_tail

----------------------------------------------------------------------------
Init ==
  /\ serial_rx_fifo = [i \in Index |-> 0]
  /\ serial_rx_head = 0 /\ serial_rx_tail = 0
  /\ rx_ready = 0 /\ int_enable = 0
  /\ pending = 0
  /\ isr = "none" /\ last = 0 /\ early = 0

\* Fault: the test of SERIAL_CTRL_RX_INT_ENABLE is inverted.
EnqueueInverted(c) ==
  /\ Succ(serial_rx_head) # serial_rx_tail
  /\ serial_rx_fifo' = [serial_rx_fifo EXCEPT ![serial_rx_head] = c]
  /\ serial_rx_head' = Succ(serial_rx_head)
  /\ IF Empty
       THEN rx_ready' = 1 /\ pending' = IF int_enable = 0 THEN 1 ELSE pending
       ELSE UNCHANGED <<rx_ready, pending>>
  /\ UNCHANGED <<serial_rx_tail, int_enable, isr, last, early>>

\* vm_serial_rx_enqueue, by the thread that reads the host's terminal or window
Enqueue(c) ==
  /\ Succ(serial_rx_head) # serial_rx_tail
  /\ serial_rx_fifo' = [serial_rx_fifo EXCEPT ![serial_rx_head] = c]
  /\ serial_rx_head' = Succ(serial_rx_head)
  /\ IF Empty
       THEN rx_ready' = 1 /\ pending' = IF int_enable = 1 THEN 1 ELSE pending
       ELSE UNCHANGED <<rx_ready, pending>>
  /\ UNCHANGED <<serial_rx_tail, int_enable, isr, last, early>>

\* ... and a full ring drops the byte
EnqueueFull ==
  /\ Succ(serial_rx_head) = serial_rx_tail
  /\ UNCHANGED vars

\* irq_input_init, once the kernel's vectors are installed
InputInit ==
  /\ int_enable = 0
  /\ int_enable' = 1
  /\ early' = IF Empty THEN 0 ELSE 1
  /\ UNCHANGED <<ring, rx_ready, pending, isr, last>>

\* Core 0 is in a system call, INT 0x80, or in the handler of another
\* interrupt: it takes none before IRET
EnterTrap ==
  /\ isr = "none"
  /\ isr' = "trap"
  /\ UNCHANGED <<ring, rx_ready, int_enable, pending, last, early>>

LeaveTrap ==
  /\ isr = "trap"
  /\ isr' = "none"
  /\ UNCHANGED <<ring, rx_ready, int_enable, pending, last, early>>

\* Core 0 takes INT_SERIAL and reaches serial_drain_rx
EnterIsr ==
  /\ isr = "none" /\ pending = 1
  /\ pending' = 0
  /\ isr' = "status"
  /\ UNCHANGED <<ring, rx_ready, int_enable, last, early>>

\* The loop's test: IN of the status port
InStatus ==
  /\ isr = "status"
  /\ isr' = IF rx_ready = 1 THEN "read" ELSE "none"
  /\ UNCHANGED <<ring, rx_ready, int_enable, pending, last, early>>

\* Fault: the byte is taken after the index has moved.
InKeyboardNext ==
  /\ isr = "read"
  /\ LET tail == Succ(serial_rx_tail)
         left == tail # serial_rx_head
     IN /\ last' = serial_rx_fifo[tail]
        /\ serial_rx_tail' = tail
        /\ rx_ready' = IF left THEN 1 ELSE 0
        /\ pending' = IF left /\ int_enable = 1 THEN 1 ELSE 0
  /\ isr' = "status"
  /\ UNCHANGED <<serial_rx_fifo, serial_rx_head, int_enable, early>>

\* IN of KEYBOARD: the oldest byte, 0 when there is none; the read
\* acknowledges the interrupt, and raises it again when bytes are left
InKeyboard ==
  /\ isr = "read"
  /\ LET tail == IF Empty THEN serial_rx_tail ELSE Succ(serial_rx_tail)
         left == tail # serial_rx_head
     IN /\ last' = IF Empty THEN 0 ELSE serial_rx_fifo[serial_rx_tail]
        /\ serial_rx_tail' = tail
        /\ rx_ready' = IF left THEN 1 ELSE 0
        /\ pending' = IF left /\ int_enable = 1 THEN 1 ELSE 0
  /\ isr' = "status"
  /\ UNCHANGED <<serial_rx_fifo, serial_rx_head, int_enable, early>>

Drain == InStatus \/ InKeyboard
Core == EnterIsr \/ Drain \/ EnterTrap \/ LeaveTrap

Next == Core \/ InputInit \/ EnqueueFull \/ \E c \in Bytes : Enqueue(c)

Spec == Init /\ [][Next]_vars

\* Core 0 executes the handler's instructions, and tests for an interrupt before
\* each instruction outside of handlers (vm_handle_interrupts).  Nothing makes
\* a system call return: poll can wait in INT 0x80 for ever.
Fairness == WF_vars(Drain) /\ SF_vars(EnterIsr)
FairSpec == Spec /\ Fairness

----------------------------------------------------------------------------
(* Correctness. *)

\* Bytes in the ring, the oldest first
Count == (serial_rx_head - serial_rx_tail) % Size
Queue == [i \in 1 .. Count |-> serial_rx_fifo[(serial_rx_tail + i - 1) % Size]]

Bounded == INSTANCE ByteQueue WITH queue <- Queue, Capacity <- Size - 1

\* The ring is a queue of Size - 1 bytes: what the kernel's console is fed is
\* what was accepted, once each and in order, across every wrap of the two
\* indices.
ImplementsByteQueue == Bounded!Spec

\* Each byte is read: once the kernel has enabled the interrupt on an empty
\* ring, the oldest byte does not stay there, provided that every system call
\* and every other handler returns.  (Bytes typed before irq_input_init raise no
\* interrupt then or later, since only the first byte of an empty ring raises
\* one.)
InputIsDrained ==
  []<>(isr # "trap") =>
    \A i \in Index :
      (int_enable = 1 /\ early = 0 /\ serial_rx_tail = i /\ ~Empty) ~> (serial_rx_tail # i)
=============================================================================
