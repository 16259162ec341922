------------------------------ MODULE Console ------------------------------
(***************************************************************************)
(* The kernel's console input (kernel/src/console.c) and the read system    *)
(* call on it (SYS_READ of kernel/src/syscall.c).  console_rx_feed runs in   *)
(* the serial interrupt handler and is one step.  console_read runs either  *)
(* in the system-call trap, which no interrupt enters, or called directly   *)
(* by the init task, where the handler can run between any two steps.       *)
(* poll and select sleep on the same queue: they are in Poll, and while one  *)
(* waits in the trap nothing is typed.                                      *)
(***************************************************************************)
EXTENDS Integers, FiniteSets, FiniteSetsExt

CONSTANTS
  Cap,        \* CONSOLE_RX_CAP
  Chunk,      \* sizeof(byte_buf) of SYS_READ
  Readers,    \* the tasks that call SYS_READ, by their slots
  Lens,       \* lengths that tasks read
  Uses,       \* ways to use the console, one for each behaviour: where
              \* console_read is called ("trap", "direct"), and tty modes set
  MaxEofs     \* bound on g_rx_eofs, a 32-bit counter in the code

ASSUME ConsoleAssumption ==
  /\ Cap \in Nat \ {0, 1} /\ Chunk \in Nat \ {0} /\ MaxEofs \in Nat
  /\ Readers \subseteq Nat \ {0} /\ IsFiniteSet(Readers)
  /\ Lens \subseteq Nat \ {0}
  /\ Uses \subseteq [callers : SUBSET {"trap", "direct"}, lflags : SUBSET SUBSET {"ICANON", "ISIG"}]

\* What the buffer holds: data, '\n' and VEOF; and what else is typed
Stored == {"data", "nl", "eof"}
Typed == Stored \cup {"nul", "intr", "kill", "erase"}

VARIABLES
  g_rx_buf, g_rx_head, g_rx_tail,
  g_rx_lines, g_rx_eofs,
  g_tty_lflag,
  g_rx_waitq,     \* the tasks that sleep on it
  use,            \* how the console is used, fixed from the start
  r,              \* the read in progress: its place and its locals
  ret,            \* what the last SYS_READ returned, and to which mode of call
  woken           \* history: the tasks that were woken, and have since neither
                  \* read the end of a line or a file nor gone back to sleep

buffer == <<g_rx_buf, g_rx_head, g_rx_tail>>
vars == <<buffer, g_rx_lines, g_rx_eofs, g_tty_lflag, g_rx_waitq, use, r, ret, woken>>

Index == 0 .. Cap - 1

Succ(i) == (i + 1) % Cap
Count == (g_rx_head - g_rx_tail) % Cap
At(i) == g_rx_buf[(g_rx_tail + i - 1) % Cap]      \* the i-th unread entry
Offset(j) == (j - g_rx_tail) % Cap                \* how many are in front of it
Marks(c) == {j \in Index : Offset(j) < Count /\ g_rx_buf[j] = c}
Unread(c) == Cardinality(Marks(c))
Canonical == "ICANON" \in g_tty_lflag

Idle == [pc |-> "idle", caller |-> "none", task |-> 0, nonblock |-> 0, len |-> 0,
         copied |-> 0, n |-> 0, canonical |-> 0, c |-> "data", saw_eof |-> 0, counter |-> 0]

Init ==
  /\ g_rx_buf = [i \in Index |-> "data"] /\ g_rx_head = 0 /\ g_rx_tail = 0
  /\ g_rx_lines = 0 /\ g_rx_eofs = 0
  /\ g_tty_lflag = {"ICANON", "ISIG"}
  /\ g_rx_waitq = {} /\ woken = {}
  /\ use \in Uses
  /\ r = Idle
  /\ ret = "none"

----------------------------------------------------------------------------
(* The interrupt handler. *)

\* sched_waitq_wake_one: of the tasks asleep, the one in the lowest slot
WakeOne ==
  \/ g_rx_waitq = {} /\ UNCHANGED <<g_rx_waitq, woken>>
  \/ \E t \in g_rx_waitq :
       /\ \A u \in g_rx_waitq : t <= u
       /\ g_rx_waitq' = g_rx_waitq \ {t}
       /\ woken' = woken \cup {t}

Keep(head) ==
  /\ g_rx_head' = head
  /\ UNCHANGED <<g_rx_buf, g_rx_lines, g_rx_eofs, g_rx_waitq, woken>>

\* Fault: only a newline wakes a reader.
EnqueueWakesLine(head, c) ==
  IF Succ(head) = g_rx_tail
    THEN Keep(head)
    ELSE /\ g_rx_buf' = [g_rx_buf EXCEPT ![head] = c]
         /\ g_rx_head' = Succ(head)
         /\ g_rx_lines' = IF c = "nl" THEN g_rx_lines + 1 ELSE g_rx_lines
         /\ g_rx_eofs' = IF c = "eof" THEN g_rx_eofs + 1 ELSE g_rx_eofs
         /\ IF c = "nl" THEN WakeOne ELSE UNCHANGED <<g_rx_waitq, woken>>

\* console_rx_enqueue_char at a given head; a full buffer drops the byte
Enqueue(head, c) ==
  IF Succ(head) = g_rx_tail
    THEN Keep(head)
    ELSE /\ g_rx_buf' = [g_rx_buf EXCEPT ![head] = c]
         /\ g_rx_head' = Succ(head)
         /\ g_rx_lines' = IF c = "nl" THEN g_rx_lines + 1 ELSE g_rx_lines
         /\ g_rx_eofs' = IF c = "eof" THEN g_rx_eofs + 1 ELSE g_rx_eofs
         /\ WakeOne

\* Fault: newlines are erased too.
PoppedLines(k) ==
  LET fixed == Max({0} \cup {i \in 1 .. Count : At(i) = "eof"})
  IN (g_rx_tail + Max({fixed, Count - k})) % Cap

\* console_rx_pop_last_editable, at most k times: the head it leaves
Popped(k) ==
  LET fixed == Max({0} \cup {i \in 1 .. Count : At(i) \in {"nl", "eof"}})
      left == Max({fixed, Count - k})
  IN (g_rx_tail + left) % Cap

\* console_rx_feed
Feed(c) ==
  /\ r.caller # "trap"
  /\ c = "eof" => g_rx_eofs < MaxEofs
  /\ CASE c = "intr" /\ "ISIG" \in g_tty_lflag -> Enqueue(Popped(Cap), "nl")
       [] c = "kill" /\ Canonical -> Keep(Popped(Cap))
       [] c = "erase" /\ Canonical -> Keep(Popped(1))
       [] c = "nul" -> Keep(g_rx_head)
       [] OTHER -> Enqueue(g_rx_head, IF c \in Stored THEN c ELSE "data")
  /\ UNCHANGED <<g_rx_tail, g_tty_lflag, use, r, ret>>

----------------------------------------------------------------------------
(* The tasks that read. *)

\* SYS_READ on the console.  A task that has been put on g_rx_waitq runs on
\* until it returns to the scheduler, and can call again before that.
SysRead(t, len, nonblock) ==
  /\ "trap" \in use.callers
  /\ r.pc = "idle"
  /\ r' = [Idle EXCEPT !.pc = "begin", !.caller = "trap", !.task = t, !.len = len,
                       !.nonblock = nonblock]
  /\ ret' = "none"
  /\ UNCHANGED <<buffer, g_rx_lines, g_rx_eofs, g_tty_lflag, use, g_rx_waitq, woken>>

\* The init task's console_read(&c, 1, 1)
InitRead ==
  /\ "direct" \in use.callers
  /\ r.pc = "idle"
  /\ r' = [Idle EXCEPT !.pc = "begin", !.caller = "direct", !.len = 1, !.nonblock = 1]
  /\ ret' = "none"
  /\ UNCHANGED <<buffer, g_rx_lines, g_rx_eofs, g_tty_lflag, use, g_rx_waitq, woken>>

\* console_tty_set_lflag
SetLflag(f) ==
  /\ r.pc = "idle"
  /\ f \in use.lflags
  /\ g_tty_lflag' = f
  /\ UNCHANGED <<buffer, g_rx_lines, g_rx_eofs, g_rx_waitq, woken, use, r, ret>>

Want == Min({r.len - r.copied, Chunk})
Nonblock == r.nonblock = 1 \/ r.copied # 0

\* What SYS_READ does with the result of console_read: "blocked", or n bytes.
\* After a full chunk it asks for more.
Result(blocked) ==
  LET copied == r.copied + r.n
      more == ~blocked /\ r.n = Want /\ copied < r.len
  IN IF more
       THEN r' = [r EXCEPT !.pc = "begin", !.copied = copied, !.n = 0] /\ UNCHANGED ret
       ELSE /\ r' = Idle
            /\ ret' = IF r.caller = "direct" THEN "none"
                      ELSE IF copied # 0 THEN "data"
                      ELSE IF blocked THEN IF r.nonblock = 1 THEN "EAGAIN" ELSE "EAGAIN_blocking"
                      ELSE IF r.nonblock = 1 THEN "EAGAIN" ELSE "end"

\* Nothing to return: 0 at once, or sched_waitq_sleep and CONSOLE_IO_BLOCKED
NothingYet ==
  IF Nonblock
    THEN Result(FALSE) /\ UNCHANGED <<g_rx_waitq, woken>>
    ELSE /\ Result(TRUE)
         /\ g_rx_waitq' = g_rx_waitq \cup {r.task} /\ woken' = woken \ {r.task}

\* Fault: incomplete lines are read too.
BeginUngated ==
  /\ r.pc = "begin"
  /\ r' = [r EXCEPT !.pc = "loop", !.canonical = IF Canonical THEN 1 ELSE 0]
  /\ UNCHANGED <<buffer, g_rx_lines, g_rx_eofs, g_tty_lflag, use, g_rx_waitq, woken, ret>>

\* console_read up to its loop
Begin ==
  /\ r.pc = "begin"
  /\ IF Canonical /\ g_rx_lines = 0 /\ g_rx_eofs = 0
       THEN NothingYet
       ELSE /\ r' = [r EXCEPT !.pc = "loop", !.canonical = IF Canonical THEN 1 ELSE 0]
            /\ UNCHANGED <<g_rx_waitq, woken, ret>>
  /\ UNCHANGED <<buffer, g_rx_lines, g_rx_eofs, g_tty_lflag, use>>

\* The loop's tests and the load of the next entry
Load ==
  /\ r.pc = "loop" /\ r.n < Want /\ g_rx_tail # g_rx_head
  /\ LET c == At(1)
         eof == r.canonical = 1 /\ c = "eof"
     IN r' = [r EXCEPT !.c = c,
                       !.n = IF eof THEN r.n ELSE r.n + 1,
                       !.saw_eof = IF eof THEN 1 ELSE 0,
                       !.pc = IF eof THEN IF g_rx_eofs # 0 THEN "eofs" ELSE "last"
                              ELSE IF c = "nl" /\ g_rx_lines # 0 THEN "lines" ELSE "advance"]
  /\ UNCHANGED <<buffer, g_rx_lines, g_rx_eofs, g_tty_lflag, use, g_rx_waitq, woken, ret>>

\* g_rx_lines-- and g_rx_eofs--: a load, and a store of one less
LoadCounter ==
  /\ r.pc \in {"lines", "eofs"}
  /\ r' = [r EXCEPT !.counter = IF r.pc = "lines" THEN g_rx_lines ELSE g_rx_eofs,
                    !.pc = IF r.pc = "lines" THEN "store_lines" ELSE "store_eofs"]
  /\ UNCHANGED <<buffer, g_rx_lines, g_rx_eofs, g_tty_lflag, use, g_rx_waitq, woken, ret>>

StoreCounter ==
  /\ \/ /\ r.pc = "store_lines"
        /\ g_rx_lines' = r.counter - 1
        /\ UNCHANGED g_rx_eofs
     \/ /\ r.pc = "store_eofs"
        /\ g_rx_eofs' = r.counter - 1
        /\ UNCHANGED g_rx_lines
  /\ r' = [r EXCEPT !.counter = 0, !.pc = IF r.canonical = 1 THEN "last" ELSE "advance"]
  /\ woken' = woken \ {r.task}
  /\ UNCHANGED <<buffer, g_tty_lflag, use, g_rx_waitq, ret>>

\* The store of g_rx_tail; after a line or an end of file the loop ends
Advance ==
  /\ r.pc \in {"advance", "last"}
  /\ g_rx_tail' = Succ(g_rx_tail)
  /\ r' = [r EXCEPT !.c = "data", !.pc = IF r.pc = "last" THEN "return" ELSE "loop"]
  /\ UNCHANGED <<g_rx_buf, g_rx_head, g_rx_lines, g_rx_eofs, g_tty_lflag, use, g_rx_waitq, woken, ret>>

\* The end of console_read
Return ==
  /\ \/ r.pc = "return"
     \/ r.pc = "loop" /\ (r.n = Want \/ g_rx_tail = g_rx_head)
  /\ IF r.n # 0 \/ r.saw_eof = 1
       THEN Result(FALSE) /\ UNCHANGED <<g_rx_waitq, woken>>
       ELSE NothingYet
  /\ UNCHANGED <<buffer, g_rx_lines, g_rx_eofs, g_tty_lflag, use>>

Reader == Begin \/ Load \/ LoadCounter \/ StoreCounter \/ Advance \/ Return

Next ==
  \/ Reader
  \/ \E c \in Typed : Feed(c)
  \/ InitRead
  \/ \E t \in Readers, len \in Lens, nonblock \in {0, 1} : SysRead(t, len, nonblock)
  \/ \E f \in SUBSET {"ICANON", "ISIG"} : SetLflag(f)

Spec == Init /\ [][Next]_vars

----------------------------------------------------------------------------
(* Correctness. *)

Quiet == r.pc = "idle"
OnlyTrap == use.callers = {"trap"}
OnlyCanonical == \A f \in use.lflags : "ICANON" \in f

\* While only system calls read the console, g_rx_lines is the number of
\* complete lines in the buffer, whatever was erased, killed, interrupted or
\* dropped, and in whichever mode it was read.
LinesExact == OnlyTrap /\ Quiet => g_rx_lines = Unread("nl")

\* ... and, while they read it in canonical mode, g_rx_eofs is the number of
\* end-of-file marks.
EofsExact == OnlyTrap /\ OnlyCanonical /\ Quiet => g_rx_eofs = Unread("eof")

\* Both counters of console.c agree with the buffer, through erasing, killing,
\* a full buffer and reads that stop in the middle of a line.
CountersExact == LinesExact /\ EofsExact

\* A reader in canonical mode removes from the buffer the entry that it copied:
\* input editing in the interrupt handler never takes away an entry that a
\* read is at, also between the steps of the init task.
TakesWhatItRead ==
  OnlyCanonical /\ r.pc \in {"lines", "eofs", "store_lines", "store_eofs", "advance", "last"} =>
    Count # 0 /\ At(1) = r.c

\* No lost wakeup: in canonical mode, while tasks sleep on g_rx_waitq, as many
\* others at least have been woken and not yet read the end of a line as there
\* are lines and ends of file to read.  So console_can_read is true and a task
\* sleeps on only while another has the wakeup: a task that is alone does not
\* sleep on a line.  (The other may take its time: console_rx_enqueue_char wakes
\* one task, and nothing wakes the next when that one reads half of its line.)
WakeupPerLine ==
  OnlyCanonical /\ g_rx_waitq # {} => g_rx_lines + g_rx_eofs <= Cardinality(woken)
=============================================================================
