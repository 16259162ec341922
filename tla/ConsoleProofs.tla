--------------------------- MODULE ConsoleProofs ---------------------------
(***************************************************************************)
(* The counters of the console's input buffer, the entries that a read     *)
(* removes and the sleep of a reader, for any size of the buffer and any   *)
(* lengths of reads.                                                       *)
(***************************************************************************)
EXTENDS Console, FiniteSetTheorems, WellFoundedInduction, TLAPS

\* What a leaf that names no prover is tried with, and for how many seconds.
USE ZenonT(3), SMTT(30)

----------------------------------------------------------------------------
(* Largest elements. *)

\* A bounded set of natural numbers that is not empty has a largest one.
LEMMA MaxIs ==
  ASSUME NEW n \in Nat, NEW S \in SUBSET (0 .. n), S # {}
  PROVE  Max(S) \in S /\ \A y \in S : Max(S) >= y
<1> DEFINE T == {m \in Nat : n - m \in S}
<1>1. T # {}
  <2>1. PICK x \in S : TRUE
    BY Zenon
  <2>2. n - x \in T
    BY <2>1
  <2> QED
    BY <2>2, Zenon
<1>2. PICK m \in T : \A y \in T : m <= y
  <2> DEFINE R == OpToRel(<, Nat)
  <2>1. IsWellFoundedOn(R, Nat)
    BY NatLessThanWellFounded, Zenon
  <2>2. \A x, y \in Nat : <<y, x>> \in R <=> y < x
    BY DEF OpToRel
  <2>3. T \in SUBSET Nat
    OBVIOUS
  <2> HIDE DEF R, T
  <2>4. PICK x \in T : \A y \in T : ~(<<y, x>> \in R)
    BY <1>1, <2>1, <2>3, WFMin, Zenon
  <2>5. ASSUME NEW y \in T PROVE x <= y
    <3>1. x \in Nat /\ y \in Nat /\ ~(y < x)
      BY <2>2, <2>3, <2>4, Zenon
    <3> QED
      BY <3>1
  <2> QED
    BY <2>5
<1>3. \A y \in S : n - m >= y
  <2> SUFFICES ASSUME NEW y \in S PROVE n - m >= y
    OBVIOUS
  <2>1. n - y \in T
    OBVIOUS
  <2> QED
    BY <1>2, <2>1
<1>4. n - m \in S
  OBVIOUS
<1> QED
  BY <1>3, <1>4, Zenon DEF Max

----------------------------------------------------------------------------
(* The ring. *)

\* One turn of the ring is subtracted or added.
LEMMA Turn ==
  ASSUME NEW a \in Int
  PROVE  /\ 0 <= a /\ a < Cap => a % Cap = a
         /\ Cap <= a /\ a < 2 * Cap => a % Cap = a - Cap
         /\ -Cap <= a /\ a < 0 => a % Cap = a + Cap
<1>0. Cap \in Nat \ {0}
  BY ConsoleAssumption
<1>1. ASSUME 0 <= a, a < Cap PROVE a % Cap = a
  BY <1>0, <1>1
<1>2. ASSUME Cap <= a, a < 2 * Cap PROVE a % Cap = a - Cap
  BY <1>0, <1>2
<1>3. ASSUME -Cap <= a, a < 0 PROVE a % Cap = a + Cap
  BY <1>0, <1>3
<1> QED
  BY <1>1, <1>2, <1>3

\* Places of the ring, forwards and backwards
LEMMA Arith ==
  /\ \A i \in Index : Succ(i) = IF i = Cap - 1 THEN 0 ELSE i + 1
  /\ \A i, j \in Index : (i - j) % Cap = IF j <= i THEN i - j ELSE i - j + Cap
  /\ \A i, j \in Index : (i + j) % Cap = IF i + j < Cap THEN i + j ELSE i + j - Cap
  /\ Cap \in Nat \ {0, 1}
  /\ \A i \in Index : i \in 0 .. Cap - 1
<1>0. Cap \in Nat \ {0, 1} /\ \A i \in Index : i \in 0 .. Cap - 1
  BY ConsoleAssumption DEF Index
<1>1. ASSUME NEW i \in Index PROVE Succ(i) = IF i = Cap - 1 THEN 0 ELSE i + 1
  <2>1. CASE i = Cap - 1
    BY <1>0, <2>1, Turn DEF Succ
  <2>2. CASE i # Cap - 1
    BY <1>0, <2>2, Turn DEF Succ
  <2> QED
    BY <2>1, <2>2
<1>2. ASSUME NEW i \in Index, NEW j \in Index
      PROVE  (i - j) % Cap = IF j <= i THEN i - j ELSE i - j + Cap
  <2>0. i \in 0 .. Cap - 1 /\ j \in 0 .. Cap - 1
    BY <1>0
  <2>1. CASE j <= i
    BY <1>0, <2>0, <2>1, Turn
  <2>2. CASE ~(j <= i)
    BY <1>0, <2>0, <2>2, Turn
  <2> QED
    BY <2>1, <2>2
<1>3. ASSUME NEW i \in Index, NEW j \in Index
      PROVE  (i + j) % Cap = IF i + j < Cap THEN i + j ELSE i + j - Cap
  <2>0. i \in 0 .. Cap - 1 /\ j \in 0 .. Cap - 1
    BY <1>0
  <2>1. CASE i + j < Cap
    BY <1>0, <2>0, <2>1, Turn
  <2>2. CASE ~(i + j < Cap)
    BY <1>0, <2>0, <2>2, Turn
  <2> QED
    BY <2>1, <2>2
<1> QED
  BY <1>0, <1>1, <1>2, <1>3

\* The unread places between a tail and a head
Places(h, t) == {j \in Index : (j - t) % Cap < (h - t) % Cap}

\* Unread places lie between the two, or outside when the head has wrapped.
LEMMA PlacesIs ==
  ASSUME NEW h \in Index, NEW t \in Index, NEW j \in Index
  PROVE  j \in Places(h, t) <=> IF t <= h THEN t <= j /\ j < h ELSE t <= j \/ j < h
<1>1. (j - t) % Cap = IF t <= j THEN j - t ELSE j - t + Cap
  BY Arith
<1>2. (h - t) % Cap = IF t <= h THEN h - t ELSE h - t + Cap
  BY Arith
<1>3. Cap \in Nat /\ {h, t, j} \subseteq 0 .. Cap - 1
  BY Arith
<1> DEFINE x == (j - t) % Cap
           y == (h - t) % Cap
<1>4. j \in Places(h, t) <=> x < y
  BY DEF Places
<1> HIDE DEF x, y
<1> QED
  BY <1>1, <1>2, <1>3, <1>4 DEF x, y

\* console_rx_enqueue_char adds the place of the head.
LEMMA PlacesAfterHead ==
  ASSUME NEW h \in Index, NEW t \in Index, Succ(h) # t
  PROVE  /\ Succ(h) \in Index
         /\ Places(Succ(h), t) = Places(h, t) \cup {h}
         /\ h \notin Places(h, t)
<1>0. Succ(h) \in Index
  <2>1. Succ(h) = IF h = Cap - 1 THEN 0 ELSE h + 1
    BY Arith
  <2>2. Cap \in Nat \ {0, 1} /\ h \in 0 .. Cap - 1
    BY Arith
  <2> QED
    BY <2>1, <2>2 DEF Index
<1>1. \A j \in Index : j \in Places(Succ(h), t) <=> j \in Places(h, t) \/ j = h
  <2> SUFFICES ASSUME NEW j \in Index
               PROVE  j \in Places(Succ(h), t) <=> j \in Places(h, t) \/ j = h
    OBVIOUS
  <2>1. j \in Places(h, t) <=> IF t <= h THEN t <= j /\ j < h ELSE t <= j \/ j < h
    BY PlacesIs
  <2>2. LET s == Succ(h)
        IN  j \in Places(s, t) <=> IF t <= s THEN t <= j /\ j < s ELSE t <= j \/ j < s
    BY <1>0, PlacesIs
  <2>3. Succ(h) = IF h = Cap - 1 THEN 0 ELSE h + 1
    BY Arith
  <2>4. Cap \in Nat /\ {h, t, j} \subseteq 0 .. Cap - 1
    BY Arith
  <2> QED
    BY <2>1, <2>2, <2>3, <2>4
<1>2. h \notin Places(h, t)
  <2>1. Cap \in Nat /\ {h, t} \subseteq 0 .. Cap - 1
    BY Arith
  <2> QED
    BY <2>1, PlacesIs
<1> QED
  BY <1>0, <1>1, <1>2 DEF Places

\* console_read removes that of the tail.
LEMMA PlacesAfterTail ==
  ASSUME NEW h \in Index, NEW t \in Index, h # t
  PROVE  /\ Succ(t) \in Index
         /\ Places(h, Succ(t)) = Places(h, t) \ {t}
         /\ t \in Places(h, t)
<1>0. Succ(t) \in Index
  <2>1. Succ(t) = IF t = Cap - 1 THEN 0 ELSE t + 1
    BY Arith
  <2>2. Cap \in Nat \ {0, 1} /\ t \in 0 .. Cap - 1
    BY Arith
  <2> QED
    BY <2>1, <2>2 DEF Index
<1>1. \A j \in Index : j \in Places(h, Succ(t)) <=> j \in Places(h, t) /\ j # t
  <2> SUFFICES ASSUME NEW j \in Index
               PROVE  j \in Places(h, Succ(t)) <=> j \in Places(h, t) /\ j # t
    OBVIOUS
  <2>1. j \in Places(h, t) <=> IF t <= h THEN t <= j /\ j < h ELSE t <= j \/ j < h
    BY PlacesIs
  <2>2. LET s == Succ(t)
        IN  j \in Places(h, s) <=> IF s <= h THEN s <= j /\ j < h ELSE s <= j \/ j < h
    BY <1>0, PlacesIs
  <2>3. Succ(t) = IF t = Cap - 1 THEN 0 ELSE t + 1
    BY Arith
  <2>4. Cap \in Nat /\ {h, t, j} \subseteq 0 .. Cap - 1
    BY Arith
  <2> QED
    BY <2>1, <2>2, <2>3, <2>4
<1>2. t \in Places(h, t)
  <2>1. Cap \in Nat /\ {h, t} \subseteq 0 .. Cap - 1
    BY Arith
  <2> QED
    BY <2>1, PlacesIs
<1> QED
  BY <1>0, <1>1, <1>2 DEF Places

\* An empty buffer has none.
LEMMA PlacesOfNone ==
  ASSUME NEW h \in Index, NEW t \in Index
  PROVE  h = t <=> Places(h, t) = {}
<1>1. h = t => Places(h, t) = {}
  BY Arith DEF Places
<1>2. h # t => t \in Places(h, t)
  BY PlacesAfterTail
<1> QED
  BY <1>1, <1>2

\* What is unread, as sets of places
LEMMA MarksIs ==
  ASSUME NEW c
  PROVE  /\ Marks(c) = {j \in Places(g_rx_head, g_rx_tail) : g_rx_buf[j] = c}
         /\ IsFiniteSet(Marks(c))
         /\ Unread(c) \in Nat
         /\ Unread(c) = 0 <=> Marks(c) = {}
<1>1. Marks(c) = {j \in Places(g_rx_head, g_rx_tail) : g_rx_buf[j] = c}
  BY DEF Marks, Places, Offset, Count
<1>2. IsFiniteSet(Index)
  BY FS_Interval, ConsoleAssumption DEF Index
<1>3. IsFiniteSet(Marks(c))
  BY <1>2, FS_Subset DEF Marks
<1> QED
  BY <1>1, <1>3, FS_CardinalityType, FS_EmptySet DEF Unread

\* console_rx_pop_last_editable, called over and over, moves the head back to
\* some place, and removes no newline and no end of file.
LEMMA PoppedIs ==
  ASSUME NEW k \in Nat, g_rx_head \in Index, g_rx_tail \in Index
  PROVE  /\ Popped(k) \in Index
         /\ Places(Popped(k), g_rx_tail) \subseteq Places(g_rx_head, g_rx_tail)
         /\ \A j \in Places(g_rx_head, g_rx_tail) \ Places(Popped(k), g_rx_tail) :
              g_rx_buf[j] \notin {"nl", "eof"}
<1> DEFINE t == g_rx_tail
           F == {0} \cup {i \in 1 .. Count : At(i) \in {"nl", "eof"}}
           left == Max({Max(F), Count - k})
<1>0. Cap \in Nat \ {0, 1} /\ {g_rx_head, t} \subseteq 0 .. Cap - 1
  BY Arith
<1>1. Count \in 0 .. Cap - 1
  BY <1>0, Arith DEF Count
<1>2. Max(F) \in F /\ \A i \in F : Max(F) >= i
  <2>1. F \subseteq 0 .. Count /\ F # {} /\ Count \in Nat
    BY <1>1
  <2> HIDE DEF F
  <2> QED
    BY <2>1, MaxIs
<1>3. Max(F) \in 0 .. Count
  BY <1>1, <1>2
<1>4. left \in Max(F) .. Count
  <2> DEFINE m == Max(F)
             S == {m, Count - k}
  <2>1. m \in 0 .. Count
    BY <1>3
  <2> HIDE DEF m
  <2>2. \E x \in S : \A y \in S : x >= y
    BY <1>1, <2>1
  <2>3. Max(S) \in S /\ \A y \in S : Max(S) >= y
    BY <2>2 DEF Max
  <2> QED
    BY <1>1, <2>1, <2>3 DEF m
<1>5. Popped(k) = (t + left) % Cap
  BY DEF Popped
<1> HIDE DEF left
<1>6. left \in Index
  BY <1>0, <1>1, <1>3, <1>4 DEF Index
<1>7. Popped(k) = IF t + left < Cap THEN t + left ELSE t + left - Cap
  BY <1>5, <1>6, Arith
<1>8. Popped(k) \in Index
  BY <1>0, <1>1, <1>3, <1>4, <1>7 DEF Index
\* The j-th place from the tail
<1>9. Count = IF t <= g_rx_head THEN g_rx_head - t ELSE g_rx_head - t + Cap
  BY Arith DEF Count
<1>10. ASSUME NEW j \in Index
       PROVE  /\ j \in Places(Popped(k), t) => j \in Places(g_rx_head, t)
              /\ j \in Places(g_rx_head, t) /\ j \notin Places(Popped(k), t) =>
                   \E i \in left + 1 .. Count : j = (t + i - 1) % Cap
  <2> DEFINE h == Popped(k)
             i == IF t <= j THEN j - t + 1 ELSE j - t + Cap + 1
  <2>0. j \in 0 .. Cap - 1 /\ h \in 0 .. Cap - 1
    BY <1>8, Arith
  <2>1. j \in Places(h, t) <=> IF t <= h THEN t <= j /\ j < h ELSE t <= j \/ j < h
    BY <1>8, PlacesIs
  <2>2. j \in Places(g_rx_head, t) <=>
          IF t <= g_rx_head THEN t <= j /\ j < g_rx_head ELSE t <= j \/ j < g_rx_head
    BY PlacesIs
  <2>3. h = IF t + left < Cap THEN t + left ELSE t + left - Cap
    BY <1>7
  <2>4. left \in 0 .. Count
    BY <1>1, <1>3, <1>4
  <2> HIDE DEF h
  <2>5. j \in Places(h, t) => j \in Places(g_rx_head, t)
    BY <1>0, <1>1, <1>9, <2>0, <2>1, <2>2, <2>3, <2>4
  <2>6. ASSUME j \in Places(g_rx_head, t), j \notin Places(h, t)
        PROVE  i \in left + 1 .. Count
    BY <1>0, <1>1, <1>9, <2>0, <2>1, <2>2, <2>3, <2>4, <2>6
  <2>7. j \in Places(g_rx_head, t) => i - 1 \in Index
    BY <1>0, <1>1, <1>9, <2>0, <2>2 DEF Index
  <2>8. ASSUME j \in Places(g_rx_head, t), j \notin Places(h, t)
        PROVE  j = (t + i - 1) % Cap
    <3> DEFINE e == i - 1
    <3>1. e \in Index /\ t + i - 1 = t + e
      BY <1>0, <2>0, <2>7, <2>8
    <3>2. (t + e) % Cap = IF t + e < Cap THEN t + e ELSE t + e - Cap
      BY <3>1, Arith, Zenon
    <3> QED
      BY <1>0, <2>0, <3>1, <3>2
  <2> QED
    BY <2>5, <2>6, <2>8 DEF h
<1>11. ASSUME NEW j \in Places(g_rx_head, t) \ Places(Popped(k), t)
       PROVE  g_rx_buf[j] \notin {"nl", "eof"}
  <2>1. j \in Index
    BY DEF Places
  <2>2. PICK i \in left + 1 .. Count : j = (t + i - 1) % Cap
    BY <1>10, <2>1
  <2>3. At(i) = g_rx_buf[j]
    BY <2>2 DEF At
  <2>4. i \in 1 .. Count /\ i > Max(F)
    BY <1>1, <1>3, <1>4, <2>2
  <2>5. i \notin F
    BY <1>2, <1>3, <2>4
  <2> QED
    BY <2>3, <2>4, <2>5
<1> QED
  BY <1>8, <1>10, <1>11 DEF Places

----------------------------------------------------------------------------
(* The inductive invariant. *)

\* Where an entry is copied and not yet removed
Entry == {"lines", "eofs", "store_lines", "store_eofs", "advance", "last"}

ReadType ==
  [pc : {"idle", "begin", "loop", "return"} \cup Entry, caller : {"none", "trap", "direct"},
   task : Nat, nonblock : {0, 1}, len : Nat, copied : Nat, n : Nat, canonical : {0, 1}, c : Stored,
   saw_eof : {0, 1}, counter : Nat]

ConsoleType ==
  /\ g_rx_buf \in [Index -> Stored] /\ g_rx_head \in Index /\ g_rx_tail \in Index
  /\ g_rx_lines \in Nat /\ g_rx_eofs \in Nat
  /\ use \in Uses
  /\ r \in ReadType

\* The locals of a read: who called it, what it may still copy, and the entry
\* it is at.  A counter that is about to be decremented is not 0.
ReadInv ==
  /\ r.pc = "idle" <=> r.caller = "none"
  /\ r.pc # "idle" => r.caller \in use.callers /\ r.copied < r.len
  /\ r.caller = "direct" => r.len = 1 /\ r.copied = 0 /\ r.nonblock = 1
  /\ r.pc \in {"idle", "begin"} => r.n = 0
  /\ r.pc \in {"lines", "store_lines"} => r.c = "nl"
  /\ r.pc \in {"eofs", "store_eofs"} => r.c = "eof" /\ r.canonical = 1
  /\ r.pc \in {"lines", "store_lines", "advance"} => r.n # 0
  /\ r.pc \in {"eofs", "store_eofs", "last", "return"} => r.n # 0 \/ r.saw_eof = 1
  /\ r.pc = "lines" => g_rx_lines # 0
  /\ r.pc = "eofs" => g_rx_eofs # 0
  /\ r.pc \in {"store_lines", "store_eofs"} => r.counter # 0

\* A read that is not interrupted is at the first entry.
AtFirst == g_rx_head # g_rx_tail /\ g_rx_buf[g_rx_tail] = r.c
TrapInv == r.pc \in Entry /\ r.caller = "trap" => AtFirst

\* 1 while an entry c is counted no more and not yet removed
Gone(c) == IF r.pc \in {"advance", "last"} /\ r.c = c THEN 1 ELSE 0

LinesInv ==
  OnlyTrap => /\ g_rx_lines + Gone("nl") = Unread("nl")
              /\ r.pc = "store_lines" => r.counter = g_rx_lines
EofsInv ==
  OnlyTrap /\ OnlyCanonical => /\ g_rx_eofs + Gone("eof") = Unread("eof")
                               /\ r.pc = "store_eofs" => r.counter = g_rx_eofs

Pending == Unread("nl") # 0 \/ Unread("eof") # 0

\* Canonical mode.  The two counters are never too large, although the handler
\* can come between the load and the store of the init task; so there is a line
\* or an end of file behind what a read begins with, which editing leaves.
CanonicalInv ==
  OnlyCanonical =>
    /\ Canonical
    /\ r.pc \notin {"idle", "begin"} => r.canonical = 1
    /\ g_rx_lines + Gone("nl") <= Unread("nl")
    /\ g_rx_eofs + Gone("eof") <= Unread("eof")
    /\ r.pc = "store_lines" => r.counter <= Unread("nl")
    /\ r.pc = "store_eofs" => r.counter <= Unread("eof")
    /\ r.pc = "loop" /\ r.n = 0 => Pending
    /\ r.pc \in Entry /\ r.caller = "direct" => Pending /\ AtFirst

ConsoleInv == ConsoleType /\ ReadInv /\ TrapInv /\ LinesInv /\ EofsInv /\ CanonicalInv

----------------------------------------------------------------------------
(* What the handler and the reader do to the entries that are counted. *)

\* The same after a step
LEMMA MarksNextIs ==
  ASSUME NEW CONSTANT c
  PROVE  /\ Marks(c)' = {j \in Places(g_rx_head', g_rx_tail') : g_rx_buf'[j] = c}
         /\ Unread(c)' = Cardinality(Marks(c)')
         /\ Unread(c)' \in Nat
<1>1. Marks(c)' = {j \in Places(g_rx_head', g_rx_tail') : g_rx_buf'[j] = c}
  BY DEF Marks, Places, Offset, Count
<1>2. IsFiniteSet(Index)
  BY FS_Interval, ConsoleAssumption DEF Index
<1>3. IsFiniteSet(Marks(c)')
  BY <1>1, <1>2, FS_Subset DEF Places
<1>4. Unread(c)' = Cardinality(Marks(c)')
  BY DEF Unread
<1> QED
  BY <1>1, <1>3, <1>4, FS_CardinalityType

\* What is not touched is counted as before.
LEMMA SameUnread ==
  ASSUME NEW CONSTANT c, UNCHANGED buffer
  PROVE  Unread(c)' = Unread(c) /\ Unread(c) \in Nat
BY MarksIs, Zenon DEF Unread, Marks, Offset, Count, buffer

\* What console_rx_feed does: a newline or an end of file is stored and counted
\* or neither, none of them is taken away, and the entry at the tail stays if a
\* line or an end of file is somewhere behind it.
Fed ==
  /\ g_rx_buf' \in [Index -> Stored] /\ g_rx_head' \in Index
  /\ g_rx_lines' \in Nat /\ g_rx_eofs' \in Nat
  /\ \E k \in {0, 1} : /\ g_rx_lines' = g_rx_lines + k
                       /\ Unread("nl")' = Unread("nl") + k
  /\ \E k \in {0, 1} : /\ g_rx_eofs' = g_rx_eofs + k
                       /\ Unread("eof")' = Unread("eof") + k
  /\ Pending => g_rx_buf'[g_rx_tail] = g_rx_buf[g_rx_tail] /\ g_rx_head' # g_rx_tail

\* A head that leaves the lines and ends of file where they are
Spares(h) ==
  h \in Index /\ \A e \in {"nl", "eof"} :
                    {j \in Places(h, g_rx_tail) : g_rx_buf[j] = e} = Marks(e)

\* Editing is such a head.
LEMMA EditingSpares ==
  ASSUME ConsoleType, NEW k \in Nat
  PROVE  Spares(Popped(k)) /\ Spares(g_rx_head)
<1>1. g_rx_head \in Index /\ g_rx_tail \in Index
  BY DEF ConsoleType
<1>2. Spares(g_rx_head)
  BY <1>1, MarksIs DEF Spares
<1>3. ASSUME NEW e \in {"nl", "eof"}
      PROVE  {j \in Places(Popped(k), g_rx_tail) : g_rx_buf[j] = e} = Marks(e)
  BY <1>1, MarksIs, PoppedIs
<1> QED
  BY <1>1, <1>2, <1>3, PoppedIs DEF Spares

\* Behind such a head there is an entry if there is a line or an end of file.
LEMMA SparesPending ==
  ASSUME ConsoleType, NEW h, Spares(h), Pending
  PROVE  h # g_rx_tail
<1>1. \E e \in {"nl", "eof"} : Marks(e) # {}
  BY MarksIs DEF Pending
<1>2. Places(h, g_rx_tail) # {}
  BY <1>1 DEF Spares
<1> QED
  BY <1>2, PlacesOfNone DEF ConsoleType

LEMMA KeepFeeds ==
  ASSUME ConsoleType, NEW h, Spares(h), Keep(h), UNCHANGED g_rx_tail
  PROVE  Fed
<1>1. ASSUME NEW CONSTANT e \in {"nl", "eof"} PROVE Unread(e)' = Unread(e) /\ Unread(e) \in Nat
  <2>1. Marks(e)' = Marks(e)
    BY MarksNextIs, Zenon DEF Keep, Spares
  <2> QED
    BY <2>1, MarksIs, MarksNextIs DEF Unread
<1>2. Pending => g_rx_head' # g_rx_tail
  BY SparesPending DEF Keep
<1> QED
  BY <1>1, <1>2 DEF Keep, Fed, ConsoleType, Spares

LEMMA EnqueueFeeds ==
  ASSUME ConsoleType, NEW h, Spares(h), NEW CONSTANT c \in Stored,
         Enqueue(h, c), UNCHANGED g_rx_tail
  PROVE  Fed
<1>0. h \in Index /\ g_rx_tail \in Index
  BY DEF Spares, ConsoleType
<1>1. CASE Succ(h) = g_rx_tail
  BY <1>1, KeepFeeds DEF Enqueue, Keep
<1>2. CASE Succ(h) # g_rx_tail
  <2>1. /\ Succ(h) \in Index /\ h \notin Places(h, g_rx_tail)
        /\ Places(Succ(h), g_rx_tail) = Places(h, g_rx_tail) \cup {h}
    BY <1>0, <1>2, PlacesAfterHead
  <2>2. /\ g_rx_buf' = [g_rx_buf EXCEPT ![h] = c] /\ g_rx_head' = Succ(h)
        /\ g_rx_lines' = IF c = "nl" THEN g_rx_lines + 1 ELSE g_rx_lines
        /\ g_rx_eofs' = IF c = "eof" THEN g_rx_eofs + 1 ELSE g_rx_eofs
    BY <1>2 DEF Enqueue
  <2>3. ASSUME NEW CONSTANT e \in {"nl", "eof"}
        PROVE  /\ Unread(e) \in Nat
               /\ Unread(e)' = IF c = e THEN Unread(e) + 1 ELSE Unread(e)
    <3>1. Marks(e)' = {j \in Places(h, g_rx_tail) \cup {h} : g_rx_buf'[j] = e}
      BY <2>1, <2>2, MarksNextIs
    <3>2. Marks(e) = {j \in Places(h, g_rx_tail) : g_rx_buf[j] = e}
      BY DEF Spares
    <3>3. Places(h, g_rx_tail) \subseteq Index /\ g_rx_buf \in [Index -> Stored]
      BY DEF Places, ConsoleType
    <3>4. h \notin Marks(e)
      BY <2>1, <3>2
    <3>5. Marks(e)' = IF c = e THEN Marks(e) \cup {h} ELSE Marks(e)
      BY <1>0, <2>1, <2>2, <3>1, <3>2, <3>3
    <3>6. IsFiniteSet(Marks(e)) /\ Unread(e) \in Nat
      BY MarksIs
    <3>7. Cardinality(Marks(e) \cup {h}) = Cardinality(Marks(e)) + 1
      BY <3>4, <3>6, FS_AddElement
    <3> QED
      BY <3>5, <3>6, <3>7, MarksNextIs DEF Unread
  <2>4. Pending => h # g_rx_tail
    BY SparesPending
  <2>5. g_rx_buf' \in [Index -> Stored] /\ g_rx_lines' \in Nat /\ g_rx_eofs' \in Nat
    <3>1. g_rx_buf' \in [Index -> Stored]
      BY <1>0, <2>2 DEF ConsoleType
    <3>2. g_rx_lines' \in Nat /\ g_rx_eofs' \in Nat
      BY <2>2 DEF ConsoleType
    <3> QED
      BY <3>1, <3>2
  <2>6. \E k \in {0, 1} : g_rx_lines' = g_rx_lines + k /\ Unread("nl")' = Unread("nl") + k
    BY <2>2, <2>3 DEF ConsoleType
  <2>7. \E k \in {0, 1} : g_rx_eofs' = g_rx_eofs + k /\ Unread("eof")' = Unread("eof") + k
    BY <2>2, <2>3 DEF ConsoleType
  <2> QED
    BY <1>0, <1>2, <2>1, <2>2, <2>4, <2>5, <2>6, <2>7 DEF Fed, ConsoleType
<1> QED
  BY <1>1, <1>2

LEMMA FeedFeeds ==
  ASSUME ConsoleType, NEW CONSTANT c \in Typed, Feed(c)
  PROVE  Fed
<1>1. Cap \in Nat /\ 1 \in Nat
  BY ConsoleAssumption
<1>2. Spares(Popped(Cap)) /\ Spares(Popped(1)) /\ Spares(g_rx_head)
  BY <1>1, EditingSpares
<1>3. UNCHANGED g_rx_tail
  BY DEF Feed
<1>4. ASSUME NEW CONSTANT e \in Stored, NEW h, Spares(h), Enqueue(h, e) PROVE Fed
  BY <1>3, <1>4, EnqueueFeeds
<1>5. ASSUME NEW h, Spares(h), Keep(h) PROVE Fed
  BY <1>3, <1>5, KeepFeeds
<1>6. CASE c = "intr" /\ "ISIG" \in g_tty_lflag
  BY <1>2, <1>4, <1>6 DEF Feed, Stored
<1>7. CASE c = "kill" /\ Canonical
  BY <1>2, <1>5, <1>7 DEF Feed
<1>8. CASE c = "erase" /\ Canonical
  BY <1>2, <1>5, <1>8 DEF Feed
<1>9. CASE c = "nul"
  BY <1>2, <1>5, <1>9 DEF Feed
<1>10. CASE /\ ~(c = "intr" /\ "ISIG" \in g_tty_lflag) /\ ~(c = "kill" /\ Canonical)
            /\ ~(c = "erase" /\ Canonical) /\ c # "nul"
  <2> DEFINE e == IF c \in Stored THEN c ELSE "data"
  <2>1. e \in Stored
    BY DEF Stored
  <2>2. Enqueue(g_rx_head, e)
    BY <1>10 DEF Feed
  <2> HIDE DEF e
  <2> QED
    BY <1>2, <1>4, <2>1, <2>2
<1> QED
  BY <1>6, <1>7, <1>8, <1>9, <1>10

\* What the store of g_rx_tail does
LEMMA AdvanceTakes ==
  ASSUME ConsoleType, Advance
  PROVE  /\ g_rx_tail' \in Index
         /\ g_rx_head # g_rx_tail =>
              \A e \in {"nl", "eof"} :
                /\ Unread(e) \in Nat
                /\ Unread(e)' = IF g_rx_buf[g_rx_tail] = e THEN Unread(e) - 1 ELSE Unread(e)
<1>0. /\ g_rx_head \in Index /\ g_rx_tail \in Index
      /\ g_rx_tail' = Succ(g_rx_tail) /\ UNCHANGED <<g_rx_buf, g_rx_head>>
  BY DEF ConsoleType, Advance
<1>1. g_rx_tail' \in Index
  <2>1. Succ(g_rx_tail) = IF g_rx_tail = Cap - 1 THEN 0 ELSE g_rx_tail + 1
    BY <1>0, Arith
  <2>2. Cap \in Nat \ {0, 1} /\ g_rx_tail \in 0 .. Cap - 1
    BY <1>0, Arith
  <2> QED
    BY <1>0, <2>1, <2>2 DEF Index
<1>2. ASSUME g_rx_head # g_rx_tail, NEW CONSTANT e \in {"nl", "eof"}
      PROVE  /\ Unread(e) \in Nat
             /\ Unread(e)' = IF g_rx_buf[g_rx_tail] = e THEN Unread(e) - 1 ELSE Unread(e)
  <2>1. /\ Places(g_rx_head, g_rx_tail') = Places(g_rx_head, g_rx_tail) \ {g_rx_tail}
        /\ g_rx_tail \in Places(g_rx_head, g_rx_tail)
    BY <1>0, <1>2, PlacesAfterTail
  <2>2. Marks(e)' = Marks(e) \ {g_rx_tail}
    BY <1>0, <2>1, MarksIs, MarksNextIs
  <2>3. g_rx_tail \in Marks(e) <=> g_rx_buf[g_rx_tail] = e
    BY <2>1, MarksIs
  <2>4. IsFiniteSet(Marks(e)) /\ Unread(e) \in Nat
    BY MarksIs
  <2>5. Cardinality(Marks(e) \ {g_rx_tail}) = IF g_rx_tail \in Marks(e) THEN Cardinality(Marks(e)) - 1
                                                                      ELSE Cardinality(Marks(e))
    BY <2>4, FS_RemoveElement
  <2> QED
    BY <2>2, <2>3, <2>4, <2>5, MarksNextIs DEF Unread
<1> QED
  BY <1>1, <1>2

\* A line or an end of file at the tail is counted by Unread.
LEMMA FirstIsUnread ==
  ASSUME ConsoleType, g_rx_head # g_rx_tail
  PROVE  /\ Unread(g_rx_buf[g_rx_tail]) # 0
         /\ At(1) = g_rx_buf[g_rx_tail]
         /\ Count # 0
<1>0. g_rx_head \in Index /\ g_rx_tail \in Index
  BY DEF ConsoleType
<1>1. g_rx_tail \in Places(g_rx_head, g_rx_tail)
  BY <1>0, PlacesAfterTail
<1>2. Marks(g_rx_buf[g_rx_tail]) # {}
  BY <1>1, MarksIs
<1>3. Unread(g_rx_buf[g_rx_tail]) # 0
  BY <1>2, MarksIs
<1>4. Cap \in Nat \ {0, 1} /\ g_rx_tail \in 0 .. Cap - 1 /\ g_rx_head \in 0 .. Cap - 1
  BY <1>0, Arith
<1>5. (g_rx_tail + 1 - 1) % Cap = g_rx_tail
  <2>1. g_rx_tail + 1 - 1 = g_rx_tail
    BY <1>4
  <2> QED
    BY <1>4, <2>1, Turn
<1>6. Count = IF g_rx_tail <= g_rx_head THEN g_rx_head - g_rx_tail ELSE g_rx_head - g_rx_tail + Cap
  BY <1>0, Arith DEF Count
<1>7. Count # 0
  BY <1>4, <1>6
<1> QED
  BY <1>3, <1>5, <1>7 DEF At

----------------------------------------------------------------------------
(* Every step keeps the invariant. *)

LEMMA ConsoleInit == Init => ConsoleInv
<1> SUFFICES ASSUME Init PROVE ConsoleInv
  OBVIOUS
<1>0. Cap \in Nat \ {0, 1} /\ 0 \in Index
  BY ConsoleAssumption DEF Index
<1>1. ConsoleType
  BY <1>0 DEF Init, ConsoleType, ReadType, Idle, Stored
<1>2. ASSUME NEW c PROVE Unread(c) = 0
  <2>1. Places(0, 0) = {}
    BY <1>0, PlacesOfNone
  <2>2. Marks(c) = {}
    BY <2>1, MarksIs DEF Init
  <2> QED
    BY <2>2, MarksIs
<1>3. r.pc = "idle" /\ r.caller = "none" /\ r.n = 0
  BY DEF Init, Idle
<1>4. ReadInv /\ TrapInv
  BY <1>3 DEF ReadInv, TrapInv, Entry
<1>5. LinesInv /\ EofsInv /\ CanonicalInv
  BY <1>2, <1>3 DEF LinesInv, EofsInv, CanonicalInv, Gone, Entry, Init, Canonical
<1> QED
  BY <1>1, <1>4, <1>5 DEF ConsoleInv

LEMMA FeedStep ==
  ASSUME ConsoleInv, NEW CONSTANT c \in Typed, Feed(c)
  PROVE  ConsoleInv'
<1> USE DEF ConsoleInv
<1>0. Fed
  BY FeedFeeds
<1>1. UNCHANGED <<g_rx_tail, g_tty_lflag, use, r, ret>> /\ r.caller # "trap"
  BY DEF Feed
<1>2. Unread("nl") \in Nat /\ Unread("eof") \in Nat
  BY MarksIs
<1>3. ConsoleType'
  BY <1>0, <1>1 DEF ConsoleType, Fed
<1>4. ReadInv'
  BY <1>0, <1>1 DEF ReadInv, Fed, ConsoleType
<1>5. TrapInv'
  BY <1>1 DEF TrapInv
<1>6. r.caller = "direct" \/ r.pc = "idle"
  BY <1>1 DEF ReadInv, ConsoleType, ReadType
<1>7. OnlyTrap => r.pc = "idle"
  BY <1>6 DEF ReadInv, OnlyTrap
<1>8. Gone("nl")' = Gone("nl") /\ Gone("eof")' = Gone("eof")
  BY <1>1 DEF Gone
<1>9. LinesInv' /\ EofsInv'
  BY <1>0, <1>1, <1>2, <1>7, <1>8 DEF LinesInv, EofsInv, OnlyTrap, OnlyCanonical, Fed, ConsoleType, Gone
<1>10. CanonicalInv'
  <2> SUFFICES ASSUME OnlyCanonical' PROVE CanonicalInv'
    BY DEF CanonicalInv
  <2>1. OnlyCanonical
    BY <1>1 DEF OnlyCanonical
  <2>2. Pending => Pending'
    <3>1. /\ Unread("nl")' \in {Unread("nl"), Unread("nl") + 1}
          /\ Unread("eof")' \in {Unread("eof"), Unread("eof") + 1}
      BY <1>0, <1>2 DEF Fed
    <3> QED
      BY <1>2, <3>1 DEF Pending
  <2>3. Pending /\ AtFirst => AtFirst'
    BY <1>0, <1>1 DEF AtFirst, Fed
  <2>5. Gone("nl") \in {0, 1} /\ Gone("eof") \in {0, 1}
    BY DEF Gone
  <2>6. /\ g_rx_lines' + Gone("nl")' <= Unread("nl")'
        /\ g_rx_eofs' + Gone("eof")' <= Unread("eof")'
    BY <1>0, <1>2, <1>8, <2>1, <2>5 DEF CanonicalInv, Fed, ConsoleType
  <2>7. /\ r'.pc = "store_lines" => r'.counter <= Unread("nl")'
        /\ r'.pc = "store_eofs" => r'.counter <= Unread("eof")'
    BY <1>0, <1>1, <1>2, <2>1 DEF CanonicalInv, Fed, ConsoleType, ReadType
  <2>8. Canonical' /\ (r'.pc \notin {"idle", "begin"} => r'.canonical = 1)
    BY <1>1, <2>1 DEF CanonicalInv, Canonical
  <2>9. /\ r'.pc = "loop" /\ r'.n = 0 => Pending'
        /\ r'.pc \in Entry /\ r'.caller = "direct" => Pending' /\ AtFirst'
    BY <1>1, <2>1, <2>2, <2>3 DEF CanonicalInv
  <2> QED
    BY <2>6, <2>7, <2>8, <2>9 DEF CanonicalInv
<1> QED
  BY <1>3, <1>4, <1>5, <1>9, <1>10

\* What the steps that leave the buffer and the counters alone have to show
LEMMA LocalStep ==
  ASSUME ConsoleInv, UNCHANGED <<buffer, g_rx_lines, g_rx_eofs, use>>,
         r' \in ReadType, ReadInv',
         r'.pc \in {"idle", "begin", "loop"},
         r.pc \in {"idle", "begin", "loop", "return"},
         OnlyCanonical => /\ Canonical'
                          /\ r'.pc = "loop" => r'.canonical = 1
                          /\ r'.pc = "loop" /\ r'.n = 0 => Pending
  PROVE  ConsoleInv'
<1> USE DEF ConsoleInv
<1>1. /\ Unread("nl")' = Unread("nl") /\ Unread("eof")' = Unread("eof")
      /\ Unread("nl") \in Nat /\ Unread("eof") \in Nat
  BY SameUnread
<1>2. ConsoleType'
  BY DEF ConsoleType, buffer
<1>3. r'.pc \notin Entry /\ r'.pc \notin {"advance", "last"}
  BY DEF Entry
<1>4. TrapInv'
  BY <1>3 DEF TrapInv
<1>5. /\ Gone("nl") = 0 /\ Gone("eof") = 0
      /\ Gone("nl")' = 0 /\ Gone("eof")' = 0
  BY DEF Gone
<1>6. LinesInv' /\ EofsInv'
  BY <1>1, <1>5 DEF LinesInv, EofsInv, OnlyTrap, OnlyCanonical
<1>7. Pending' <=> Pending
  BY <1>1 DEF Pending
<1>8. CanonicalInv'
  <2> SUFFICES ASSUME OnlyCanonical' PROVE CanonicalInv'
    BY DEF CanonicalInv
  <2>1. OnlyCanonical
    BY DEF OnlyCanonical
  <2>2. /\ g_rx_lines' + Gone("nl")' <= Unread("nl")'
        /\ g_rx_eofs' + Gone("eof")' <= Unread("eof")'
    BY <1>1, <1>5, <2>1 DEF CanonicalInv
  <2> QED
    BY <1>3, <1>7, <2>1, <2>2 DEF CanonicalInv
<1> QED
  BY <1>2, <1>4, <1>6, <1>8

\* A chunk is at least one byte and at most what is left.
LEMMA WantIs ==
  ASSUME r \in ReadType, r.copied < r.len
  PROVE  Want \in 1 .. r.len - r.copied
<1> DEFINE left == r.len - r.copied
<1>1. left \in Nat \ {0} /\ Chunk \in Nat \ {0}
  BY ConsoleAssumption DEF ReadType
<1>2. Want = Min({left, Chunk})
  BY DEF Want
<1> HIDE DEF left
<1>3. \E x \in {left, Chunk} : \A y \in {left, Chunk} : x <= y
  BY <1>1
<1>4. Want \in {left, Chunk} /\ \A y \in {left, Chunk} : Want <= y
  BY <1>2, <1>3 DEF Min
<1>5. Want \in 1 .. left
  BY <1>1, <1>4
<1> QED
  BY <1>5 DEF left

\* What SYS_READ does after console_read
LEMMA ResultStep ==
  ASSUME ConsoleInv, NEW b \in BOOLEAN, Result(b), r.pc \in {"begin", "loop", "return"},
         UNCHANGED <<buffer, g_rx_lines, g_rx_eofs, g_tty_lflag, use>>
  PROVE  ConsoleInv'
<1> USE DEF ConsoleInv
<1>0. r \in ReadType
  BY DEF ConsoleType
<1>1. r.caller \in use.callers /\ r.copied < r.len /\ r.caller # "none"
  BY DEF ReadInv
<1>2. Want \in 1 .. r.len - r.copied
  BY <1>0, <1>1, WantIs
<1> DEFINE copied == r.copied + r.n
           more == ~b /\ r.n = Want /\ copied < r.len
<1>3. OnlyCanonical => Canonical'
  BY DEF CanonicalInv, Canonical
<1>4. CASE more
  <2>1. r' = [r EXCEPT !.pc = "begin", !.copied = copied, !.n = 0]
    BY <1>4 DEF Result
  <2>2. /\ r'.pc = "begin" /\ r'.caller = r.caller /\ r'.copied = copied /\ r'.len = r.len
        /\ r'.n = 0 /\ r'.nonblock = r.nonblock
    BY <1>0, <2>1 DEF ReadType
  <2>3. r' \in ReadType
    <3>1. copied \in Nat
      BY <1>0 DEF ReadType
    <3> HIDE DEF copied
    <3> QED
      BY <1>0, <2>1, <3>1, Zenon DEF ReadType
  <2>4. r.caller # "direct"
    BY <1>0, <1>2, <1>4 DEF ReadInv, ReadType
  <2>5. ReadInv'
    BY <1>1, <1>4, <2>2, <2>4 DEF ReadInv
  <2> QED
    BY <1>3, <2>2, <2>3, <2>5, LocalStep
<1>5. CASE ~more
  <2>1. r' = Idle
    BY <1>5 DEF Result
  <2>2. r'.pc = "idle" /\ r'.caller = "none" /\ r'.n = 0 /\ r' \in ReadType
    BY <2>1 DEF Idle, ReadType, Stored
  <2>3. ReadInv'
    BY <2>2 DEF ReadInv
  <2> QED
    BY <1>3, <2>2, <2>3, LocalStep
<1> QED
  BY <1>4, <1>5

LEMMA BeginStep ==
  ASSUME ConsoleInv, Begin
  PROVE  ConsoleInv'
<1> USE DEF ConsoleInv
<1>0. r \in ReadType /\ r.pc = "begin"
  BY DEF ConsoleType, Begin
<1>1. UNCHANGED <<buffer, g_rx_lines, g_rx_eofs, g_tty_lflag, use>>
  BY DEF Begin
<1>2. CASE Canonical /\ g_rx_lines = 0 /\ g_rx_eofs = 0
  <2>1. NothingYet
    BY <1>2 DEF Begin
  <2>2. \E b \in BOOLEAN : Result(b)
    BY <2>1, Zenon DEF NothingYet
  <2> QED
    BY <1>0, <1>1, <2>2, ResultStep
<1>3. CASE ~(Canonical /\ g_rx_lines = 0 /\ g_rx_eofs = 0)
  <2>1. r' = [r EXCEPT !.pc = "loop", !.canonical = IF Canonical THEN 1 ELSE 0]
    BY <1>3 DEF Begin
  <2>2. /\ r'.pc = "loop" /\ r'.caller = r.caller /\ r'.copied = r.copied /\ r'.len = r.len
        /\ r'.n = r.n /\ r'.nonblock = r.nonblock /\ r'.canonical = IF Canonical THEN 1 ELSE 0
    BY <1>0, <2>1 DEF ReadType
  <2>3. r' \in ReadType
    BY <1>0, <2>1, Zenon DEF ReadType
  <2>4. ReadInv'
    BY <1>0, <1>1, <2>2 DEF ReadInv
  <2>5. ASSUME OnlyCanonical
        PROVE  Canonical' /\ r'.canonical = 1 /\ Pending
    <3>1. Canonical /\ Canonical'
      BY <1>1, <2>5 DEF CanonicalInv, Canonical
    <3>3. Gone("nl") = 0 /\ Gone("eof") = 0
      BY <1>0 DEF Gone
    <3>4. Unread("nl") \in Nat /\ Unread("eof") \in Nat
      BY MarksIs
    <3>5. Pending
      BY <1>3, <2>5, <3>1, <3>3, <3>4 DEF CanonicalInv, Pending, ConsoleType
    <3> QED
      BY <2>1, <2>2, <3>1, <3>5
  <2> QED
    BY <1>0, <1>1, <2>1, <2>2, <2>3, <2>4, <2>5, LocalStep
<1> QED
  BY <1>2, <1>3

\* In canonical mode a read that has come to its loop returns something: it
\* does not sleep there.
LEMMA ReturnsSome ==
  ASSUME ConsoleInv, Return, OnlyCanonical
  PROVE  r.n # 0 \/ r.saw_eof = 1
<1> SUFFICES ASSUME ~(r.n # 0 \/ r.saw_eof = 1) PROVE FALSE
  OBVIOUS
<1> USE DEF ConsoleInv
<1>0. r \in ReadType /\ r.pc \in {"loop", "return"}
  BY DEF ConsoleType, Return
<1>1. r.pc = "loop" /\ r.copied < r.len
  BY <1>0 DEF ReadInv
<1>2. Want \in 1 .. r.len - r.copied
  BY <1>0, <1>1, WantIs
<1>3. g_rx_tail = g_rx_head
  BY <1>0, <1>1, <1>2 DEF Return, ReadType
<1>4. ~Pending
  <2>1. Places(g_rx_head, g_rx_tail) = {}
    BY <1>3, PlacesOfNone DEF ConsoleType
  <2>2. Marks("nl") = {} /\ Marks("eof") = {}
    BY <2>1, MarksIs
  <2> QED
    BY <2>2, MarksIs DEF Pending
<1> QED
  BY <1>1, <1>4 DEF CanonicalInv

LEMMA ReturnStep ==
  ASSUME ConsoleInv, Return
  PROVE  ConsoleInv'
<1>1. r.pc \in {"begin", "loop", "return"} /\ \E b \in BOOLEAN : Result(b)
  BY Zenon DEF Return, NothingYet
<1>2. UNCHANGED <<buffer, g_rx_lines, g_rx_eofs, g_tty_lflag, use>>
  BY DEF Return
<1> QED
  BY <1>1, <1>2, ResultStep

LEMMA CallStep ==
  ASSUME ConsoleInv,
         \/ InitRead
         \/ \E t \in Readers, len \in Lens, nonblock \in {0, 1} : SysRead(t, len, nonblock)
         \/ \E f \in SUBSET {"ICANON", "ISIG"} : SetLflag(f)
  PROVE  ConsoleInv'
<1> USE DEF ConsoleInv
<1>1. CASE InitRead
  <2>1. /\ r' = [Idle EXCEPT !.pc = "begin", !.caller = "direct", !.len = 1, !.nonblock = 1]
        /\ "direct" \in use.callers /\ r.pc = "idle"
        /\ UNCHANGED <<buffer, g_rx_lines, g_rx_eofs, g_tty_lflag, use>>
    BY <1>1 DEF InitRead
  <2>2. /\ r'.pc = "begin" /\ r'.caller = "direct" /\ r'.len = 1 /\ r'.nonblock = 1
        /\ r'.copied = 0 /\ r'.n = 0 /\ r' \in ReadType
    BY <2>1, Zenon DEF Idle, ReadType, Stored
  <2>3. ReadInv'
    BY <2>1, <2>2 DEF ReadInv
  <2>4. OnlyCanonical => Canonical'
    BY <2>1 DEF CanonicalInv, Canonical
  <2> QED
    BY <2>1, <2>2, <2>3, <2>4, LocalStep
<1>2. CASE \E t \in Readers, len \in Lens, nonblock \in {0, 1} : SysRead(t, len, nonblock)
  <2>0. PICK t \in Readers, len \in Lens, nonblock \in {0, 1} : SysRead(t, len, nonblock)
    BY <1>2
  <2>1. /\ r' = [Idle EXCEPT !.pc = "begin", !.caller = "trap", !.task = t, !.len = len,
                            !.nonblock = nonblock]
        /\ "trap" \in use.callers /\ r.pc = "idle"
        /\ UNCHANGED <<buffer, g_rx_lines, g_rx_eofs, g_tty_lflag, use>>
    BY <2>0 DEF SysRead
  <2>2. len \in Nat \ {0} /\ t \in Nat
    BY ConsoleAssumption
  <2>3. /\ r'.pc = "begin" /\ r'.caller = "trap" /\ r'.len = len
        /\ r'.copied = 0 /\ r'.n = 0 /\ r' \in ReadType
    BY <2>1, <2>2, Zenon DEF Idle, ReadType, Stored
  <2>4. ReadInv'
    BY <2>1, <2>2, <2>3 DEF ReadInv
  <2>5. OnlyCanonical => Canonical'
    BY <2>1 DEF CanonicalInv, Canonical
  <2> QED
    BY <2>1, <2>3, <2>4, <2>5, LocalStep
<1>3. CASE \E f \in SUBSET {"ICANON", "ISIG"} : SetLflag(f)
  <2>1. /\ r.pc = "idle" /\ r' = r /\ g_tty_lflag' \in use.lflags
        /\ UNCHANGED <<buffer, g_rx_lines, g_rx_eofs, use>>
    BY <1>3 DEF SetLflag
  <2>2. ReadInv' /\ r' \in ReadType
    BY <2>1 DEF ReadInv, ConsoleType
  <2>3. OnlyCanonical => Canonical'
    BY <2>1 DEF CanonicalInv, Canonical, OnlyCanonical
  <2> QED
    BY <2>1, <2>2, <2>3, LocalStep
<1> QED
  BY <1>1, <1>2, <1>3

\* The load of an entry: the counter that covers it is not 0 while the counters
\* are exact, and is left alone when it is.
LEMMA LoadStep ==
  ASSUME ConsoleInv, Load
  PROVE  ConsoleInv'
<1> USE DEF ConsoleInv
<1> DEFINE c == g_rx_buf[g_rx_tail]
           eof == r.canonical = 1 /\ c = "eof"
<1>0. /\ r \in ReadType /\ r.pc = "loop" /\ g_rx_head # g_rx_tail /\ c \in Stored
      /\ g_rx_lines \in Nat /\ g_rx_eofs \in Nat
  BY DEF ConsoleType, Load
<1>1. UNCHANGED <<buffer, g_rx_lines, g_rx_eofs, g_tty_lflag, use>>
  BY DEF Load
<1>2. At(1) = c /\ Unread(c) # 0
  BY <1>0, FirstIsUnread
<1>3. /\ Unread("nl")' = Unread("nl") /\ Unread("eof")' = Unread("eof")
      /\ Unread("nl") \in Nat /\ Unread("eof") \in Nat
  BY <1>1, SameUnread
<1>4. r' = [r EXCEPT !.c = c, !.n = IF eof THEN r.n ELSE r.n + 1,
                     !.saw_eof = IF eof THEN 1 ELSE 0,
                     !.pc = IF eof THEN IF g_rx_eofs # 0 THEN "eofs" ELSE "last"
                            ELSE IF c = "nl" /\ g_rx_lines # 0 THEN "lines" ELSE "advance"]
  BY <1>2, Zenon DEF Load
<1> HIDE DEF c
<1>5. /\ r'.c = c /\ r'.n = (IF eof THEN r.n ELSE r.n + 1)
      /\ r'.saw_eof = (IF eof THEN 1 ELSE 0)
      /\ r'.pc = (IF eof THEN IF g_rx_eofs # 0 THEN "eofs" ELSE "last"
                  ELSE IF c = "nl" /\ g_rx_lines # 0 THEN "lines" ELSE "advance")
      /\ r'.caller = r.caller /\ r'.len = r.len /\ r'.copied = r.copied
      /\ r'.nonblock = r.nonblock /\ r'.canonical = r.canonical
  BY <1>0, <1>4 DEF ReadType
<1>6. r' \in ReadType
  <2>1. (IF eof THEN r.n ELSE r.n + 1) \in Nat
    BY <1>0 DEF ReadType
  <2> QED
    BY <1>0, <1>4, <2>1, Zenon DEF ReadType, Entry
<1>7. ConsoleType'
  BY <1>1, <1>6 DEF ConsoleType, buffer
<1>8. r.n \in Nat
  BY <1>0 DEF ReadType
<1>9. ReadInv'
  <2>1. CASE eof
    BY <1>0, <1>1, <1>5, <1>8, <2>1 DEF ReadInv
  <2>2. CASE ~eof /\ c = "nl" /\ g_rx_lines # 0
    BY <1>0, <1>1, <1>5, <1>8, <2>2 DEF ReadInv
  <2>3. CASE ~eof /\ ~(c = "nl" /\ g_rx_lines # 0)
    BY <1>0, <1>1, <1>5, <1>8, <2>3 DEF ReadInv
  <2> QED
    BY <2>1, <2>2, <2>3
<1>10. AtFirst'
  BY <1>0, <1>1, <1>5 DEF AtFirst, buffer, c
<1>11. TrapInv'
  BY <1>10 DEF TrapInv
<1>12. Gone("nl") = 0 /\ Gone("eof") = 0
  BY <1>0 DEF Gone
<1>13. LinesInv'
  <2> SUFFICES ASSUME OnlyTrap' PROVE LinesInv'
    BY DEF LinesInv
  <2>1. g_rx_lines = Unread("nl")
    BY <1>0, <1>1, <1>12 DEF LinesInv, OnlyTrap
  <2>2. Gone("nl")' = 0
    BY <1>2, <1>5, <2>1 DEF Gone
  <2> QED
    BY <1>0, <1>1, <1>3, <1>5, <2>1, <2>2 DEF LinesInv
<1>14. EofsInv'
  <2> SUFFICES ASSUME OnlyTrap', OnlyCanonical' PROVE EofsInv'
    BY DEF EofsInv
  <2>1. g_rx_eofs = Unread("eof") /\ r.canonical = 1
    BY <1>0, <1>1, <1>12 DEF EofsInv, CanonicalInv, OnlyTrap, OnlyCanonical
  <2>2. Gone("eof")' = 0
    BY <1>2, <1>5, <2>1 DEF Gone
  <2> QED
    BY <1>0, <1>1, <1>3, <1>5, <2>1, <2>2 DEF EofsInv
<1>15. CanonicalInv'
  <2> SUFFICES ASSUME OnlyCanonical' PROVE CanonicalInv'
    BY DEF CanonicalInv
  <2>2. OnlyCanonical /\ Canonical' /\ r'.canonical = 1
    BY <1>0, <1>1, <1>5 DEF CanonicalInv, OnlyCanonical, Canonical
  <2>3. /\ g_rx_lines <= Unread("nl") /\ g_rx_eofs <= Unread("eof")
    BY <1>0, <1>12, <2>2 DEF CanonicalInv
  <2>4. eof <=> c = "eof"
    BY <1>5, <2>2
  <2>5. g_rx_lines' + Gone("nl")' <= Unread("nl")'
    BY <1>0, <1>1, <1>2, <1>3, <1>5, <2>3, <2>4 DEF Gone
  <2>6. g_rx_eofs' + Gone("eof")' <= Unread("eof")'
    BY <1>0, <1>1, <1>2, <1>3, <1>5, <2>3, <2>4 DEF Gone
  <2>7. r'.pc \notin {"store_lines", "store_eofs", "loop"}
    BY <1>5
  <2>8. ASSUME r.caller = "direct" PROVE Pending'
    <3>1. r.copied = 0 /\ r.len = 1 /\ r.n < Want
      BY <2>8 DEF ReadInv, Load
    <3>2. Want \in 1 .. r.len - r.copied
      BY <1>0, <3>1, WantIs
    <3>3. r.n = 0
      BY <1>8, <3>1, <3>2
    <3>4. Pending
      BY <1>0, <2>2, <3>3 DEF CanonicalInv
    <3> QED
      BY <1>3, <3>4 DEF Pending
  <2> QED
    BY <1>5, <1>10, <2>2, <2>5, <2>6, <2>7, <2>8 DEF CanonicalInv
<1> QED
  BY <1>7, <1>9, <1>11, <1>13, <1>14, <1>15

\* The load of a counter.  What is stored later is one less than this value,
\* also when console_rx_feed has counted more by then.
LEMMA LoadCounterStep ==
  ASSUME ConsoleInv, LoadCounter
  PROVE  ConsoleInv'
<1> USE DEF ConsoleInv
<1> DEFINE n == IF r.pc = "lines" THEN g_rx_lines ELSE g_rx_eofs
<1>0. /\ r \in ReadType /\ r.pc \in {"lines", "eofs"} /\ n \in Nat
      /\ g_rx_lines \in Nat /\ g_rx_eofs \in Nat
  BY DEF ConsoleType, LoadCounter
<1>1. UNCHANGED <<buffer, g_rx_lines, g_rx_eofs, g_tty_lflag, use>>
  BY DEF LoadCounter
<1>2. /\ Unread("nl")' = Unread("nl") /\ Unread("eof")' = Unread("eof")
      /\ Unread("nl") \in Nat /\ Unread("eof") \in Nat
  BY <1>1, SameUnread
<1>3. r' = [r EXCEPT !.counter = n,
                     !.pc = IF r.pc = "lines" THEN "store_lines" ELSE "store_eofs"]
  BY DEF LoadCounter
<1>4. n = IF r.pc = "lines" THEN g_rx_lines ELSE g_rx_eofs
  OBVIOUS
<1> HIDE DEF n
<1>5. /\ r'.counter = n /\ r'.pc = (IF r.pc = "lines" THEN "store_lines" ELSE "store_eofs")
      /\ r'.caller = r.caller /\ r'.len = r.len /\ r'.copied = r.copied /\ r'.n = r.n
      /\ r'.nonblock = r.nonblock /\ r'.canonical = r.canonical /\ r'.c = r.c
      /\ r'.saw_eof = r.saw_eof
  BY <1>0, <1>3 DEF ReadType
<1>6. r' \in ReadType
  BY <1>0, <1>3, Zenon DEF ReadType, Entry
<1>7. ConsoleType'
  BY <1>1, <1>6 DEF ConsoleType, buffer
<1>8. ReadInv'
  BY <1>0, <1>1, <1>4, <1>5 DEF ReadInv
<1>9. AtFirst => AtFirst'
  BY <1>1, <1>5 DEF AtFirst, buffer
<1>10. r.pc \in Entry
  BY <1>0 DEF Entry
<1>11. TrapInv'
  BY <1>5, <1>9, <1>10 DEF TrapInv
<1>12. /\ Gone("nl") = 0 /\ Gone("eof") = 0
       /\ Gone("nl")' = 0 /\ Gone("eof")' = 0
  BY <1>0, <1>5 DEF Gone
<1>13. LinesInv'
  BY <1>0, <1>1, <1>2, <1>4, <1>5, <1>12 DEF LinesInv, OnlyTrap
<1>14. EofsInv'
  BY <1>0, <1>1, <1>2, <1>4, <1>5, <1>12 DEF EofsInv, OnlyTrap, OnlyCanonical
<1>15. CanonicalInv'
  <2> SUFFICES ASSUME OnlyCanonical' PROVE CanonicalInv'
    BY DEF CanonicalInv
  <2>1. OnlyCanonical
    BY <1>1 DEF OnlyCanonical
  <2>2. Canonical' /\ r'.canonical = 1
    BY <1>0, <1>1, <1>5, <2>1 DEF CanonicalInv, Canonical
  <2>3. /\ g_rx_lines' + Gone("nl")' <= Unread("nl")'
        /\ g_rx_eofs' + Gone("eof")' <= Unread("eof")'
    BY <1>1, <1>2, <1>12, <2>1 DEF CanonicalInv
  <2>4. /\ r'.pc = "store_lines" => r'.counter <= Unread("nl")'
        /\ r'.pc = "store_eofs" => r'.counter <= Unread("eof")'
    BY <1>0, <1>2, <1>4, <1>5, <1>12, <2>1 DEF CanonicalInv
  <2>5. r.caller = "direct" => Pending' /\ AtFirst'
    BY <1>2, <1>9, <1>10, <2>1 DEF CanonicalInv, Pending
  <2> QED
    BY <1>5, <2>2, <2>3, <2>4, <2>5 DEF CanonicalInv
<1> QED
  BY <1>7, <1>8, <1>11, <1>13, <1>14, <1>15

LEMMA StoreCounterStep ==
  ASSUME ConsoleInv, StoreCounter
  PROVE  ConsoleInv'
<1> USE DEF ConsoleInv
<1>0. /\ r \in ReadType /\ r.pc \in {"store_lines", "store_eofs"}
      /\ g_rx_lines \in Nat /\ g_rx_eofs \in Nat /\ r.counter \in Nat \ {0}
  BY DEF ConsoleType, StoreCounter, ReadInv, ReadType
<1>1. UNCHANGED <<buffer, g_tty_lflag, use>>
  BY DEF StoreCounter
<1>2. /\ Unread("nl")' = Unread("nl") /\ Unread("eof")' = Unread("eof")
      /\ Unread("nl") \in Nat /\ Unread("eof") \in Nat
  BY <1>1, SameUnread
<1>3. /\ r.pc = "store_lines" => g_rx_lines' = r.counter - 1 /\ g_rx_eofs' = g_rx_eofs
      /\ r.pc = "store_eofs" => g_rx_eofs' = r.counter - 1 /\ g_rx_lines' = g_rx_lines
      /\ r' = [r EXCEPT !.counter = 0, !.pc = IF r.canonical = 1 THEN "last" ELSE "advance"]
  BY <1>0 DEF StoreCounter
<1>4. /\ r'.counter = 0 /\ r'.pc = (IF r.canonical = 1 THEN "last" ELSE "advance")
      /\ r'.caller = r.caller /\ r'.len = r.len /\ r'.copied = r.copied /\ r'.n = r.n
      /\ r'.nonblock = r.nonblock /\ r'.canonical = r.canonical /\ r'.c = r.c
      /\ r'.saw_eof = r.saw_eof
  BY <1>0, <1>3 DEF ReadType
<1>5. r' \in ReadType
  BY <1>0, <1>3, Zenon DEF ReadType, Entry
<1>6. g_rx_lines' \in Nat /\ g_rx_eofs' \in Nat
  BY <1>0, <1>3
<1>7. ConsoleType'
  BY <1>1, <1>5, <1>6 DEF ConsoleType, buffer
<1>8. ReadInv'
  BY <1>0, <1>1, <1>4 DEF ReadInv
<1>9. AtFirst => AtFirst'
  BY <1>1, <1>4 DEF AtFirst, buffer
<1>10. r.pc \in Entry
  BY <1>0 DEF Entry
<1>11. TrapInv'
  BY <1>4, <1>9, <1>10 DEF TrapInv
<1>12. /\ Gone("nl") = 0 /\ Gone("eof") = 0
       /\ Gone("nl")' = (IF r.c = "nl" THEN 1 ELSE 0)
       /\ Gone("eof")' = (IF r.c = "eof" THEN 1 ELSE 0)
  BY <1>0, <1>4 DEF Gone
<1>13. (r.pc = "store_lines" => r.c = "nl") /\ (r.pc = "store_eofs" => r.c = "eof")
  BY DEF ReadInv
<1>14. LinesInv'
  BY <1>0, <1>1, <1>2, <1>3, <1>4, <1>12, <1>13 DEF LinesInv, OnlyTrap
<1>15. EofsInv'
  BY <1>0, <1>1, <1>2, <1>3, <1>4, <1>12, <1>13 DEF EofsInv, OnlyTrap, OnlyCanonical
<1>16. CanonicalInv'
  <2> SUFFICES ASSUME OnlyCanonical' PROVE CanonicalInv'
    BY DEF CanonicalInv
  <2>1. OnlyCanonical
    BY <1>1 DEF OnlyCanonical
  <2>2. Canonical' /\ r'.canonical = 1
    BY <1>0, <1>1, <1>4, <2>1 DEF CanonicalInv, Canonical
  <2>3. /\ g_rx_lines <= Unread("nl") /\ g_rx_eofs <= Unread("eof")
        /\ r.pc = "store_lines" => r.counter <= Unread("nl")
        /\ r.pc = "store_eofs" => r.counter <= Unread("eof")
    BY <1>0, <1>12, <2>1 DEF CanonicalInv
  <2>4. /\ g_rx_lines' + Gone("nl")' <= Unread("nl")'
        /\ g_rx_eofs' + Gone("eof")' <= Unread("eof")'
    BY <1>0, <1>2, <1>3, <1>12, <1>13, <2>3
  <2>5. r.caller = "direct" => Pending' /\ AtFirst'
    BY <1>2, <1>9, <1>10, <2>1 DEF CanonicalInv, Pending
  <2> QED
    BY <1>4, <2>2, <2>4, <2>5 DEF CanonicalInv
<1> QED
  BY <1>7, <1>8, <1>11, <1>14, <1>15, <1>16

LEMMA AdvanceStep ==
  ASSUME ConsoleInv, Advance
  PROVE  ConsoleInv'
<1> USE DEF ConsoleInv
<1>0. /\ r \in ReadType /\ r.pc \in {"advance", "last"}
      /\ g_rx_lines \in Nat /\ g_rx_eofs \in Nat
  BY DEF ConsoleType, Advance
<1>1. UNCHANGED <<g_rx_buf, g_rx_head, g_rx_lines, g_rx_eofs, g_tty_lflag, use>>
  BY DEF Advance
<1>2. r' = [r EXCEPT !.c = "data", !.pc = IF r.pc = "last" THEN "return" ELSE "loop"]
  BY DEF Advance
<1>3. /\ r'.c = "data" /\ r'.pc = (IF r.pc = "last" THEN "return" ELSE "loop")
      /\ r'.caller = r.caller /\ r'.len = r.len /\ r'.copied = r.copied /\ r'.n = r.n
      /\ r'.nonblock = r.nonblock /\ r'.canonical = r.canonical /\ r'.saw_eof = r.saw_eof
  BY <1>0, <1>2 DEF ReadType
<1>4. r' \in ReadType
  BY <1>0, <1>2, Zenon DEF ReadType, Stored
<1>5. ConsoleType'
  BY <1>1, <1>4, AdvanceTakes DEF ConsoleType
<1>6. ReadInv'
  BY <1>0, <1>1, <1>3 DEF ReadInv
<1>7. r.pc \in Entry /\ r'.pc \notin Entry
  BY <1>0, <1>3 DEF Entry
<1>8. TrapInv'
  BY <1>7 DEF TrapInv
<1>9. /\ Gone("nl") = (IF r.c = "nl" THEN 1 ELSE 0) /\ Gone("eof") = (IF r.c = "eof" THEN 1 ELSE 0)
      /\ Gone("nl")' = 0 /\ Gone("eof")' = 0
  BY <1>0, <1>3 DEF Gone
<1>10. r.caller \in {"trap", "direct"} /\ r.caller \in use.callers
  BY <1>0 DEF ReadInv, ReadType
<1>11. AtFirst => /\ Unread("nl") \in Nat /\ Unread("eof") \in Nat
                  /\ Unread("nl")' = Unread("nl") - Gone("nl")
                  /\ Unread("eof")' = Unread("eof") - Gone("eof")
  BY <1>9, AdvanceTakes DEF AtFirst
<1>12. OnlyTrap => AtFirst
  BY <1>7, <1>10 DEF OnlyTrap, TrapInv
<1>13. LinesInv'
  BY <1>0, <1>1, <1>3, <1>9, <1>11, <1>12 DEF LinesInv, OnlyTrap
<1>14. EofsInv'
  BY <1>0, <1>1, <1>3, <1>9, <1>11, <1>12 DEF EofsInv, OnlyTrap, OnlyCanonical
<1>15. CanonicalInv'
  <2> SUFFICES ASSUME OnlyCanonical' PROVE CanonicalInv'
    BY DEF CanonicalInv
  <2>1. OnlyCanonical
    BY <1>1 DEF OnlyCanonical
  <2>2. AtFirst
    BY <1>7, <1>10, <2>1 DEF CanonicalInv, TrapInv
  <2>3. Canonical' /\ r'.canonical = 1
    BY <1>0, <1>1, <1>3, <2>1 DEF CanonicalInv, Canonical
  <2>4. /\ g_rx_lines + Gone("nl") <= Unread("nl") /\ g_rx_eofs + Gone("eof") <= Unread("eof")
    BY <2>1 DEF CanonicalInv
  <2>5. /\ g_rx_lines' + Gone("nl")' <= Unread("nl")'
        /\ g_rx_eofs' + Gone("eof")' <= Unread("eof")'
    BY <1>0, <1>1, <1>9, <1>11, <2>2, <2>4
  <2>6. r'.pc = "loop" => r'.n # 0
    BY <1>0, <1>3 DEF ReadInv
  <2> QED
    BY <1>3, <1>7, <2>3, <2>5, <2>6 DEF CanonicalInv
<1> QED
  BY <1>5, <1>6, <1>8, <1>13, <1>14, <1>15

LEMMA ConsoleStep == ConsoleInv /\ [Next]_vars => ConsoleInv'
<1> SUFFICES ASSUME ConsoleInv, [Next]_vars PROVE ConsoleInv'
  OBVIOUS
<1>1. CASE Reader
  BY <1>1, BeginStep, LoadStep, LoadCounterStep, StoreCounterStep, AdvanceStep, ReturnStep
     DEF Reader
<1>2. CASE \E c \in Typed : Feed(c)
  BY <1>2, FeedStep
<1>3. CASE \/ InitRead
           \/ \E t \in Readers, len \in Lens, nonblock \in {0, 1} : SysRead(t, len, nonblock)
           \/ \E f \in SUBSET {"ICANON", "ISIG"} : SetLflag(f)
  BY <1>3, CallStep
<1>4. CASE UNCHANGED vars
  <2>1. UNCHANGED <<buffer, g_rx_lines, g_rx_eofs, g_tty_lflag, use, r>>
    BY <1>4 DEF vars
  <2>2. \A c : Unread(c)' = Unread(c)
    BY <2>1, SameUnread
  <2>3. ConsoleType' /\ ReadInv' /\ TrapInv'
    BY <2>1 DEF ConsoleInv, ConsoleType, ReadInv, TrapInv, AtFirst, buffer
  <2>4. LinesInv' /\ EofsInv'
    BY <2>1, <2>2 DEF ConsoleInv, LinesInv, EofsInv, OnlyTrap, OnlyCanonical, Gone
  <2>5. CanonicalInv'
    BY <2>1, <2>2 DEF ConsoleInv, CanonicalInv, OnlyCanonical, Canonical, Gone, Pending,
                      AtFirst, buffer
  <2> QED
    BY <2>3, <2>4, <2>5 DEF ConsoleInv
<1> QED
  BY <1>1, <1>2, <1>3, <1>4 DEF Next

LEMMA ConsoleInvariant == Spec => []ConsoleInv
BY ConsoleInit, ConsoleStep, PTL DEF Spec

\* While only system calls read the console, g_rx_lines and g_rx_eofs are the
\* numbers of newlines and ends of file in the buffer of console.c whenever no
\* read is going on: console_rx_feed counts exactly what it stores, editing
\* takes away nothing that is counted, and console_read uncounts what it takes.
THEOREM CountersCorrect == Spec => []CountersExact
<1>1. ConsoleInv => CountersExact
  <2> SUFFICES ASSUME ConsoleInv, OnlyTrap, r.pc = "idle"
               PROVE  /\ g_rx_lines = Unread("nl")
                      /\ OnlyCanonical => g_rx_eofs = Unread("eof")
    BY DEF CountersExact, LinesExact, EofsExact, Quiet
  <2>1. Gone("nl") = 0 /\ Gone("eof") = 0
    BY DEF Gone
  <2> QED
    BY <2>1 DEF ConsoleInv, ConsoleType, LinesInv, EofsInv
<1> QED
  BY <1>1, ConsoleInvariant, PTL

\* In canonical mode console_read removes the entry that it copied, also when
\* the init task reads and console_rx_feed runs between its steps: a line or an
\* end of file behind the entry keeps console_rx_pop_last_editable away from it.
THEOREM EditingTakesNothingRead == Spec => []TakesWhatItRead
<1>1. ConsoleInv => TakesWhatItRead
  <2> SUFFICES ASSUME ConsoleInv, OnlyCanonical, r.pc \in Entry
               PROVE  Count # 0 /\ At(1) = r.c
    BY DEF TakesWhatItRead, Entry
  <2>1. r.caller \in {"trap", "direct"}
    BY DEF ConsoleInv, ConsoleType, ReadInv, ReadType, Entry
  <2>2. AtFirst
    BY <2>1 DEF ConsoleInv, CanonicalInv, TrapInv
  <2> QED
    BY <2>2, FirstIsUnread DEF ConsoleInv, AtFirst
<1> QED
  BY <1>1, ConsoleInvariant, PTL

----------------------------------------------------------------------------
(* Wakeups. *)

\* A task is asleep or woken, not both.  A counter that is about to be stored
\* has not become smaller since it was loaded.
WakeInv ==
  /\ g_rx_waitq \subseteq Readers /\ woken \subseteq Readers /\ g_rx_waitq \cap woken = {}
  /\ r.caller = "trap" => r.task \in Readers
  /\ r.pc = "store_lines" => r.counter <= g_rx_lines
  /\ r.pc = "store_eofs" => r.counter <= g_rx_eofs
  /\ WakeupPerLine

Woken == Cardinality(woken)

\* Sets of readers are finite; a task more, or less, counts one.
LEMMA WokenIs ==
  ASSUME woken \subseteq Readers
  PROVE  /\ Woken \in Nat
         /\ \A t : t \notin woken => Cardinality(woken \cup {t}) = Woken + 1
         /\ \A t : Cardinality(woken \ {t}) \in Nat /\ Cardinality(woken \ {t}) >= Woken - 1
<1>1. IsFiniteSet(woken)
  BY ConsoleAssumption, FS_Subset
<1>2. Woken \in Nat
  BY <1>1, FS_CardinalityType DEF Woken
<1>3. ASSUME NEW t, t \notin woken PROVE Cardinality(woken \cup {t}) = Woken + 1
  BY <1>1, <1>3, FS_AddElement DEF Woken
<1>4. ASSUME NEW t PROVE Cardinality(woken \ {t}) \in Nat /\ Cardinality(woken \ {t}) >= Woken - 1
  <2>1. CASE t \in woken
    <3>1. Cardinality(woken \ {t}) = Woken - 1
      BY <1>1, <2>1, FS_RemoveElement DEF Woken
    <3>2. IsFiniteSet(woken \ {t})
      BY <1>1, <2>1, FS_RemoveElement
    <3>3. Cardinality(woken \ {t}) \in Nat
      BY <3>2, FS_CardinalityType
    <3> QED
      BY <1>2, <3>1, <3>3
  <2>2. CASE t \notin woken
    <3>1. woken \ {t} = woken
      BY <2>2
    <3> QED
      BY <1>2, <3>1 DEF Woken
  <2> QED
    BY <2>1, <2>2
<1> QED
  BY <1>2, <1>3, <1>4

\* A typed character counts at most one line or end of file, and wakes a task
\* when it counts one.
LEMMA FeedWakes ==
  ASSUME ConsoleType, NEW CONSTANT c \in Typed, Feed(c)
  PROVE  \/ UNCHANGED <<g_rx_lines, g_rx_eofs, g_rx_waitq, woken>>
         \/ /\ \/ g_rx_lines' \in {g_rx_lines, g_rx_lines + 1} /\ g_rx_eofs' = g_rx_eofs
               \/ g_rx_eofs' = g_rx_eofs + 1 /\ g_rx_lines' = g_rx_lines
            /\ WakeOne
<1> DEFINE Goal == \/ UNCHANGED <<g_rx_lines, g_rx_eofs, g_rx_waitq, woken>>
                   \/ /\ \/ g_rx_lines' \in {g_rx_lines, g_rx_lines + 1} /\ g_rx_eofs' = g_rx_eofs
                         \/ g_rx_eofs' = g_rx_eofs + 1 /\ g_rx_lines' = g_rx_lines
                      /\ WakeOne
<1>1. ASSUME NEW h, Keep(h) PROVE Goal
  BY <1>1, Zenon DEF Keep
<1>2. ASSUME NEW h, NEW e, Enqueue(h, e) PROVE Goal
  <2>1. CASE Keep(h)
    BY <1>1, <2>1
  <2>2. CASE /\ g_rx_lines' = IF e = "nl" THEN g_rx_lines + 1 ELSE g_rx_lines
             /\ g_rx_eofs' = IF e = "eof" THEN g_rx_eofs + 1 ELSE g_rx_eofs
             /\ WakeOne
    <3>1. CASE e = "nl"
      BY <2>2, <3>1, Zenon
    <3>2. CASE e = "eof"
      BY <2>2, <3>2, Zenon
    <3>3. CASE e # "nl" /\ e # "eof"
      BY <2>2, <3>3, Zenon
    <3> QED
      BY <3>1, <3>2, <3>3
  <2> QED
    BY <1>2, <2>1, <2>2, Zenon DEF Enqueue
<1>3. \/ \E h, e : Enqueue(h, e)
      \/ \E h : Keep(h)
  BY Zenon DEF Feed
<1> QED
  BY <1>1, <1>2, <1>3

LEMMA SumAfterWakeup ==
  ASSUME NEW l \in Nat, NEW e \in Nat, NEW w \in Nat, NEW k \in Nat, NEW m \in Nat,
         l + e <= w, k + m <= l + e + 1
  PROVE  k + m <= w + 1
OBVIOUS

LEMMA SumAfterStore ==
  ASSUME NEW l \in Nat, NEW e \in Nat, NEW w \in Nat, NEW k \in Int, NEW m \in Int,
         NEW v \in Nat, l + e <= w, k + m <= l + e - 1, v >= w - 1
  PROVE  k + m <= v
OBVIOUS

\* Where a read is after a result: another read of the same call, or none.
LEMMA ResultRead ==
  ASSUME r \in ReadType, NEW b \in BOOLEAN, Result(b)
  PROVE  r'.pc \in {"begin", "idle"} /\ (r'.caller = "trap" => r.caller = "trap" /\ r'.task = r.task)
<1> DEFINE n == r.copied + r.n
<1>1. r' = [r EXCEPT !.pc = "begin", !.copied = n, !.n = 0] \/ r' = Idle
  BY Zenon DEF Result
<1> HIDE DEF n
<1>2. CASE r' = [r EXCEPT !.pc = "begin", !.copied = n, !.n = 0]
  <2>1. r'.pc = "begin" /\ r'.caller = r.caller /\ r'.task = r.task
    BY <1>2 DEF ReadType
  <2> QED
    BY <2>1
<1>3. CASE r' = Idle
  <2>1. r'.pc = "idle" /\ r'.caller = "none"
    BY <1>3 DEF Idle
  <2> QED
    BY <2>1
<1> QED
  BY <1>1, <1>2, <1>3

LEMMA WakeFeedStep ==
  ASSUME ConsoleInv, WakeInv, NEW CONSTANT c \in Typed, Feed(c)
  PROVE  WakeInv'
<1>0. UNCHANGED <<use, r>> /\ g_rx_lines \in Nat /\ g_rx_eofs \in Nat /\ r \in ReadType
  BY DEF Feed, ConsoleInv, ConsoleType
<1>c. OnlyCanonical' <=> OnlyCanonical
  BY <1>0 DEF OnlyCanonical
<1>w. woken \subseteq Readers
  BY DEF WakeInv
<1>1. CASE UNCHANGED <<g_rx_lines, g_rx_eofs, g_rx_waitq, woken>>
  BY <1>0, <1>1, <1>c DEF WakeInv, WakeupPerLine
<1>2. CASE /\ \/ g_rx_lines' \in {g_rx_lines, g_rx_lines + 1} /\ g_rx_eofs' = g_rx_eofs
              \/ g_rx_eofs' = g_rx_eofs + 1 /\ g_rx_lines' = g_rx_lines
           /\ WakeOne
  <2>1. /\ g_rx_lines' \in Nat /\ g_rx_eofs' \in Nat
        /\ g_rx_lines' >= g_rx_lines /\ g_rx_eofs' >= g_rx_eofs
        /\ g_rx_lines' + g_rx_eofs' <= g_rx_lines + g_rx_eofs + 1
    BY <1>0, <1>2
  <2>2. /\ r'.pc = "store_lines" => r'.counter <= g_rx_lines'
        /\ r'.pc = "store_eofs" => r'.counter <= g_rx_eofs'
    BY <1>0, <2>1 DEF WakeInv, ReadType
  <2>3. CASE g_rx_waitq = {} /\ UNCHANGED <<g_rx_waitq, woken>>
    BY <1>0, <2>2, <2>3 DEF WakeInv, WakeupPerLine
  <2>4. ASSUME NEW t \in g_rx_waitq, g_rx_waitq' = g_rx_waitq \ {t}, woken' = woken \cup {t}
        PROVE  WakeInv'
    <3>1. t \notin woken /\ t \in Readers
      BY DEF WakeInv
    <3>2. Cardinality(woken') = Woken + 1 /\ Woken \in Nat
      BY <1>w, <2>4, <3>1, WokenIs
    <3>3. OnlyCanonical => g_rx_lines + g_rx_eofs <= Woken
      BY <2>4 DEF WakeInv, WakeupPerLine, Woken
    <3>4. WakeupPerLine'
      <4>1. OnlyCanonical => g_rx_lines' + g_rx_eofs' <= Woken + 1
        BY <1>0, <2>1, <3>2, <3>3, SumAfterWakeup, Zenon
      <4> QED
        BY <1>c, <3>2, <4>1, Zenon DEF WakeupPerLine
    <3>5. g_rx_waitq' \subseteq Readers /\ woken' \subseteq Readers /\ g_rx_waitq' \cap woken' = {}
      BY <2>4, <3>1 DEF WakeInv
    <3> QED
      BY <1>0, <2>2, <3>4, <3>5 DEF WakeInv
  <2> QED
    BY <1>2, <2>3, <2>4 DEF WakeOne
<1> QED
  BY <1>1, <1>2, FeedWakes DEF ConsoleInv

\* A task goes to sleep when no line is counted.
LEMMA SleepStep ==
  ASSUME ConsoleInv, WakeInv, NothingYet, r.pc \in {"begin", "loop", "return"},
         UNCHANGED <<g_rx_lines, g_rx_eofs, use>>,
         OnlyCanonical => g_rx_lines = 0 /\ g_rx_eofs = 0
  PROVE  WakeInv'
<1>0. r \in ReadType /\ r.caller \in {"trap", "direct"} /\ (r.caller = "direct" => r.nonblock = 1)
  BY DEF ConsoleInv, ConsoleType, ReadInv, ReadType
<1>1. r'.pc \in {"begin", "idle"} /\ (r'.caller = "trap" => r.caller = "trap" /\ r'.task = r.task)
  <2>1. \E b \in BOOLEAN : Result(b)
    BY Zenon DEF NothingYet
  <2> QED
    BY <1>0, <2>1, ResultRead
<1>w. woken \subseteq Readers
  BY DEF WakeInv
<1>2. CASE UNCHANGED <<g_rx_waitq, woken>>
  BY <1>1, <1>2 DEF WakeInv, WakeupPerLine, OnlyCanonical
<1>3. CASE g_rx_waitq' = g_rx_waitq \cup {r.task} /\ woken' = woken \ {r.task} /\ ~Nonblock
  <2>1. r.task \in Readers
    BY <1>0, <1>3 DEF WakeInv, Nonblock
  <2>2. Cardinality(woken') \in Nat
    BY <1>w, <1>3, WokenIs
  <2>3. WakeupPerLine'
    BY <2>2 DEF WakeupPerLine, OnlyCanonical
  <2> QED
    BY <1>1, <1>3, <2>1, <2>3 DEF WakeInv
<1> QED
  BY <1>2, <1>3, Zenon DEF NothingYet

LEMMA WakeReadStep ==
  ASSUME ConsoleInv, WakeInv, Reader
  PROVE  WakeInv'
<1>0. r \in ReadType /\ g_rx_lines \in Nat /\ g_rx_eofs \in Nat
  BY DEF ConsoleInv, ConsoleType
<1>w. woken \subseteq Readers
  BY DEF WakeInv
<1> DEFINE Same == UNCHANGED <<g_rx_lines, g_rx_eofs, g_rx_waitq, woken, use>>
<1>s. ASSUME Same, r'.caller = "trap" => r.caller = "trap" /\ r'.task = r.task,
             r'.pc = "store_lines" => r'.counter <= g_rx_lines,
             r'.pc = "store_eofs" => r'.counter <= g_rx_eofs
      PROVE  WakeInv'
  BY <1>s DEF WakeInv, WakeupPerLine, OnlyCanonical
<1>1. CASE Begin
  <2>1. CASE Canonical /\ g_rx_lines = 0 /\ g_rx_eofs = 0
    BY <1>1, <2>1, SleepStep DEF Begin
  <2>2. CASE ~(Canonical /\ g_rx_lines = 0 /\ g_rx_eofs = 0)
    <3>1. Same /\ r' = [r EXCEPT !.pc = "loop", !.canonical = IF Canonical THEN 1 ELSE 0]
      BY <1>1, <2>2 DEF Begin
    <3>2. r'.pc = "loop" /\ r'.caller = r.caller /\ r'.task = r.task
      BY <1>0, <3>1 DEF ReadType
    <3> QED
      BY <1>s, <3>1, <3>2
  <2> QED
    BY <2>1, <2>2
<1>2. CASE Load
  <2>1. Same
    BY <1>2 DEF Load
  <2>2. /\ r'.pc \in {"eofs", "last", "lines", "advance"}
        /\ r'.caller = r.caller /\ r'.task = r.task
    BY <1>0, <1>2 DEF Load, ReadType
  <2> QED
    BY <1>s, <2>1, <2>2
<1>3. CASE LoadCounter
  <2>1. Same /\ r.pc \in {"lines", "eofs"}
    BY <1>3 DEF LoadCounter
  <2>2. /\ r'.pc = IF r.pc = "lines" THEN "store_lines" ELSE "store_eofs"
        /\ r'.counter = IF r.pc = "lines" THEN g_rx_lines ELSE g_rx_eofs
        /\ r'.caller = r.caller /\ r'.task = r.task
    BY <1>0, <1>3 DEF LoadCounter, ReadType
  <2> QED
    BY <1>0, <1>s, <2>1, <2>2
<1>4. CASE StoreCounter
  <2>1. /\ UNCHANGED <<use, g_rx_waitq>> /\ woken' = woken \ {r.task}
        /\ r.pc \in {"store_lines", "store_eofs"}
        /\ r.pc = "store_lines" => g_rx_lines' = r.counter - 1 /\ g_rx_eofs' = g_rx_eofs
        /\ r.pc = "store_eofs" => g_rx_eofs' = r.counter - 1 /\ g_rx_lines' = g_rx_lines
    BY <1>4 DEF StoreCounter
  <2>2. r'.pc \in {"last", "advance"} /\ r'.caller = r.caller /\ r'.task = r.task
    BY <1>0, <1>4 DEF StoreCounter, ReadType
  <2>3. /\ r.counter \in Nat
        /\ r.pc = "store_lines" => r.counter <= g_rx_lines
        /\ r.pc = "store_eofs" => r.counter <= g_rx_eofs
    BY <1>0 DEF WakeInv, ReadType
  <2>4. /\ g_rx_lines' \in Int /\ g_rx_eofs' \in Int
        /\ g_rx_lines' + g_rx_eofs' <= g_rx_lines + g_rx_eofs - 1
    BY <1>0, <2>1, <2>3
  <2>5. Cardinality(woken') \in Nat /\ Cardinality(woken') >= Woken - 1 /\ Woken \in Nat
    BY <1>w, <2>1, WokenIs
  <2>6. WakeupPerLine'
    <3> SUFFICES ASSUME OnlyCanonical, g_rx_waitq # {}
                 PROVE  g_rx_lines' + g_rx_eofs' <= Cardinality(woken')
      BY <2>1 DEF WakeupPerLine, OnlyCanonical
    <3>1. g_rx_lines + g_rx_eofs <= Woken
      BY DEF WakeInv, WakeupPerLine, Woken
    <3> QED
      BY <1>0, <2>4, <2>5, <3>1, SumAfterStore, Zenon
  <2> QED
    BY <2>1, <2>2, <2>6 DEF WakeInv
<1>5. CASE Advance
  <2>1. Same
    BY <1>5 DEF Advance
  <2>2. r'.pc \in {"return", "loop"} /\ r'.caller = r.caller /\ r'.task = r.task
    BY <1>0, <1>5 DEF Advance, ReadType
  <2> QED
    BY <1>s, <2>1, <2>2
<1>6. CASE Return
  <2>1. UNCHANGED <<g_rx_lines, g_rx_eofs, use>> /\ r.pc \in {"loop", "return"}
    BY <1>6 DEF Return
  <2>2. CASE r.n # 0 \/ r.saw_eof = 1
    <3>1. Same /\ Result(FALSE)
      BY <1>6, <2>2 DEF Return
    <3>2. r'.pc \in {"begin", "idle"} /\ (r'.caller = "trap" => r.caller = "trap" /\ r'.task = r.task)
      BY <1>0, <3>1, ResultRead
    <3> QED
      BY <1>s, <3>1, <3>2
  <2>3. CASE ~(r.n # 0 \/ r.saw_eof = 1)
    <3>1. NothingYet
      BY <1>6, <2>3 DEF Return
    <3>2. ~OnlyCanonical
      BY <1>6, <2>3, ReturnsSome
    <3> QED
      BY <2>1, <3>1, <3>2, SleepStep
  <2> QED
    BY <2>2, <2>3
<1> QED
  BY <1>1, <1>2, <1>3, <1>4, <1>5, <1>6 DEF Reader

LEMMA WakeStep == ConsoleInv /\ WakeInv /\ [Next]_vars => WakeInv'
<1> SUFFICES ASSUME ConsoleInv, WakeInv, [Next]_vars PROVE WakeInv'
  OBVIOUS
<1> DEFINE Same == UNCHANGED <<g_rx_lines, g_rx_eofs, g_rx_waitq, woken, use>>
<1>1. CASE Reader
  BY <1>1, WakeReadStep
<1>2. CASE \E c \in Typed : Feed(c)
  BY <1>2, WakeFeedStep
<1>3. ASSUME NEW t \in Readers, NEW len \in Lens, NEW nonblock \in {0, 1},
             SysRead(t, len, nonblock)
      PROVE  WakeInv'
  <2>1. Same /\ r'.pc = "begin" /\ r'.task = t
    BY <1>3 DEF SysRead, Idle
  <2> QED
    BY <2>1 DEF WakeInv, WakeupPerLine, OnlyCanonical
<1>4. CASE InitRead
  <2>1. Same /\ r'.pc = "begin" /\ r'.caller = "direct"
    BY <1>4 DEF InitRead, Idle
  <2> QED
    BY <2>1 DEF WakeInv, WakeupPerLine, OnlyCanonical
<1>5. CASE (\E f \in SUBSET {"ICANON", "ISIG"} : SetLflag(f)) \/ UNCHANGED vars
  <2>1. Same /\ r' = r
    BY <1>5 DEF SetLflag, vars
  <2> QED
    BY <2>1 DEF WakeInv, WakeupPerLine, OnlyCanonical
<1> QED
  BY <1>1, <1>2, <1>3, <1>4, <1>5 DEF Next

\* In canonical mode console_rx_enqueue_char wakes a task for each line and each
\* end of file, for any number of tasks: while some sleep on g_rx_waitq, as many
\* others have been woken and not read theirs as console_read would still find.
THEOREM NoLostWakeup == Spec => []WakeupPerLine
<1>1. Init => WakeInv
  <2> SUFFICES ASSUME Init PROVE WakeInv
    OBVIOUS
  <2> QED
    BY DEF Init, Idle, WakeInv, WakeupPerLine
<1>2. WakeInv => WakeupPerLine
  BY DEF WakeInv
<1> QED
  BY <1>1, <1>2, WakeStep, ConsoleInvariant, PTL DEF Spec

=============================================================================
