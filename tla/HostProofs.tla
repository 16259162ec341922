----------------------------- MODULE HostProofs -----------------------------
(***************************************************************************)
(* The process on the host and the serial receiver that its window feeds.  *)
(*                                                                         *)
(* The memory of the machine is freed on every way out of the process, and *)
(* not before the last thread that uses it has ended, on any number of     *)
(* cores; and main joins only threads that it has told to end.             *)
(*                                                                         *)
(* The debugger stops at every breakpoint that is set, for any addresses   *)
(* and any size of the list.                                               *)
(*                                                                         *)
(* The ring of received bytes implements a bounded queue, for any size of  *)
(* the ring and any bytes, and no byte lies in it without an interrupt.    *)
(***************************************************************************)
EXTENDS Serial, Host, SequenceTheorems, FiniteSetTheorems, WellFoundedInduction, TLAPS

\* What a leaf that names no prover is tried with, and for how many seconds.
USE ZenonT(3), SMTT(30)

----------------------------------------------------------------------------
(* The process. *)

Image == {"program", "data"}

\* What is held of the machine at each place of the main thread.
MachineAt ==
  [header |-> {}, text |-> {}, data |-> {}, vm |-> {}, cpus |-> {"vm"},
   released |-> {"vm", "cpus"}, bitmap |-> {"vm", "cpus", "released"},
   memory |-> {"vm", "cpus", "released", "bitmap"},
   fbs |-> {"vm", "cpus", "released", "bitmap", "memory"},
   rows |-> {"vm", "cpus", "released", "bitmap", "memory", "fb", "front"},
   timer |-> AllBlocks, layout |-> AllBlocks,
   disk |-> AllBlocks \cup {"debug"}, ids |-> AllBlocks \cup {"debug"},
   spawn |-> AllBlocks \cup {"debug", "ids"}, wait |-> AllBlocks \cup {"debug", "ids"},
   join |-> AllBlocks \cup {"debug", "ids"},
   stop_timer |-> AllBlocks \cup {"debug"}, join_timer |-> AllBlocks \cup {"debug"},
   stop_disk |-> AllBlocks, join_disk |-> AllBlocks, free |-> {}, done |-> {}]

NoCores == {"header", "text", "data", "vm", "cpus", "released", "bitmap", "memory", "fbs", "rows",
            "timer", "layout", "disk", "ids"}
NoTimer == NoCores \ {"layout", "disk", "ids"}
NoDisk == NoCores \ {"ids"}
AfterJoin == {"stop_timer", "join_timer", "stop_disk", "join_disk", "free", "done"}
Places == NoCores \cup {"spawn", "wait", "join"} \cup AfterJoin

\* What is held, while the process has not panicked.
HeldInv ==
  /\ main \in Places
  /\ held \ Image = MachineAt[main]
  /\ main \in {"header", "text", "done"} => held \cap Image = {}
  /\ main = "data" => "data" \notin held
  /\ main \in {"header", "text", "data"} => windowed
  /\ ~windowed => held \cap Image = {}

\* Which threads there are.
ThreadInv ==
  /\ core \in [HostCores -> {"none", "start", "loop", "prompt", "interrupts", "execute", "ended"}]
  /\ args = {c \in HostCores : core[c] = "start"}
  /\ main \in NoCores => \A c \in HostCores : core[c] = "none"
  /\ main \in AfterJoin => \A c \in HostCores : core[c] \in {"none", "ended"}
  /\ timer_thread \in {"none", "runs", "ended"} /\ disk_thread \in {"none", "runs", "ended"}
  /\ main \in NoTimer => timer_thread = "none"
  /\ main \in {"stop_disk", "join_disk", "free", "done"} => timer_thread \in {"none", "ended"}
  /\ main \in NoDisk => disk_thread = "none"
  /\ main \in {"free", "done"} => disk_thread \in {"none", "ended"}

\* The inductive invariant: a panic ends the process with all its memory.
ProcessInv == main # "panic" => HeldInv /\ ThreadInv

\* At the start nothing is held and no thread has been made.
LEMMA ProcessInit == HostInit => ProcessInv
  BY DEF HostInit, ProcessInv, HeldInv, ThreadInv, Places, NoCores, NoTimer, NoDisk, AfterJoin,
     MachineAt, Image

\* What the invariant says: the blocks that a place holds are those that the
\* threads which can live there use.
LEMMA ProcessImplies == ProcessInv => MemoryIsHeld
<1> SUFFICES ASSUME ProcessInv PROVE MemoryIsHeld
  OBVIOUS
<1>1. NothingLeft
  BY DEF ProcessInv, HeldInv, ThreadInv, MachineAt, Image, AfterJoin, NothingLeft
<1>2. ThreadsWithin
  <2> SUFFICES ASSUME Up PROVE ThreadsWithin
    BY DEF ThreadsWithin
  <2>1. HeldInv /\ ThreadInv /\ main \in Places \ {"done"}
    BY DEF Up, ProcessInv, HeldInv
  <2>2. main \in {"spawn", "wait", "join"} => AllBlocks \cup {"debug"} \subseteq held
    BY <2>1 DEF HeldInv, MachineAt, Image
  <2>3. main \notin NoTimer \cup {"free"} => AllBlocks \subseteq held
    BY <2>1 DEF HeldInv, MachineAt, Image, NoTimer, NoCores, Places, AfterJoin
  <2>4. \A c \in HostCores : Lives(core[c]) => main \in {"spawn", "wait", "join"}
    BY <2>1 DEF ThreadInv, Lives, Places, NoCores, AfterJoin
  <2>5. Lives(timer_thread) \/ Lives(disk_thread) => main \notin NoTimer \cup {"free"}
    BY <2>1 DEF ThreadInv, Lives, NoTimer, NoDisk, NoCores
  <2> QED
    BY <2>2, <2>3, <2>4, <2>5 DEF ThreadsWithin, AllBlocks
<1> QED
  BY <1>1, <1>2 DEF MemoryIsHeld

\* A step of the main thread that leaves the threads alone keeps what is known
\* of them, if it does not go back.
LEMMA MainOnly ==
  ASSUME ProcessInv, main # "panic", UNCHANGED <<threads, args>>, main' \in Places,
         main' \in NoCores => main \in NoCores,
         main' \in AfterJoin =>
           main \in AfterJoin \cup NoCores \/ \A c \in HostCores : core[c] \in {"none", "ended"},
         main' \in NoTimer => main \in NoTimer,
         main' \in {"stop_disk", "join_disk", "free", "done"} => timer_thread \in {"none", "ended"},
         main' \in NoDisk => main \in NoDisk,
         main' \in {"free", "done"} => disk_thread \in {"none", "ended"}
  PROVE  ThreadInv'
  BY DEF ProcessInv, ThreadInv, threads, NoCores, AfterJoin, NoTimer, NoDisk

\* The blocks of the machine from its last allocation to the end of vm_destroy.
LEMMA MachineFacts ==
  /\ MachineAt.timer = AllBlocks /\ MachineAt.layout = AllBlocks
  /\ MachineAt.disk = AllBlocks \cup {"debug"} /\ MachineAt.ids = AllBlocks \cup {"debug"}
  /\ MachineAt.spawn = AllBlocks \cup {"debug", "ids"}
  /\ MachineAt.wait = AllBlocks \cup {"debug", "ids"}
  /\ MachineAt.join = AllBlocks \cup {"debug", "ids"}
  /\ MachineAt.stop_timer = AllBlocks \cup {"debug"}
  /\ MachineAt.join_timer = AllBlocks \cup {"debug"}
  /\ MachineAt.stop_disk = AllBlocks /\ MachineAt.join_disk = AllBlocks
  /\ MachineAt.free = {} /\ MachineAt.done = {}
BY DEF MachineAt

\* A step that changes no block of the image keeps HeldInv if it leaves the
\* blocks of its next place.
LEMMA HeldTo ==
  ASSUME ProcessInv, main # "panic", NEW m \in Places \ {"header", "text", "data", "done"}, main' = m,
         windowed' = windowed, held' \cap Image = held \cap Image, held' \ Image = MachineAt[m]
  PROVE  HeldInv'
  BY DEF ProcessInv, HeldInv

\* Every step of the main thread keeps the invariant.
LEMMA MainStep == ProcessInv /\ main # "panic" /\ Main => ProcessInv'
<1> SUFFICES ASSUME ProcessInv, main # "panic", Main PROVE ProcessInv'
  OBVIOUS
<1>i. HeldInv /\ ThreadInv
  BY DEF ProcessInv
<1>p. ASSUME Panic PROVE ProcessInv'
  BY <1>p DEF Panic, Goto, ProcessInv
<1> USE DEF Goto
<1>1. CASE LoadHeader
  <2>1. HeldInv'
    <3>1. MachineAt.header = {} /\ MachineAt.text = {} /\ MachineAt.done = {}
      BY DEF MachineAt
    <3>2. held = {} /\ windowed
      BY <1>i, <1>1, <3>1 DEF LoadHeader, HeldInv, Image
    <3>3. main' \in {"text", "done"} /\ main' \in Places /\ held' = held /\ windowed' = windowed
      BY <1>1 DEF LoadHeader, Places, NoCores, AfterJoin
    <3> QED
      BY <3>1, <3>2, <3>3 DEF HeldInv, Image
  <2>2. ThreadInv'
    BY <1>i, <1>1, MainOnly DEF LoadHeader, ThreadInv, Places, NoCores, AfterJoin, NoTimer, NoDisk
  <2> QED
    BY <2>1, <2>2 DEF ProcessInv
<1>2. CASE LoadText
  <2>1. HeldInv'
    <3>1. MachineAt.text = {} /\ MachineAt.data = {} /\ MachineAt.done = {}
      BY DEF MachineAt
    <3>2. windowed => held = {}
      BY <1>i, <1>2, <3>1 DEF LoadText, HeldInv, Image
    <3>3. main' \in {"data", "done"} /\ main' \in Places
      BY <1>2 DEF LoadText, Places, NoCores, AfterJoin
    <3>4. held' \in {{}, {"program"}} /\ (main' = "done" => held' = {}) /\ windowed'
      BY <1>i, <1>2, <3>2, Zenon DEF LoadText, HeldInv
    <3> QED
      BY <3>1, <3>3, <3>4 DEF HeldInv, Image
  <2>2. ThreadInv'
    BY <1>i, <1>2, MainOnly DEF LoadText, ThreadInv, Places, NoCores, AfterJoin, NoTimer, NoDisk
  <2> QED
    BY <2>1, <2>2 DEF ProcessInv
<1>3. CASE LoadData
  <2>1. HeldInv'
    <3>1. MachineAt.data = {} /\ MachineAt.vm = {} /\ MachineAt.done = {}
      BY DEF MachineAt
    <3>2. held \subseteq {"program"} /\ windowed
      BY <1>i, <1>3, <3>1 DEF LoadData, HeldInv, Image
    <3>3. main' \in {"vm", "done"} /\ main' \in Places
      BY <1>3 DEF LoadData, Places, NoCores, AfterJoin
    <3>4. held' \subseteq Image /\ (main' = "done" => held' = {}) /\ windowed'
      BY <1>3, <3>2, Zenon DEF LoadData, Image
    <3> QED
      BY <3>1, <3>3, <3>4, Zenon DEF HeldInv, Image
  <2>2. ThreadInv'
    BY <1>i, <1>3, MainOnly DEF LoadData, ThreadInv, Places, NoCores, AfterJoin, NoTimer, NoDisk
  <2> QED
    BY <2>1, <2>2 DEF ProcessInv
<1>4. ASSUME NEW k \in DOMAIN Blocks, Alloc(k) PROVE ProcessInv'
  <2>k. k \in 1 .. 7
    BY <1>4 DEF Blocks
  <2>b. /\ Blocks[1] = "vm" /\ Blocks[2] = "cpus" /\ Blocks[3] = "released" /\ Blocks[4] = "bitmap"
        /\ Blocks[5] = "memory" /\ Blocks[6] = "fbs" /\ Blocks[7] = "rows" /\ Len(Blocks) = 7
    BY DEF Blocks
  <2> DEFINE next == IF k < Len(Blocks) THEN Blocks[k + 1] ELSE "timer"
             out == IF windowed THEN "free" ELSE "done"
  <2>n. next \in NoTimer \cup {"timer"} /\ next \in Places \ {"header", "text", "data", "done", "panic"}
    BY <2>k, <2>b DEF NoTimer, NoCores, Places
  <2>m. main = Blocks[k] /\ main \in NoTimer /\ main \in NoDisk /\ main \in NoCores
    BY <1>4, <2>k, <2>b DEF Alloc, NoTimer, NoDisk, NoCores
  <2>a. /\ UNCHANGED <<windowed, args, threads>>
        /\ \/ held' = held \cup Got(Blocks[k]) /\ main' = next
           \/ held' = held \ Freed(Blocks[k]) /\ main' = out
    <3>1. ASSUME NEW part \in SUBSET Got(Blocks[k]), part # Got(Blocks[k])
          PROVE  part \subseteq Freed(Blocks[k])
      <4>1. CASE k = 6
        BY <2>b, <3>1, <4>1 DEF Got, Freed, Before
      <4>2. CASE k # 6
        <5>1. Blocks[k] # "fbs"
          BY <2>k, <2>b, <4>2
        <5>2. Got(Blocks[k]) = {Blocks[k]}
          BY <5>1 DEF Got
        <5>3. part = {}
          BY <3>1, <5>2
        <5> QED
          BY <5>3
      <4> QED
        BY <4>1, <4>2
    <3>2. ASSUME NEW part \in SUBSET Got(Blocks[k]), part # Got(Blocks[k])
          PROVE  (held \cup part) \ Freed(Blocks[k]) = held \ Freed(Blocks[k])
      BY <3>1, <3>2
    <3> QED
      BY <1>4, <3>2 DEF Alloc
  <2>1. CASE held' = held \cup Got(Blocks[k]) /\ main' = next
    <3>1. MachineAt[next] = MachineAt[Blocks[k]] \cup Got(Blocks[k])
      BY <2>k, <2>b DEF MachineAt, Got, AllBlocks
    <3>2. Got(Blocks[k]) \cap Image = {}
      BY <2>k, <2>b DEF Got, Image
    <3>3. HeldInv'
      BY <1>i, <2>1, <2>a, <2>m, <2>n, <3>1, <3>2 DEF HeldInv
    <3>4. ThreadInv'
      BY <1>i, <2>1, <2>a, <2>m, <2>n, MainOnly DEF NoTimer, NoDisk, NoCores, AfterJoin
    <3> QED
      BY <3>3, <3>4 DEF ProcessInv
  <2>2. CASE held' = held \ Freed(Blocks[k]) /\ main' = out
    <3>1. MachineAt[Blocks[k]] \subseteq Freed(Blocks[k])
      <4>1. /\ MachineAt.vm = Freed("vm") /\ MachineAt.cpus = Freed("cpus")
            /\ MachineAt.released = Freed("released")
        BY DEF MachineAt, Freed, Before
      <4>2. MachineAt.bitmap = Freed("bitmap") /\ MachineAt.memory = Freed("memory")
        BY DEF MachineAt, Freed, Before
      <4>3. MachineAt.fbs \subseteq Freed("fbs")
        BY DEF MachineAt, Freed, Before
      <4>4. MachineAt.rows = Freed("rows")
        BY DEF MachineAt, Freed, Before
      <4> QED
        BY <2>k, <2>b, <4>1, <4>2, <4>3, <4>4
    <3>2. Freed(Blocks[k]) \cap Image = {} /\ MachineAt[out] = {} /\ out \in {"free", "done"}
      BY <2>k, <2>b DEF Freed, Before, Image, MachineAt
    <3>3. HeldInv'
      BY <1>i, <2>2, <2>a, <2>m, <3>1, <3>2 DEF HeldInv, Places, AfterJoin
    <3>4. timer_thread = "none" /\ disk_thread = "none"
      BY <1>i, <2>m DEF ThreadInv
    <3>5. ThreadInv'
      BY <1>i, <2>2, <2>a, <2>m, <3>2, <3>4, MainOnly DEF NoTimer, NoDisk, NoCores, AfterJoin, Places
    <3> QED
      BY <3>3, <3>5 DEF ProcessInv
  <2> QED
    BY <2>a, <2>1, <2>2
<1>5. CASE StartTimer
  <2>1. CASE Panic
    BY <1>p, <2>1
  <2>2. CASE ~Panic
    <3>1. HeldInv'
      BY <1>i, <1>5, <2>2, HeldTo, MachineFacts DEF StartTimer, HeldInv, Places, NoCores
    <3>2. ThreadInv'
      BY <1>i, <1>5, <2>2 DEF StartTimer, ThreadInv, NoCores, AfterJoin, NoTimer, NoDisk
    <3> QED
      BY <3>1, <3>2 DEF ProcessInv
  <2> QED
    BY <2>1, <2>2
<1>6. CASE Layout
  <2>1. CASE Panic
    BY <1>p, <2>1
  <2>2. CASE ~Panic
    <3>1. HeldInv'
      <4>1. held' = held \cup {"debug"} /\ "debug" \notin Image
        BY <1>6, <2>2 DEF Layout, Image
      <4>2. held' \ Image = (held \ Image) \cup {"debug"} /\ held' \cap Image = held \cap Image
        BY <4>1
      <4> QED
        BY <1>i, <1>6, <2>2, <4>2, HeldTo, MachineFacts DEF Layout, HeldInv, Places, NoCores
    <3>2. ThreadInv'
      BY <1>i, <1>6, <2>2, MainOnly DEF Layout, NoCores, AfterJoin, NoTimer, NoDisk, Places
    <3> QED
      BY <3>1, <3>2 DEF ProcessInv
  <2> QED
    BY <2>1, <2>2
<1>7. CASE StartDisk
  <2>1. CASE Panic
    BY <1>p, <2>1
  <2>2. CASE ~Panic
    <3>1. HeldInv'
      BY <1>i, <1>7, <2>2, HeldTo, MachineFacts DEF StartDisk, HeldInv, Places, NoCores
    <3>2. ThreadInv'
      BY <1>i, <1>7, <2>2 DEF StartDisk, ThreadInv, NoCores, AfterJoin, NoTimer, NoDisk
    <3> QED
      BY <3>1, <3>2 DEF ProcessInv
  <2> QED
    BY <2>1, <2>2
<1>8. CASE Ids
  <2>1. CASE Panic
    BY <1>p, <2>1
  <2>2. CASE ~Panic
    <3>1. HeldInv'
      <4>1. held' = held \cup {"ids"} /\ "ids" \notin Image
        BY <1>8, <2>2 DEF Ids, Image
      <4>2. held' \ Image = (held \ Image) \cup {"ids"} /\ held' \cap Image = held \cap Image
        BY <4>1
      <4> QED
        BY <1>i, <1>8, <2>2, <4>2, HeldTo, MachineFacts DEF Ids, HeldInv, Places, NoCores
    <3>2. ThreadInv'
      BY <1>i, <1>8, <2>2, MainOnly DEF Ids, NoCores, AfterJoin, NoTimer, NoDisk, Places
    <3> QED
      BY <3>1, <3>2 DEF ProcessInv
  <2> QED
    BY <2>1, <2>2
<1>9. CASE SpawnCore
  <2>m. main = "spawn"
    BY <1>9 DEF SpawnCore
  <2>1. PICK c \in NotMade :
          \/ /\ core' = [core EXCEPT ![c] = "start"] /\ args' = args \cup {c}
             /\ main' \in {"wait", "spawn"}
             /\ UNCHANGED <<windowed, held, timer_thread, disk_thread>>
          \/ Panic
          \/ Goto("join") /\ UNCHANGED <<held, threads>>
    BY <1>9 DEF SpawnCore
  <2>2. CASE Panic
    BY <1>p, <2>2
  <2>3. CASE /\ core' = [core EXCEPT ![c] = "start"] /\ args' = args \cup {c}
             /\ main' \in {"wait", "spawn"}
             /\ UNCHANGED <<windowed, held, timer_thread, disk_thread>>
    <3>1. HeldInv'
      BY <1>i, <2>m, <2>3, HeldTo, MachineFacts DEF HeldInv, Places
    <3>2. ThreadInv'
      BY <1>i, <2>m, <2>3 DEF ThreadInv, NotMade, NoCores, AfterJoin, NoTimer, NoDisk
    <3> QED
      BY <3>1, <3>2 DEF ProcessInv
  <2>4. CASE Goto("join") /\ UNCHANGED <<held, threads>>
    <3>1. HeldInv'
      BY <1>i, <2>m, <2>4, HeldTo, MachineFacts DEF HeldInv, Places
    <3>2. ThreadInv'
      BY <1>i, <2>m, <2>4, MainOnly DEF NoCores, AfterJoin, NoTimer, NoDisk, Places
    <3> QED
      BY <3>1, <3>2 DEF ProcessInv
  <2> QED
    BY <2>1, <2>2, <2>3, <2>4
<1>10. CASE Wait
  <2>1. HeldInv'
    BY <1>i, <1>10, HeldTo, MachineFacts DEF Wait, HeldInv, Places
  <2>2. ThreadInv'
    BY <1>i, <1>10, MainOnly DEF Wait, NoCores, AfterJoin, NoTimer, NoDisk, Places
  <2> QED
    BY <2>1, <2>2 DEF ProcessInv
<1>11. CASE Join
  <2>1. HeldInv'
    <3>1. held' = held \ {"ids"} /\ {"ids"} \cap (Image \cup AllBlocks) = {}
      BY <1>11 DEF Join, Image, AllBlocks
    <3>2. held' \ Image = (held \ Image) \ {"ids"} /\ held' \cap Image = held \cap Image
      BY <3>1
    <3>3. held' \ Image = MachineAt[main']
      BY <1>i, <1>11, <3>1, <3>2, MachineFacts DEF Join, HeldInv
    <3> QED
      BY <1>i, <1>11, <3>2, <3>3, HeldTo DEF Join, Places, AfterJoin
  <2>2. ThreadInv'
    BY <1>i, <1>11, MainOnly DEF Join, NoCores, AfterJoin, NoTimer, NoDisk, Places
  <2> QED
    BY <2>1, <2>2 DEF ProcessInv
<1>12. CASE StopTimer
  <2>1. HeldInv'
    BY <1>i, <1>12, HeldTo, MachineFacts DEF StopTimer, HeldInv, Places, AfterJoin
  <2>2. ThreadInv'
    BY <1>i, <1>12 DEF StopTimer, ThreadInv, NoCores, AfterJoin, NoTimer, NoDisk
  <2> QED
    BY <2>1, <2>2 DEF ProcessInv
<1>13. CASE JoinTimer
  <2>1. HeldInv'
    <3>1. held' = held \ {"debug"} /\ {"debug"} \cap (Image \cup AllBlocks) = {}
      BY <1>13 DEF JoinTimer, Image, AllBlocks
    <3>2. held' \ Image = (held \ Image) \ {"debug"} /\ held' \cap Image = held \cap Image
      BY <3>1
    <3>3. held' \ Image = MachineAt[main']
      BY <1>i, <1>13, <3>1, <3>2, MachineFacts DEF JoinTimer, HeldInv
    <3> QED
      BY <1>i, <1>13, <3>2, <3>3, HeldTo DEF JoinTimer, Places, AfterJoin
  <2>2. ThreadInv'
    BY <1>i, <1>13, MainOnly DEF JoinTimer, NoCores, AfterJoin, NoTimer, NoDisk, Places
  <2> QED
    BY <2>1, <2>2 DEF ProcessInv
<1>14. CASE StopDisk
  <2>1. HeldInv'
    BY <1>i, <1>14, HeldTo, MachineFacts DEF StopDisk, HeldInv, Places, AfterJoin
  <2>2. ThreadInv'
    BY <1>i, <1>14 DEF StopDisk, ThreadInv, NoCores, AfterJoin, NoTimer, NoDisk
  <2> QED
    BY <2>1, <2>2 DEF ProcessInv
<1>15. CASE JoinDisk
  <2>1. HeldInv'
    <3>1. held' = held \ AllBlocks /\ AllBlocks \cap Image = {}
      BY <1>15 DEF JoinDisk, Image, AllBlocks
    <3>2. held \ Image = AllBlocks
      BY <1>i, <1>15, MachineFacts DEF JoinDisk, HeldInv
    <3>3. held' \ Image = {} /\ held' \cap Image = held \cap Image
      BY <3>1, <3>2
    <3> QED
      BY <1>i, <1>15, <3>3, MachineFacts DEF JoinDisk, HeldInv, Places, AfterJoin
  <2>2. timer_thread \in {"none", "ended"}
    BY <1>i, <1>15 DEF JoinDisk, ThreadInv
  <2>3. ThreadInv'
    BY <1>i, <1>15, <2>2, MainOnly DEF JoinDisk, NoCores, AfterJoin, NoTimer, NoDisk, Places
  <2> QED
    BY <2>1, <2>3 DEF ProcessInv
<1>16. CASE FreeImage
  <2>1. HeldInv'
    BY <1>i, <1>16 DEF FreeImage, HeldInv, MachineAt, Places, AfterJoin, Image
  <2>2. timer_thread \in {"none", "ended"} /\ disk_thread \in {"none", "ended"}
    BY <1>i, <1>16 DEF FreeImage, ThreadInv
  <2>3. ThreadInv'
    BY <1>i, <1>16, <2>2, MainOnly DEF FreeImage, NoCores, AfterJoin, NoTimer, NoDisk, Places
  <2> QED
    BY <2>1, <2>3 DEF ProcessInv
<1> QED
  BY <1>1, <1>2, <1>3, <1>4, <1>5, <1>6, <1>7, <1>8, <1>9, <1>10, <1>11, <1>12, <1>13, <1>14,
     <1>15, <1>16 DEF Main

\* So does every step of the other threads, of the user and of the window.
LEMMA OtherStep == ProcessInv /\ HostNext => Main \/ ProcessInv'
<1> SUFFICES ASSUME ProcessInv, HostNext PROVE Main \/ ProcessInv'
  OBVIOUS
<1>h. UNCHANGED <<windowed, main, held>> => (HeldInv => HeldInv')
  BY DEF HeldInv
<1>u. UNCHANGED <<process, threads>> => ProcessInv'
  BY DEF process, threads, ProcessInv, HeldInv, ThreadInv
<1>m. ASSUME NEW c \in HostCores, core[c] \in {"loop", "prompt", "interrupts", "execute"},
             NEW pc \in {"loop", "prompt", "interrupts", "execute", "ended"}, Move(c, pc),
             UNCHANGED process
      PROVE  ProcessInv'
  <2> SUFFICES ASSUME main # "panic" PROVE ProcessInv'
    BY <1>m DEF ProcessInv, process
  <2>1. ThreadInv'
    BY <1>m DEF ProcessInv, ThreadInv, Move, process
  <2> QED
    BY <1>h, <1>m, <2>1 DEF ProcessInv, process
<1>1. CASE Quit
  BY <1>1, <1>u DEF Quit
<1>2. ASSUME NEW c \in HostCores, Thread(c) PROVE ProcessInv'
  <2>1. CASE ThreadStart(c)
    BY <2>1, <1>h DEF ThreadStart, At, Up, Move, ProcessInv, ThreadInv
  <2>2. CASE ThreadEnd(c)
    BY <2>2, <1>m DEF ThreadEnd, At
  <2> QED
    BY <1>2, <2>1, <2>2 DEF Thread
<1>3. CASE Bsp \/ Leave
  BY <1>3, <1>m, HostAssumption, Zenon DEF Bsp, Leave, DebugTest, Interrupts, Execute, At
<1>4. CASE Crash
  BY <1>4 DEF Crash, Panic, Goto, ProcessInv
<1>5. CASE TimerEnds
  <2>1. ThreadInv'
    BY <1>5 DEF TimerEnds, Up, ProcessInv, ThreadInv, process, NoTimer, NoCores
  <2> QED
    BY <1>5, <1>h, <2>1 DEF TimerEnds, Up, ProcessInv, process
<1>6. CASE DiskEnds
  <2>1. ThreadInv'
    BY <1>6 DEF DiskEnds, Up, ProcessInv, ThreadInv, process, NoDisk, NoCores
  <2> QED
    BY <1>6, <1>h, <2>1 DEF DiskEnds, Up, ProcessInv, process
<1>7. ASSUME NEW a \in Addrs, Break(a) \/ Delete(a) PROVE ProcessInv'
  BY <1>7, <1>u DEF Break, Delete
<1> QED
  BY <1>1, <1>2, <1>3, <1>4, <1>5, <1>6, <1>7 DEF HostNext

\* On any number of cores, everything that was allocated is freed when the
\* process returns, whichever allocation failed, and vm_destroy frees nothing
\* that a thread still works with.
THEOREM MemoryCorrect == HostSpec => []MemoryIsHeld
<1>1. ProcessInv /\ [HostNext]_host => ProcessInv'
  <2>1. ProcessInv /\ UNCHANGED host => ProcessInv'
    BY DEF host, process, threads, ProcessInv, HeldInv, ThreadInv
  <2>2. main = "panic" /\ Main => FALSE
    <3>1. \A k \in DOMAIN Blocks : Blocks[k] # "panic"
      BY DEF Blocks
    <3> QED
      BY <3>1 DEF Main, LoadHeader, LoadText, LoadData, Alloc, StartTimer, Layout, StartDisk, Ids,
         SpawnCore, Wait, Join, StopTimer, JoinTimer, StopDisk, JoinDisk, FreeImage
  <2> QED
    BY <2>1, <2>2, MainStep, OtherStep
<1> QED
  BY <1>1, ProcessInit, ProcessImplies, PTL DEF HostSpec

\* Where main has started the thread of the timer, and that of the disk
Timed == {"layout", "disk", "ids", "spawn", "wait", "join", "stop_timer", "join_timer"}
Drives == {"ids", "spawn", "wait", "join", "stop_timer", "join_timer", "stop_disk", "join_disk"}

\* A thread runs from its start to its join, and is told to end before the join.
EndInv ==
  /\ main \in Timed => timer_thread \in {"runs", "ended"}
  /\ main \in Drives => disk_thread \in {"runs", "ended"}
  /\ main = "join" => vm_halted
  /\ main = "join_timer" => ~timer_run
  /\ main = "join_disk" => ~disk_run

\* What main waits for at each pthread_join has been told to end: the cores by
\* halted, the threads of the timer and of the disk by their flags.
JoinsEnd ==
  /\ main = "join" => vm_halted
  /\ main = "join_timer" => timer_thread = "ended" \/ (timer_thread = "runs" /\ ~timer_run)
  /\ main = "join_disk" => disk_thread = "ended" \/ (disk_thread = "runs" /\ ~disk_run)

\* main joins no thread that was never started, has been joined before, or was not
\* told to end, on any way through its start and its end.  (A core in the prompt
\* of the debugger still waits for its user.)
THEOREM JoinsCorrect == HostSpec => []JoinsEnd
<1>1. HostInit => EndInv
  BY DEF HostInit, EndInv, Timed, Drives
<1>2. EndInv /\ [HostNext]_host => EndInv'
  <2> SUFFICES ASSUME EndInv, [HostNext]_host PROVE EndInv'
    OBVIOUS
  <2> USE DEF EndInv, Timed, Drives
  <2>u. /\ UNCHANGED <<main, timer_thread, disk_thread, timer_run, disk_run>>
        /\ vm_halted => vm_halted'
        => EndInv'
    BY SMT
  <2>p. Panic => EndInv'
    BY DEF Panic, Goto
  <2>1. CASE LoadHeader \/ LoadText \/ LoadData
    BY <2>1 DEF LoadHeader, LoadText, LoadData, Goto
  <2>2. ASSUME NEW k \in DOMAIN Blocks, Alloc(k) PROVE EndInv'
    <3>1. main' \notin Timed /\ main' \notin Drives
      <4>1. k < Len(Blocks) => Blocks[k + 1] \in {"cpus", "released", "bitmap", "memory", "fbs", "rows"}
        BY DEF Blocks
      <4> QED
        BY <2>2, <4>1 DEF Alloc, Goto
    <3> QED
      BY <3>1
  <2>3. CASE StartTimer \/ Layout \/ StartDisk \/ Ids
    BY <2>3, <2>p DEF StartTimer, Layout, StartDisk, Ids, Goto, threads
  <2>4. CASE SpawnCore
    BY <2>4, <2>p DEF SpawnCore, Goto, threads
  <2>5. CASE Wait \/ Join
    BY <2>5 DEF Wait, Join, Goto, threads
  <2>6. CASE StopTimer \/ JoinTimer \/ StopDisk \/ JoinDisk \/ FreeImage
    BY <2>6 DEF StopTimer, JoinTimer, StopDisk, JoinDisk, FreeImage, Goto, threads
  <2>7. CASE Quit \/ Bsp \/ Leave
    BY <2>7, <2>u DEF Quit, Bsp, DebugTest, Interrupts, Execute, Leave, Move, process, threads
  <2>8. CASE Crash
    BY <2>8, <2>p DEF Crash
  <2>9. CASE TimerEnds \/ DiskEnds
    BY <2>9 DEF TimerEnds, DiskEnds, process
  <2>10. ASSUME NEW c \in HostCores, Thread(c) PROVE EndInv'
    BY <2>10, <2>u DEF Thread, ThreadStart, ThreadEnd, Move, process
  <2>11. ASSUME NEW a \in Addrs, Break(a) \/ Delete(a) PROVE EndInv'
    BY <2>11, <2>u DEF Break, Delete, process, threads
  <2>12. CASE UNCHANGED host
    BY <2>12, <2>u DEF host, process, threads
  <2> QED
    BY <2>1, <2>2, <2>3, <2>4, <2>5, <2>6, <2>7, <2>8, <2>9, <2>10, <2>11, <2>12 DEF HostNext, Main
<1>3. EndInv => JoinsEnd
  BY DEF EndInv, JoinsEnd, Timed, Drives
<1> QED
  BY <1>1, <1>2, <1>3, PTL DEF HostSpec

----------------------------------------------------------------------------
(* The debugger. *)

\* Lists of breakpoints have no address twice.
Lists == {s \in Seq(Addrs) : IsInjective(s)}

LEMMA ListSize ==
  ASSUME NEW list \in Lists
  PROVE  Cardinality(ToSet(list)) = Len(list)
<1>1. Len(list) \in Nat /\ DOMAIN list = 1 .. Len(list)
  BY DEF Lists
<1>2. list \in Bijection(1 .. Len(list), ToSet(list))
  <2>1. list \in [1 .. Len(list) -> ToSet(list)]
    BY <1>1 DEF Lists, ToSet
  <2>2. \A y \in ToSet(list) : \E i \in 1 .. Len(list) : list[i] = y
    BY <1>1 DEF ToSet
  <2> QED
    BY <1>1, <2>1, <2>2 DEF Bijection, Injection, Surjection, IsInjective, Lists
<1>3. ExistsBijection(1 .. Len(list), ToSet(list))
  BY <1>2 DEF ExistsBijection
<1> QED
  BY <1>1, <1>3, FS_CountingElements

\* add_breakpoint: duplicates and what does not fit are ignored.
LEMMA AddedIs ==
  ASSUME NEW list \in Lists, NEW a \in Addrs
  PROVE  /\ Added(list, a) \in Lists
         /\ ToSet(Added(list, a)) = IF Cardinality(ToSet(list)) < MaxBreaks
                                      THEN ToSet(list) \cup {a} ELSE ToSet(list)
<1>0. Len(list) \in Nat /\ DOMAIN list = 1 .. Len(list) /\ list \in Seq(Addrs) /\ MaxBreaks \in Nat
  BY HostAssumption DEF Lists
<1>1. Cardinality(ToSet(list)) = Len(list)
  BY ListSize
<1>2. CASE a \in ToSet(list) \/ Len(list) >= MaxBreaks
  <2>1. Added(list, a) = list
    BY <1>2 DEF Added
  <2> QED
    BY <1>0, <1>1, <1>2, <2>1
<1>3. CASE ~(a \in ToSet(list) \/ Len(list) >= MaxBreaks)
  <2> DEFINE new == Append(list, a)
  <2>1. Added(list, a) = new
    BY <1>3 DEF Added
  <2>2. /\ new \in Seq(Addrs) /\ DOMAIN new = 1 .. Len(list) + 1
        /\ \A i \in 1 .. Len(list) : new[i] = list[i]
        /\ new[Len(list) + 1] = a
    BY <1>0
  <2> HIDE DEF new
  <2>3. \A i \in 1 .. Len(list) : list[i] \in ToSet(list) /\ list[i] # a
    BY <1>0, <1>3 DEF ToSet
  <2>4. IsInjective(new)
    <3> SUFFICES ASSUME NEW i \in DOMAIN new, NEW j \in DOMAIN new, new[i] = new[j]
                 PROVE  i = j
      BY DEF IsInjective
    <3>1. CASE i \in 1 .. Len(list) /\ j \in 1 .. Len(list)
      BY <1>0, <2>2, <3>1 DEF Lists, IsInjective
    <3>2. CASE i = Len(list) + 1 \/ j = Len(list) + 1
      <4>1. \A k \in DOMAIN new : k # Len(list) + 1 => k \in 1 .. Len(list) /\ new[k] # a
        BY <1>0, <2>2, <2>3
      <4> QED
        BY <2>2, <3>2, <4>1
    <3> QED
      BY <1>0, <2>2, <3>1, <3>2
  <2>5. ToSet(new) = ToSet(list) \cup {a}
    <3>1. ASSUME NEW x \in ToSet(new) PROVE x \in ToSet(list) \cup {a}
      <4>1. PICK i \in DOMAIN new : x = new[i]
        BY DEF ToSet
      <4>2. i \in 1 .. Len(list) \/ i = Len(list) + 1
        BY <1>0, <2>2
      <4> QED
        BY <2>2, <2>3, <4>1, <4>2
    <3>2. ASSUME NEW x \in ToSet(list) PROVE x \in ToSet(new)
      <4>1. PICK i \in 1 .. Len(list) : x = list[i]
        BY <1>0 DEF ToSet
      <4>2. i \in DOMAIN new /\ x = new[i]
        BY <1>0, <2>2, <4>1
      <4> QED
        BY <4>2 DEF ToSet
    <3>3. a \in ToSet(new)
      <4>1. Len(list) + 1 \in DOMAIN new
        BY <1>0, <2>2
      <4> QED
        BY <2>2, <4>1 DEF ToSet
    <3> QED
      BY <3>1, <3>2, <3>3
  <2>6. Len(list) < MaxBreaks
    BY <1>0, <1>3
  <2> QED
    BY <1>1, <2>1, <2>2, <2>4, <2>5, <2>6 DEF Lists
<1> QED
  BY <1>2, <1>3

\* remove_breakpoint: the address goes and no other.
LEMMA RemovedIs ==
  ASSUME NEW list \in Lists, NEW a \in Addrs
  PROVE  Removed(list, a) \in Lists /\ ToSet(Removed(list, a)) = ToSet(list) \ {a}
<1> DEFINE n == Len(list)
<1>0. n \in Nat /\ DOMAIN list = 1 .. n /\ list \in Seq(Addrs)
  BY DEF Lists
<1> HIDE DEF n
<1>1. CASE a \notin ToSet(list)
  <2>1. Removed(list, a) = list
    BY <1>1 DEF Removed
  <2> QED
    BY <1>1, <2>1
<1>2. CASE a \in ToSet(list)
  <2> DEFINE i == CHOOSE i \in DOMAIN list : list[i] = a
             moved == [list EXCEPT ![i] = Last(list)]
             new == Front(moved)
  <2>1. i \in 1 .. n /\ list[i] = a
    <3>1. \E k \in DOMAIN list : list[k] = a
      BY <1>2 DEF ToSet
    <3> QED
      BY <1>0, <3>1
  <2>2. Removed(list, a) = new
    BY <1>2 DEF Removed
  <2> HIDE DEF i
  <2>3. n \in 1 .. n /\ Last(list) = list[n] /\ list[n] \in Addrs
    BY <1>0, <2>1 DEF Last, n
  <2>4. /\ moved \in Seq(Addrs) /\ Len(moved) = n
        /\ \A k \in 1 .. n : moved[k] = IF k = i THEN list[n] ELSE list[k]
    <3>1. moved \in [1 .. n -> Addrs] /\ \A k \in 1 .. n : moved[k] = IF k = i THEN list[n] ELSE list[k]
      BY <1>0, <2>1, <2>3
    <3> HIDE DEF moved
    <3> QED
      BY <1>0, <3>1
  <2> HIDE DEF moved
  <2>5. /\ new \in Seq(Addrs) /\ DOMAIN new = 1 .. n - 1
        /\ \A k \in 1 .. n - 1 : new[k] = IF k = i THEN list[n] ELSE list[k]
    <3>1. new = SubSeq(moved, 1, n - 1)
      BY <2>4 DEF Front
    <3>2. /\ SubSeq(moved, 1, n - 1) \in Seq(Addrs) /\ Len(SubSeq(moved, 1, n - 1)) = n - 1
          /\ \A k \in 1 .. n - 1 : SubSeq(moved, 1, n - 1)[k] = moved[k]
      BY <2>3, <2>4
    <3> QED
      BY <1>0, <2>4, <3>1, <3>2
  <2> HIDE DEF new
  \* Where the entry at k was before
  <2> DEFINE From(k) == IF k = i THEN n ELSE k
  <2>6. \A k \in 1 .. n - 1 : From(k) \in 1 .. n /\ From(k) # i /\ new[k] = list[From(k)]
    BY <1>0, <2>1, <2>5
  <2>7. \A j, k \in 1 .. n : list[j] = list[k] => j = k
    BY <1>0 DEF Lists, IsInjective
  <2>8. IsInjective(new)
    <3> SUFFICES ASSUME NEW j \in 1 .. n - 1, NEW k \in 1 .. n - 1, new[j] = new[k]
                 PROVE  j = k
      BY <2>5 DEF IsInjective
    <3>1. From(j) = From(k)
      <4> HIDE DEF From
      <4> QED
        BY <2>6, <2>7
    <3> QED
      BY <1>0, <3>1
  <2>9. ToSet(new) = ToSet(list) \ {a}
    <3>1. ASSUME NEW x \in ToSet(new) PROVE x \in ToSet(list) \ {a}
      <4>1. PICK k \in 1 .. n - 1 : x = new[k]
        BY <2>5 DEF ToSet
      <4>2. From(k) \in 1 .. n /\ From(k) # i /\ x = list[From(k)]
        BY <2>6, <4>1
      <4> HIDE DEF From
      <4>3. x # a
        BY <2>1, <2>7, <4>2
      <4>4. x \in ToSet(list)
        BY <1>0, <4>2 DEF ToSet
      <4> QED
        BY <4>3, <4>4
    <3>2. ASSUME NEW x \in ToSet(list), x # a PROVE x \in ToSet(new)
      <4>1. PICK k \in 1 .. n : x = list[k]
        BY <1>0 DEF ToSet
      <4>2. k # i
        BY <2>1, <3>2, <4>1
      <4> DEFINE to == IF k = n THEN i ELSE k
      <4>3. to \in 1 .. n - 1 /\ From(to) = k
        BY <1>0, <2>1, <4>2
      <4> HIDE DEF From, to
      <4>4. x = new[to]
        BY <2>6, <4>1, <4>3
      <4> QED
        BY <2>5, <4>3, <4>4 DEF ToSet
    <3> QED
      BY <3>1, <3>2
  <2> QED
    BY <2>2, <2>5, <2>8, <2>9 DEF Lists
<1> QED
  BY <1>1, <1>2

\* load_breakpoints_from_env makes such a list of any addresses.
LEMMA FromEnvIs ==
  ASSUME NEW env \in Seq(Addrs)
  PROVE  FromEnv(env) \in Lists
<1> DEFINE n == Len(env)
<1>0. n \in Nat /\ \A i \in 1 .. n : env[i] \in Addrs
  OBVIOUS
<1>1. <<>> \in Lists
  BY DEF Lists, IsInjective
<1>2. ASSUME NEW B \in SUBSET Nat, B # {}
      PROVE  \E m \in B : m = 0 \/ m - 1 \notin B
  <2> DEFINE R == OpToRel(<, Nat)
  <2>1. IsWellFoundedOn(R, Nat)
    BY NatLessThanWellFounded
  <2>2. \A x, y \in Nat : <<y, x>> \in R <=> y < x
    BY DEF OpToRel
  <2> HIDE DEF R
  <2>3. PICK m \in B : \A y \in B : ~(<<y, m>> \in R)
    BY <1>2, <2>1, WFMin
  <2>4. m - 1 \notin B
    <3> SUFFICES ASSUME m - 1 \in B PROVE FALSE
      OBVIOUS
    <3>1. m \in Nat /\ m - 1 \in Nat /\ m - 1 < m
      OBVIOUS
    <3> QED
      BY <2>2, <2>3, <3>1
  <2> QED
    BY <2>4
<1> HIDE DEF n
\* A function that has the list after each of the first m addresses exists,
<1> DEFINE Begins(f, m) ==
             /\ f \in [0 .. m -> Lists]
             /\ \A i \in 0 .. m : f[i] = IF i = 0 THEN <<>> ELSE Added(f[i - 1], env[i])
           Missing == {m \in Nat : m <= n /\ ~\E f : Begins(f, m)}
<1>3. Missing = {}
  <2> SUFFICES ASSUME Missing # {} PROVE FALSE
    OBVIOUS
  <2>1. PICK m \in Missing : m = 0 \/ m - 1 \notin Missing
    BY <1>2
  <2>2. m \in Nat /\ m <= n /\ ~\E f : Begins(f, m)
    OBVIOUS
  <2>3. CASE m = 0
    <3> DEFINE g == [i \in 0 .. m |-> <<>>]
    <3>1. Begins(g, m)
      BY <1>1, <2>3
    <3> QED
      BY <2>2, <3>1
  <2>4. CASE m # 0
    <3> DEFINE k == m - 1
    <3>1. k \in Nat /\ k <= n /\ m = k + 1 /\ m \in 1 .. n
      BY <1>0, <2>2, <2>4
    <3>2. PICK f : Begins(f, k)
      BY <2>1, <2>4, <3>1
    <3> HIDE DEF k
    <3> DEFINE g == [i \in 0 .. m |-> IF i = m THEN Added(f[k], env[m]) ELSE f[i]]
    <3>3. f[k] \in Lists /\ \A i \in 0 .. m : i # m => i \in 0 .. k /\ f[i] \in Lists
      BY <3>1, <3>2
    <3>4. Added(f[k], env[m]) \in Lists
      BY <1>0, <3>1, <3>3, AddedIs
    <3>5. g \in [0 .. m -> Lists]
      BY <3>3, <3>4
    <3>6. ASSUME NEW i \in 0 .. m
          PROVE  g[i] = IF i = 0 THEN <<>> ELSE Added(g[i - 1], env[i])
      <4>1. CASE i = m
        <5>1. i # 0 /\ i - 1 = k /\ k \in 0 .. m /\ k # m
          BY <2>2, <3>1, <4>1
        <5> QED
          BY <4>1, <5>1
      <4>2. CASE i # m
        <5>1. i \in 0 .. k /\ (i # 0 => i - 1 \in 0 .. m /\ i - 1 # m)
          BY <2>2, <3>1, <4>2
        <5> QED
          BY <3>2, <4>2, <5>1
      <4> QED
        BY <4>1, <4>2
    <3>7. Begins(g, m)
      BY <3>5, <3>6
    <3> QED
      BY <2>2, <3>7
  <2> QED
    BY <2>3, <2>4
<1>4. PICK h : Begins(h, n)
  BY <1>0, <1>3
\* and every function that the definition can mean has lists.
<1> DEFINE W(f) == [i \in 0 .. n |-> IF i = 0 THEN <<>> ELSE Added(f[i - 1], env[i])]
           f == CHOOSE f : f = W(f)
<1>5. FromEnv(env) = f[n]
  BY DEF FromEnv, n
<1>6. h = W(h)
  BY <1>4
<1> HIDE DEF Begins, Missing, W
<1>7. f = W(f)
  BY <1>6
<1> HIDE DEF f
<1>8. \A i \in 0 .. n : f[i] = IF i = 0 THEN <<>> ELSE Added(f[i - 1], env[i])
  BY <1>7 DEF W
<1> DEFINE Wrong == {i \in Nat : i <= n /\ f[i] \notin Lists}
<1>9. Wrong = {}
  <2> SUFFICES ASSUME Wrong # {} PROVE FALSE
    OBVIOUS
  <2>1. PICK i \in Wrong : i = 0 \/ i - 1 \notin Wrong
    BY <1>2
  <2>2. i \in 0 .. n /\ f[i] \notin Lists
    BY <1>0
  <2>3. i # 0
    BY <1>1, <1>8, <2>2
  <2>4. f[i - 1] \in Lists /\ i \in 1 .. n
    BY <1>0, <2>1, <2>2, <2>3
  <2>5. f[i] = Added(f[i - 1], env[i])
    BY <1>8, <2>2, <2>3
  <2> QED
    BY <1>0, <2>2, <2>4, <2>5, AddedIs
<1> QED
  BY <1>0, <1>5, <1>9

\* The list is what was asked for, and core 0 goes past the test of its address
\* only with a stop or where there is no breakpoint.
DebugInv ==
  /\ breakpoints \in Lists /\ wanted = ToSet(breakpoints)
  /\ core \in [HostCores -> {"none", "start", "loop", "prompt", "interrupts", "execute", "ended"}]
  /\ core[0] = "prompt" => stopped
  /\ core[0] \in {"interrupts", "execute"} /\ ip \in wanted => stopped

LEMMA DebugInit == HostInit => DebugInv
<1> SUFFICES ASSUME HostInit PROVE DebugInv
  OBVIOUS
<1>1. breakpoints \in Lists /\ wanted = ToSet(breakpoints)
  BY HostAssumption, FromEnvIs DEF HostInit
<1> QED
  BY <1>1, HostAssumption DEF HostInit, DebugInv

LEMMA DebugStep == DebugInv /\ [HostNext]_host => DebugInv'
<1> SUFFICES ASSUME DebugInv, [HostNext]_host PROVE DebugInv'
  OBVIOUS
<1>0. 0 \in HostCores
  BY HostAssumption
<1>u. UNCHANGED <<core, debug>> => DebugInv'
  BY DEF DebugInv, debug
<1>1. CASE UNCHANGED host
  BY <1>1, <1>u DEF host, threads
<1>2. CASE Main
  <2>1. CASE SpawnCore
    <3>1. UNCHANGED debug /\ (UNCHANGED core \/ \E c \in NotMade : core' = [core EXCEPT ![c] = "start"])
      BY <2>1 DEF SpawnCore, Panic, threads
    <3> QED
      BY <1>0, <1>u, <3>1 DEF DebugInv, debug, NotMade
  <2>2. CASE ~SpawnCore
    BY <1>2, <2>2, <1>u DEF Main, LoadHeader, LoadText, LoadData, Alloc, StartTimer, Layout, StartDisk,
       Ids, Wait, Join, StopTimer, JoinTimer, StopDisk, JoinDisk, FreeImage, Panic, threads
  <2> QED
    BY <2>1, <2>2
<1>3. CASE Quit \/ Crash \/ TimerEnds \/ DiskEnds
  BY <1>3, <1>u DEF Quit, Crash, TimerEnds, DiskEnds, Panic, threads
<1>4. ASSUME NEW c \in HostCores, Thread(c) PROVE DebugInv'
  <2>1. UNCHANGED debug /\ \E l \in {"loop", "ended"} : core' = [core EXCEPT ![c] = l]
    BY <1>4 DEF Thread, ThreadStart, ThreadEnd, Move
  <2> QED
    BY <1>0, <2>1 DEF DebugInv, debug
<1>5. CASE DebugTest
  <2>1. /\ core' = [core EXCEPT ![0] = IF Pauses THEN "prompt" ELSE "interrupts"]
        /\ stopped' = Pauses /\ UNCHANGED <<ip, breakpoints, wanted>>
    BY <1>5 DEF DebugTest, Move
  <2>2. ip \in wanted => Pauses
    BY DEF DebugInv, Pauses
  <2> QED
    BY <1>0, <2>1, <2>2 DEF DebugInv
<1>6. CASE Leave
  <2>1. core[0] = "prompt" /\ core' = [core EXCEPT ![0] = "interrupts"]
    BY <1>6 DEF Leave, At, Move
  <2>2. UNCHANGED <<ip, breakpoints, wanted, stopped>>
    BY <1>6 DEF Leave
  <2> QED
    BY <1>0, <2>1, <2>2 DEF DebugInv
<1>7. CASE Interrupts
  <2>1. /\ core[0] = "interrupts" /\ core' = [core EXCEPT ![0] = "execute"]
        /\ UNCHANGED <<breakpoints, wanted>>
        /\ UNCHANGED <<ip, stopped>> \/ stopped'
    BY <1>7 DEF Interrupts, At, Move
  <2> QED
    BY <1>0, <2>1 DEF DebugInv
<1>8. CASE Execute
  <2>1. core' = [core EXCEPT ![0] = "loop"] /\ UNCHANGED <<breakpoints, wanted>>
    BY <1>8 DEF Execute, Move
  <2> QED
    BY <1>0, <2>1 DEF DebugInv
<1>9. ASSUME NEW a \in Addrs, Break(a) \/ Delete(a) PROVE DebugInv'
  <2>0. core[0] = "prompt" /\ UNCHANGED <<core, stopped>>
    BY <1>9 DEF Break, Delete, At, threads
  <2>1. breakpoints' \in Lists /\ wanted' = ToSet(breakpoints')
    <3>1. CASE Break(a)
      BY <3>1, AddedIs DEF Break, DebugInv
    <3>2. CASE Delete(a)
      BY <3>2, RemovedIs DEF Delete, DebugInv
    <3> QED
      BY <1>9, <3>1, <3>2
  <2> QED
    BY <2>0, <2>1 DEF DebugInv
<1> QED
  BY <1>1, <1>2, <1>3, <1>4, <1>5, <1>6, <1>7, <1>8, <1>9 DEF HostNext, Bsp

\* Core 0 executes no instruction at a breakpoint without a stop, whatever is
\* in VM_BREAKPOINTS and through any sequence of b and d at the prompt, with
\* duplicates and a full list.
THEOREM BreakpointsCorrect == HostSpec => BreakpointStops
<1>1. DebugInv => (core[0] = "execute" /\ core'[0] = "loop" /\ ip \in wanted => stopped)
  BY DEF DebugInv
<1> QED
  BY <1>1, DebugInit, DebugStep, PTL DEF HostSpec, BreakpointStops

----------------------------------------------------------------------------
(* The serial receiver. *)

RingType ==
  /\ serial_rx_fifo \in [Index -> Nat]
  /\ serial_rx_head \in Index /\ serial_rx_tail \in Index

\* The status bit is right, and serial_drain_rx reads only when there is a
\* byte: nothing but the read itself empties the ring.
RingInv ==
  /\ RingType
  /\ rx_ready = IF Empty THEN 0 ELSE 1
  /\ isr = "read" => ~Empty

----------------------------------------------------------------------------
(* Arithmetic modulo Size. *)

\* Sums and differences of two indices wrap at most once.
LEMMA Wrap ==
  ASSUME NEW a \in Int
  PROVE  /\ 0 <= a /\ a < Size => a % Size = a
         /\ Size <= a /\ a < 2 * Size => a % Size = a - Size
         /\ -Size <= a /\ a < 0 => a % Size = a + Size
<1>0. Size \in Nat \ {0}
  BY SerialAssumption
<1>1. ASSUME 0 <= a, a < Size PROVE a % Size = a
  BY <1>0, <1>1
<1>2. ASSUME Size <= a, a < 2 * Size PROVE a % Size = a - Size
  BY <1>0, <1>2
<1>3. ASSUME -Size <= a, a < 0 PROVE a % Size = a + Size
  BY <1>0, <1>3
<1> QED
  BY <1>1, <1>2, <1>3

\* Succ is the next index of the ring.
LEMMA SuccIs ==
  ASSUME NEW i \in Index
  PROVE  Succ(i) \in Index /\ Succ(i) = IF i = Size - 1 THEN 0 ELSE i + 1
<1>0. Size \in Nat /\ Size > 1 /\ i \in Int /\ 0 <= i /\ i < Size
  BY SerialAssumption DEF Index
<1>1. CASE i = Size - 1
  BY <1>0, <1>1, Wrap DEF Succ, Index
<1>2. CASE i # Size - 1
  BY <1>0, <1>2, Wrap DEF Succ, Index
<1> QED
  BY <1>1, <1>2

\* The index of the i-th byte, without the modulus.
Place(t, i) == IF t + i - 1 < Size THEN t + i - 1 ELSE t + i - 1 - Size

\* The indices that Queue reads.
LEMMA PlaceIs ==
  ASSUME NEW t \in Index, NEW i \in 1 .. Size
  PROVE  (t + i - 1) % Size = Place(t, i) /\ Place(t, i) \in Index
<1>0. /\ Size \in Nat /\ Size > 1 /\ t \in Int /\ 0 <= t /\ t < Size
      /\ i \in Int /\ 1 <= i /\ i <= Size
  BY SerialAssumption DEF Index
<1>1. CASE t + i - 1 < Size
  BY <1>0, <1>1, Wrap DEF Place, Index
<1>2. CASE ~(t + i - 1 < Size)
  BY <1>0, <1>2, Wrap DEF Place, Index
<1> QED
  BY <1>1, <1>2

\* The number of bytes between two indices, without the modulus.
Between(t, h) == IF t <= h THEN h - t ELSE h - t + Size

\* A ring of Size entries holds at most Size - 1 bytes.
LEMMA CountIs ==
  ASSUME NEW t \in Index, NEW h \in Index
  PROVE  (h - t) % Size = Between(t, h) /\ Between(t, h) \in 0 .. Size - 1
<1>0. /\ Size \in Nat /\ Size > 1 /\ t \in Int /\ 0 <= t /\ t < Size
      /\ h \in Int /\ 0 <= h /\ h < Size
  BY SerialAssumption DEF Index
<1>1. CASE t <= h
  BY <1>0, <1>1, Wrap DEF Between
<1>2. CASE ~(t <= h)
  BY <1>0, <1>2, Wrap DEF Between
<1> QED
  BY <1>1, <1>2

----------------------------------------------------------------------------
(* The queue that the ring holds. *)

QueueOf(f, t, h) == [i \in 1 .. Between(t, h) |-> f[Place(t, i)]]

\* Queue is the sequence of the bytes between the two indices.
LEMMA QueueIs ==
  ASSUME RingType
  PROVE  Queue = QueueOf(serial_rx_fifo, serial_rx_tail, serial_rx_head)
<1>1. Count = Between(serial_rx_tail, serial_rx_head) /\ Count \in 0 .. Size - 1
  BY CountIs DEF Count, RingType
<1>2. \A i \in 1 .. Count : i \in 1 .. Size
  BY <1>1, SerialAssumption
<1>3. \A i \in 1 .. Count : (serial_rx_tail + i - 1) % Size = Place(serial_rx_tail, i)
  BY <1>2, PlaceIs DEF RingType
<1> QED
  BY <1>1, <1>3 DEF Queue, QueueOf

\* A byte stored at the head is appended.
LEMMA PutAppends ==
  ASSUME NEW f \in [Index -> Nat], NEW t \in Index, NEW h \in Index, NEW c \in Nat, Succ(h) # t
  PROVE  /\ Len(QueueOf(f, t, h)) < Size - 1
         /\ QueueOf([f EXCEPT ![h] = c], t, Succ(h)) = Append(QueueOf(f, t, h), c)
<1>0. /\ Size \in Nat /\ Size > 1 /\ t \in Int /\ 0 <= t /\ t < Size
      /\ h \in Int /\ 0 <= h /\ h < Size
  BY SerialAssumption DEF Index
<1>1. Succ(h) = IF h = Size - 1 THEN 0 ELSE h + 1
  BY SuccIs
<1>2. Between(t, Succ(h)) = Between(t, h) + 1 /\ Between(t, h) \in 0 .. Size - 2
  BY <1>0, <1>1 DEF Between
<1> DEFINE n == Between(t, h)
           q == QueueOf(f, t, h)
           g == [f EXCEPT ![h] = c]
<1>3. q \in Seq(Nat) /\ Len(q) = n
  <2>1. ASSUME NEW i \in 1 .. n PROVE f[Place(t, i)] \in Nat
    <3>1. i \in 1 .. Size
      BY <1>0, <1>2
    <3> QED
      BY <3>1, PlaceIs
  <2>2. q \in [1 .. n -> Nat] /\ n \in Nat
    BY <1>2, <2>1 DEF QueueOf
  <2> QED
    BY <2>2
<1>4. ASSUME NEW i \in 1 .. n + 1
      PROVE  g[Place(t, i)] = IF i = n + 1 THEN c ELSE f[Place(t, i)]
  <2>1. Place(t, i) \in Index
    <3>1. i \in 1 .. Size
      BY <1>0, <1>2
    <3> QED
      BY <3>1, PlaceIs
  <2>2. Place(t, i) = h <=> i = n + 1
    BY <1>0, <1>2 DEF Place, Between
  <2> QED
    BY <2>1, <2>2
<1>5. QueueOf(g, t, Succ(h)) = [i \in 1 .. n + 1 |-> IF i = n + 1 THEN c ELSE f[Place(t, i)]]
  BY <1>2, <1>4 DEF QueueOf
<1>6. Append(q, c) = [i \in 1 .. n + 1 |-> IF i = n + 1 THEN c ELSE q[i]]
  <2> HIDE DEF n, q
  <2>1. /\ Append(q, c) \in Seq(Nat) /\ Len(Append(q, c)) = n + 1
        /\ \A i \in 1 .. n : Append(q, c)[i] = q[i]
        /\ Append(q, c)[n + 1] = c
    BY <1>3, AppendProperties
  <2>2. Append(q, c) \in [1 .. n + 1 -> Nat]
    BY <2>1, LenProperties
  <2>3. \A i \in 1 .. n + 1 : i # n + 1 => i \in 1 .. n
    BY <1>2 DEF n
  <2>4. \A i \in 1 .. n + 1 : Append(q, c)[i] = IF i = n + 1 THEN c ELSE q[i]
    BY <2>1, <2>3
  <2> QED
    BY <2>2, <2>4
<1>7. \A i \in 1 .. n : q[i] = f[Place(t, i)]
  BY DEF QueueOf
<1>8. \A i \in 1 .. n + 1 : i # n + 1 => i \in 1 .. n
  BY <1>2
<1> HIDE DEF n, q, g
<1>9. QueueOf(g, t, Succ(h)) = Append(q, c)
  BY <1>5, <1>6, <1>7, <1>8
<1>10. n < Size - 1
  BY <1>0, <1>2 DEF n
<1>11. Len(q) < Size - 1
  BY <1>3, <1>10
<1> QED
  BY <1>9, <1>11 DEF q, g

\* A byte taken at the tail is the head of the queue.
LEMMA GetIsHead ==
  ASSUME NEW f \in [Index -> Nat], NEW t \in Index, NEW h \in Index, t # h
  PROVE  /\ QueueOf(f, t, h) # <<>>
         /\ Head(QueueOf(f, t, h)) = f[t]
         /\ Tail(QueueOf(f, t, h)) = QueueOf(f, Succ(t), h)
<1>0. /\ Size \in Nat /\ Size > 1 /\ t \in Int /\ 0 <= t /\ t < Size
      /\ h \in Int /\ 0 <= h /\ h < Size
  BY SerialAssumption DEF Index
<1>1. Succ(t) = IF t = Size - 1 THEN 0 ELSE t + 1
  BY SuccIs
<1> DEFINE n == Between(t, h)
           q == QueueOf(f, t, h)
<1>2. Between(Succ(t), h) = n - 1 /\ n \in 1 .. Size - 1
  BY <1>0, <1>1 DEF Between
<1>3. q \in Seq(Nat) /\ Len(q) = n
  <2>1. ASSUME NEW i \in 1 .. n PROVE f[Place(t, i)] \in Nat
    <3>1. i \in 1 .. Size
      BY <1>0, <1>2
    <3> QED
      BY <3>1, PlaceIs
  <2>2. q \in [1 .. n -> Nat] /\ n \in Nat
    BY <1>2, <2>1 DEF QueueOf
  <2> QED
    BY <2>2
<1>4. Place(t, 1) = t
  BY <1>0 DEF Place
<1>5. \A i \in 1 .. n - 1 : Place(Succ(t), i) = Place(t, i + 1) /\ i + 1 \in 1 .. n
  BY <1>0, <1>1, <1>2 DEF Place
<1>6. \A i \in 1 .. n : q[i] = f[Place(t, i)]
  BY DEF QueueOf
<1>7. QueueOf(f, Succ(t), h) = [i \in 1 .. n - 1 |-> q[i + 1]]
  BY <1>2, <1>5, <1>6 DEF QueueOf
<1> HIDE DEF n, q
<1>8. q # <<>> /\ Head(q) = q[1] /\ Tail(q) = [i \in 1 .. n - 1 |-> q[i + 1]]
  <2>1. q # <<>> /\ Head(q) = q[1]
    BY <1>2, <1>3
  <2>2. /\ Tail(q) \in Seq(Nat) /\ Len(Tail(q)) = n - 1
        /\ \A i \in 1 .. n - 1 : Tail(q)[i] = q[i + 1]
    BY <1>3, <2>1, HeadTailProperties
  <2>3. Tail(q) \in [1 .. n - 1 -> Nat]
    BY <2>2, LenProperties
  <2> QED
    BY <2>1, <2>2, <2>3
<1>9. q[1] = f[t]
  BY <1>2, <1>4, <1>6
<1> QED
  BY <1>7, <1>8, <1>9 DEF q

----------------------------------------------------------------------------
(* The refinement. *)

\* The ring starts empty.
LEMMA RingInit == Init => RingInv /\ Bounded!Init
<1> SUFFICES ASSUME Init PROVE RingInv /\ Bounded!Init
  OBVIOUS
<1>1. 0 \in Index
  BY SerialAssumption DEF Index
<1>2. RingInv
  BY <1>1 DEF Init, RingInv, RingType, Empty
<1>3. Between(0, 0) = 0
  BY DEF Between
<1>4. Queue = <<>>
  BY <1>2, <1>3, QueueIs DEF Init, RingInv, QueueOf
<1> QED
  BY <1>2, <1>4 DEF Init, Bounded!Init

\* The host's thread and core 0 keep the ring and its status bit together.
LEMMA RingStep == RingInv /\ [Next]_vars => RingInv'
<1> SUFFICES ASSUME RingInv, [Next]_vars PROVE RingInv'
  OBVIOUS
<1> USE DEF RingInv, RingType, Empty
<1>1. ASSUME NEW c \in Bytes, Enqueue(c) PROVE RingInv'
  <2>1. Succ(serial_rx_head) \in Index /\ Succ(serial_rx_head) # serial_rx_head /\ c \in Nat
    <3>1. serial_rx_head \in Int /\ Size \in Int /\ Size > 1
      BY SerialAssumption DEF Index
    <3> QED
      BY <3>1, SuccIs, SerialAssumption
  <2>2. serial_rx_fifo' \in [Index -> Nat]
    BY <1>1, <2>1 DEF Enqueue
  <2>3. serial_rx_head' \in Index /\ serial_rx_tail' \in Index
    BY <1>1, <2>1 DEF Enqueue
  <2>4. serial_rx_head' # serial_rx_tail' /\ rx_ready' = 1
    BY <1>1, <2>1 DEF Enqueue
  <2> QED
    BY <2>2, <2>3, <2>4
<1>2. CASE InKeyboard
  <2>1. Succ(serial_rx_tail) \in Index
    BY SuccIs
  <2>2. serial_rx_tail' \in Index /\ UNCHANGED <<serial_rx_fifo, serial_rx_head>>
    BY <1>2, <2>1 DEF InKeyboard
  <2>3. rx_ready' = (IF serial_rx_head' = serial_rx_tail' THEN 0 ELSE 1) /\ isr' = "status"
    BY <1>2 DEF InKeyboard
  <2> QED
    BY <2>2, <2>3
<1>3. CASE EnterIsr
  BY <1>3 DEF EnterIsr, ring
<1>7. CASE EnterTrap \/ LeaveTrap
  BY <1>7 DEF EnterTrap, LeaveTrap, ring
<1>4. CASE InStatus
  BY <1>4 DEF InStatus, ring
<1>5. CASE InputInit
  BY <1>5 DEF InputInit, ring
<1>6. CASE EnqueueFull \/ UNCHANGED vars
  BY <1>6 DEF EnqueueFull, vars, ring
<1> QED
  BY <1>1, <1>2, <1>3, <1>4, <1>5, <1>6, <1>7 DEF Next, Core, Drain

\* Every step of the ring is a Put, a Get or no step of the queue.
LEMMA RingRefines == RingInv /\ RingInv' /\ [Next]_vars => [Bounded!Next]_(Bounded!vars)
<1> SUFFICES ASSUME RingInv, RingInv', [Next]_vars PROVE [Bounded!Next]_(Bounded!vars)
  OBVIOUS
<1> DEFINE f == serial_rx_fifo
           t == serial_rx_tail
           h == serial_rx_head
<1>q. Queue = QueueOf(f, t, h)
  BY QueueIs DEF RingInv
<1>n. Queue' = QueueOf(f', t', h')
  <2>1. RingType'
    BY DEF RingInv
  <2>2. (RingType => Queue = QueueOf(serial_rx_fifo, serial_rx_tail, serial_rx_head))'
    BY QueueIs, PTL
  <2> QED
    BY <2>1, <2>2
<1>t. f \in [Index -> Nat] /\ t \in Index /\ h \in Index
  BY DEF RingInv, RingType
<1>1. ASSUME NEW c \in Bytes, Enqueue(c) PROVE Bounded!Next
  <2>1. c \in Nat /\ Succ(h) # t
    BY <1>1, SerialAssumption DEF Enqueue
  <2>2. f' = [f EXCEPT ![h] = c] /\ h' = Succ(h) /\ t' = t /\ last' = last
    BY <1>1 DEF Enqueue
  <2>3. Len(Queue) < Size - 1 /\ Queue' = Append(Queue, c)
    BY <1>q, <1>n, <1>t, <2>1, <2>2, PutAppends
  <2> QED
    BY <2>2, <2>3 DEF Bounded!Next, Bounded!Put
<1>2. CASE InKeyboard
  <2>1. t # h
    BY <1>2 DEF InKeyboard, RingInv, Empty
  <2>2. f' = f /\ h' = h /\ t' = Succ(t) /\ last' = f[t]
    BY <1>2, <2>1 DEF InKeyboard, Empty
  <2>3. Queue # <<>> /\ last' = Head(Queue) /\ Queue' = Tail(Queue)
    BY <1>q, <1>n, <1>t, <2>1, <2>2, GetIsHead
  <2> QED
    BY <2>3 DEF Bounded!Next, Bounded!Get
<1>3. CASE \/ EnterIsr \/ InStatus \/ EnterTrap \/ LeaveTrap
           \/ InputInit \/ EnqueueFull \/ UNCHANGED vars
  <2>1. UNCHANGED <<ring, last>>
    BY <1>3 DEF EnterIsr, InStatus, EnterTrap, LeaveTrap, InputInit, EnqueueFull, vars
  <2>2. Queue' = Queue
    BY <2>1, <1>q, <1>n DEF ring
  <2> QED
    BY <2>1, <2>2 DEF Bounded!vars
<1> QED
  BY <1>1, <1>2, <1>3 DEF Next, Core, Drain

\* For any size of the ring, what serial_drain_rx feeds to the console is what
\* vm_serial_rx_enqueue accepted, once each and in order.
THEOREM RingImplementsQueue == Spec => ImplementsByteQueue
<1>1. Spec => []RingInv
  BY RingInit, RingStep, PTL DEF Spec
<1> QED
  BY <1>1, RingInit, RingRefines, PTL DEF Spec, ImplementsByteQueue, Bounded!Spec

\* A byte that the window put into the ring after INT_SERIAL was enabled does
\* not lie there unnoticed: the interrupt is pending, or its routine still reads.
InputIsNoticed == int_enable = 1 /\ early = 0 /\ ~Empty => pending = 1 \/ isr \in {"status", "read"}

\* Input has its interrupt: whatever the order of the window's stores and of the
\* routine's reads of the status and the byte, the routine never leaves a byte in
\* the ring without an interrupt that will bring it back.
THEOREM InputHasInterrupt == Spec => []InputIsNoticed
<1>1. Init => InputIsNoticed
  BY DEF Init, InputIsNoticed
<1>2. RingInv /\ InputIsNoticed /\ [Next]_vars => InputIsNoticed'
  <2> SUFFICES ASSUME RingInv, InputIsNoticed, [Next]_vars PROVE InputIsNoticed'
    OBVIOUS
  <2> USE DEF InputIsNoticed, Empty, ring
  <2>1. ASSUME NEW c \in Bytes, Enqueue(c) PROVE InputIsNoticed'
    BY <2>1 DEF Enqueue
  <2>2. CASE EnterIsr
    BY <2>2 DEF EnterIsr
  <2>3. CASE InStatus
    BY <2>3 DEF InStatus, RingInv
  <2>7. CASE EnterTrap \/ LeaveTrap
    BY <2>7 DEF EnterTrap, LeaveTrap
  <2>4. CASE InKeyboard
    BY <2>4 DEF InKeyboard
  <2>5. CASE InputInit
    BY <2>5 DEF InputInit
  <2>6. CASE EnqueueFull \/ UNCHANGED vars
    BY <2>6 DEF EnqueueFull, vars
  <2> QED
    BY <2>1, <2>2, <2>3, <2>4, <2>5, <2>6, <2>7 DEF Next, Core, Drain
<1> QED
  BY <1>1, <1>2, RingInit, RingStep, PTL DEF Spec
=============================================================================
