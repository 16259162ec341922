------------------------------ MODULE FdTable ------------------------------
(***************************************************************************)
(* The descriptor table inside a task slot (kernel/src/sched.c): fdtab maps *)
(* descriptors to entries of the table ofiles, whose entries count the      *)
(* descriptors that refer to them and are freed when the count reaches 0.   *)
(* The slot's life is part of it: sched_spawn fills in stdin, stdout and    *)
(* stderr, sched_exit_code closes what is open, and the slot is used again. *)
(***************************************************************************)
EXTENDS Integers, FiniteSets

CONSTANTS MaxFds, Types, Modes

ASSUME FdAssumption == MaxFds \in Nat /\ MaxFds >= 3

Fds == 0 .. MaxFds - 1
FdArgs == -1 .. MaxFds
NoFile == MaxFds                    \* SCHED_FD_OFILE_INVALID

EBADF  == -1
EMFILE == -2
EINVAL == -3

Attr(type, acc, nb) == [type |-> type, acc |-> acc, nonblock |-> nb]
NoAttr == Attr("NONE", "RDONLY", 0)

VARIABLES
  fdtab,    \* fdtab[fd].ofile_idx, NoFile for an unused entry
  cloexec,  \* the entries of fdtab with FD_CLOEXEC
  used,     \* the entries of ofiles that are used
  refs,     \* ofiles[o].refs
  attr,     \* ofiles[o].type and status_flags
  closing,  \* next descriptor that the exit of the task closes, or -1
  ret       \* result of the last call

vars == <<fdtab, cloexec, used, refs, attr, closing, ret>>
table == <<fdtab, cloexec, used, refs, attr>>

----------------------------------------------------------------------------
(* Helpers. *)

\* Fault: the search for a free entry runs downwards.
IsHighest(i, S) == i \in S /\ \A j \in S : j <= i

IsLowest(i, S) == i \in S /\ \A j \in S : i <= j

FreeFds == {fd \in Fds : fdtab[fd] = NoFile}
FreeFiles == Fds \ used

\* sched_slot_ofile_by_fd finds a file
Open(fd) ==
  /\ fd \in Fds
  /\ fdtab[fd] # NoFile
  /\ fdtab[fd] \in used
  /\ refs[fdtab[fd]] # 0

\* Fault: the reference is not given up.
RefsKept(fd) == refs

\* sched_slot_close_fd: the file loses a reference and is freed with the last
RefsClosed(fd) == [refs EXCEPT ![fdtab[fd]] = @ - 1]
LastRef(fd) == refs[fdtab[fd]] = 1
UsedClosed(fd) == IF LastRef(fd) THEN used \ {fdtab[fd]} ELSE used
AttrClosed(fd) == IF LastRef(fd) THEN [attr EXCEPT ![fdtab[fd]] = NoAttr] ELSE attr

CloseFd(fd) ==
  /\ fdtab' = [fdtab EXCEPT ![fd] = NoFile]
  /\ cloexec' = cloexec \ {fd}
  /\ refs' = RefsClosed(fd)
  /\ used' = UsedClosed(fd)
  /\ attr' = AttrClosed(fd)

Return(r) == ret' = r /\ UNCHANGED closing
Fail(e) == Return(e) /\ UNCHANGED table
Alive == closing = -1

----------------------------------------------------------------------------
\* sched_fd_table_init_stdio
StdioTab == [fd \in Fds |-> IF fd <= 2 THEN fd ELSE NoFile]
StdioRefs == [o \in Fds |-> IF o <= 2 THEN 1 ELSE 0]
StdioAttr ==
  [o \in Fds |-> IF o = 0 THEN Attr("STDIN", "RDONLY", 0)
                 ELSE IF o = 1 THEN Attr("STDOUT", "WRONLY", 0)
                 ELSE IF o = 2 THEN Attr("STDERR", "WRONLY", 0)
                 ELSE NoAttr]

Init ==
  /\ fdtab = StdioTab
  /\ cloexec = {}
  /\ used = 0 .. 2
  /\ refs = StdioRefs
  /\ attr = StdioAttr
  /\ closing = -1
  /\ ret = 0

\* sched_fd_close
Close(fd) ==
  /\ Alive
  /\ \/ ~Open(fd) /\ Fail(EBADF)
     \/ Open(fd) /\ CloseFd(fd) /\ Return(0)

\* sched_fd_dup
Dup(fd) ==
  /\ Alive
  /\ \/ ~Open(fd) /\ Fail(EBADF)
     \/ Open(fd) /\ FreeFds = {} /\ Fail(EMFILE)
     \/ /\ Open(fd)
        /\ \E new \in Fds :
             /\ IsLowest(new, FreeFds)
             /\ fdtab' = [fdtab EXCEPT ![new] = fdtab[fd]]
             /\ cloexec' = cloexec \ {new}
             /\ refs' = [refs EXCEPT ![fdtab[fd]] = @ + 1]
             /\ Return(new)
        /\ UNCHANGED <<used, attr>>

\* sched_fd_dup2: the file that new refers to, if any, is closed first
Dup2(fd, new) ==
  /\ Alive
  /\ \/ new \notin Fds /\ Fail(EINVAL)
     \/ new \in Fds /\ ~Open(fd) /\ Fail(EBADF)
     \/ new \in Fds /\ Open(fd) /\ fd = new /\ Fail(new)
     \/ /\ new \in Fds /\ Open(fd) /\ fd # new
        /\ fdtab' = [fdtab EXCEPT ![new] = fdtab[fd]]
        /\ cloexec' = cloexec \ {new}
        /\ IF Open(new)
             THEN /\ refs' = [RefsClosed(new) EXCEPT ![fdtab[fd]] = @ + 1]
                  /\ used' = UsedClosed(new)
                  /\ attr' = AttrClosed(new)
             ELSE /\ refs' = [refs EXCEPT ![fdtab[fd]] = @ + 1]
                  /\ UNCHANGED <<used, attr>>
        /\ Return(new)

\* sched_fd_fcntl_setfd
SetFd(fd, on) ==
  /\ Alive
  /\ \/ ~Open(fd) /\ Fail(EBADF)
     \/ /\ Open(fd)
        /\ cloexec' = IF on THEN cloexec \cup {fd} ELSE cloexec \ {fd}
        /\ Return(0)
        /\ UNCHANGED <<fdtab, used, refs, attr>>

\* sched_fd_fcntl_setfl: only the nonblocking flag changes
SetFl(fd, nb) ==
  /\ Alive
  /\ \/ ~Open(fd) /\ Fail(EBADF)
     \/ /\ Open(fd)
        /\ attr' = [attr EXCEPT ![fdtab[fd]].nonblock = nb]
        /\ Return(0)
        /\ UNCHANGED <<fdtab, cloexec, used, refs>>

\* sched_fd_open_special
OpenSpecial(type, acc, nb) ==
  /\ Alive
  /\ IF FreeFds = {} \/ FreeFiles = {}
       THEN Fail(EMFILE)
       ELSE \E new, o \in Fds :
              /\ IsLowest(new, FreeFds)
              /\ IsLowest(o, FreeFiles)
              /\ used' = used \cup {o}
              /\ refs' = [refs EXCEPT ![o] = 1]
              /\ attr' = [attr EXCEPT ![o] = Attr(type, acc, nb)]
              /\ fdtab' = [fdtab EXCEPT ![new] = o]
              /\ cloexec' = cloexec \ {new}
              /\ Return(new)

\* sched_slot_close_all_fds, when the task exits: one descriptor after another
Exit ==
  /\ Alive
  /\ closing' = 0
  /\ UNCHANGED <<table, ret>>

ExitClose ==
  /\ closing \in Fds
  /\ IF Open(closing)
       THEN CloseFd(closing) /\ ret' = 0
       ELSE UNCHANGED <<table, ret>>
  /\ closing' = closing + 1

\* The slot is given to a new task: sched_fd_table_clear and the new stdio
Renew ==
  /\ closing = MaxFds
  /\ fdtab' = StdioTab
  /\ cloexec' = {}
  /\ used' = 0 .. 2
  /\ refs' = StdioRefs
  /\ attr' = StdioAttr
  /\ closing' = -1
  /\ UNCHANGED ret

Next ==
  \/ \E fd \in FdArgs : Close(fd)
  \/ \E fd \in FdArgs : Dup(fd)
  \/ \E fd, new \in FdArgs : Dup2(fd, new)
  \/ \E fd \in FdArgs, on \in BOOLEAN : SetFd(fd, on)
  \/ \E fd \in FdArgs, nb \in {0, 1} : SetFl(fd, nb)
  \/ \E t \in Types, m \in Modes, nb \in {0, 1} : OpenSpecial(t, m, nb)
  \/ Exit
  \/ ExitClose
  \/ Renew

Spec == Init /\ [][Next]_vars

----------------------------------------------------------------------------
(* Correctness. *)

AttrType == [type : Types \cup {"STDIN", "STDOUT", "STDERR", "NONE"},
             acc : Modes \cup {"RDONLY", "WRONLY"},
             nonblock : {0, 1}]

\* The tables of a slot stay within their types.
TypeOK ==
  /\ fdtab \in [Fds -> Fds \cup {NoFile}]
  /\ cloexec \subseteq Fds
  /\ used \subseteq Fds
  /\ refs \in [Fds -> Nat]
  /\ attr \in [Fds -> AttrType]
  /\ closing \in -1 .. MaxFds
  /\ ret \in Int

Holders(o) == {fd \in Fds : fdtab[fd] = o}

\* The reference count of a file is the number of descriptors that refer to
\* it, through any sequence of dup, dup2 onto open or aliased descriptors,
\* close and exit; a file is in use exactly while it is referred to.
RefsExact ==
  \A o \in Fds :
    /\ refs[o] = Cardinality(Holders(o))
    /\ o \in used <=> refs[o] # 0

\* After exit has closed its descriptors, a task leaves nothing behind.
ExitLeavesNothing ==
  closing = MaxFds => used = {} /\ cloexec = {} /\ \A fd \in Fds : fdtab[fd] = NoFile

\* The table implements descriptors that share descriptions without counting.
OpenNow == {fd \in Fds : fdtab[fd] # NoFile}
Posix == INSTANCE PosixFds WITH
           ofd  <- [fd \in OpenNow |-> fdtab[fd]],
           attr <- [o \in used |-> attr[o]]

\* The reference-counted table implements the descriptor calls of PosixFds:
\* no count is ever visible to a task, and open fails only when all
\* descriptors are taken, never for want of a file entry.
ImplementsPosixFds == Posix!Spec
=============================================================================
