------------------------------ MODULE Syscalls ------------------------------
(***************************************************************************)
(* The descriptor calls of syscall_dispatch (kernel/src/syscall.c) over the *)
(* descriptor table of the calling task, and the kernel's own test of them, *)
(* fd_selftest_run (kernel/src/fd_selftest.c), which a shell runs any number *)
(* of times while input arrives.  A call publishes its result in the         *)
(* mailbox, from where the test reads it.                                    *)
(***************************************************************************)
EXTENDS FdTable, Sequences

CONSTANT MaxCalls   \* bound: calls that the shell makes outside the test

\* The types and access modes that open_path_to_special and socket give
ASSUME SyscallsAssumption ==
  /\ {"DEV_NULL", "DEV_ZERO", "DEV_TTY", "SOCKET"} \subseteq Types
  /\ {"RDONLY", "RDWR"} \subseteq Modes

VARIABLES
  can_read,   \* console_can_read
  abi,        \* RET and ERRNO of the mailbox
  pc,         \* the next step of the test, 0 before it
  fails,
  dupfd, newfd,  \* the variables dupfd and fd of the test
  old_fl,     \* old_fl0: the flags of stdin before the test
  before,     \* history: the table when the test began
  calls       \* the number of calls of the shell

test == <<pc, fails, dupfd, newfd, old_fl, before, calls>>
sysvars == <<vars, can_read, abi, test>>

Ok(r) == [ret |-> r, err |-> "OK"]
Err(e) == [ret |-> -1, err |-> e]

\* errno_from_sched_fd_rc
FromRc(rc) == CASE rc = EBADF -> Err("EBADF")
                [] rc = EMFILE -> Err("EMFILE")
                [] rc = EINVAL -> Err("EINVAL")
                [] OTHER -> Ok(rc)

----------------------------------------------------------------------------
(* The calls. *)

File(fd) == attr[fdtab[fd]]
TypeOf(fd) == IF Open(fd) THEN File(fd).type ELSE "NONE"
CanRead(fd) == Open(fd) /\ File(fd).acc # "WRONLY"
CanWrite(fd) == Open(fd) /\ File(fd).acc # "RDONLY"
IsConsole(fd) == TypeOf(fd) \in {"STDIN", "DEV_TTY"}

\* fd_read_ready
ReadReady(fd) ==
  /\ CanRead(fd)
  /\ \/ IsConsole(fd) /\ can_read = 1
     \/ TypeOf(fd) \in {"DEV_NULL", "DEV_ZERO"}

Publish(r) == abi' = r
Quiet == UNCHANGED <<vars, can_read>>

\* SYS_READ of len > 0 bytes into memory of the caller.  A console that has
\* nothing to read gives EAGAIN, whether or not the caller may wait; an end of
\* file gives EAGAIN to a caller that may not.
SysRead(fd, len) ==
  /\ UNCHANGED vars
  /\ IF CanRead(fd) /\ IsConsole(fd) /\ can_read = 1
       THEN /\ can_read' \in {0, 1}
            /\ \/ \E n \in 1 .. len : Publish(Ok(n))
               \/ Publish(IF File(fd).nonblock = 1 THEN Err("EAGAIN") ELSE Ok(0))
       ELSE /\ UNCHANGED can_read
            /\ Publish(IF ~CanRead(fd) THEN Err("EBADF")
                       ELSE IF TypeOf(fd) = "DEV_NULL" THEN Ok(0)
                       ELSE IF TypeOf(fd) = "DEV_ZERO" THEN Ok(len)
                       ELSE IF TypeOf(fd) = "SOCKET" THEN Err("ENOTCONN")
                       ELSE Err("EAGAIN"))

\* SYS_WRITE; the console takes everything
SysWrite(fd, len) ==
  /\ Quiet
  /\ Publish(IF ~CanWrite(fd) THEN Err("EBADF")
             ELSE IF TypeOf(fd) = "SOCKET" THEN Err("ENOTCONN")
             ELSE Ok(len))

SysClose(fd) == Close(fd) /\ Publish(FromRc(ret')) /\ UNCHANGED can_read
SysDup(fd) == Dup(fd) /\ Publish(FromRc(ret')) /\ UNCHANGED can_read

\* SYS_FCNTL
SysGetFd(fd) ==
  Quiet /\ Publish(IF Open(fd) THEN Ok(IF fd \in cloexec THEN 1 ELSE 0) ELSE Err("EBADF"))
SysSetFd(fd, on) == SetFd(fd, on = 1) /\ Publish(FromRc(ret')) /\ UNCHANGED can_read
SysGetFl(fd) == Quiet /\ Publish(IF Open(fd) THEN Ok(File(fd).nonblock) ELSE Err("EBADF"))
SysSetFl(fd, nb) == SetFl(fd, nb) /\ Publish(FromRc(ret')) /\ UNCHANGED can_read

\* open_path_to_special
TypeOfPath == [null |-> "DEV_NULL", zero |-> "DEV_ZERO", tty |-> "DEV_TTY"]

\* SYS_OPEN with a legal access mode and a readable path
SysOpen(path, acc) ==
  IF path \in DOMAIN TypeOfPath
    THEN /\ OpenSpecial(TypeOfPath[path], acc, 0)
         /\ Publish(FromRc(ret'))
         /\ UNCHANGED can_read
    ELSE Quiet /\ Publish(Err("ENOENT"))

\* SYS_SOCKET
SysSocket(domain) ==
  IF domain \in {"UNIX", "INET", "INET6"}
    THEN /\ OpenSpecial("SOCKET", "RDWR", 0)
         /\ Publish(FromRc(ret'))
         /\ UNCHANGED can_read
    ELSE Quiet /\ Publish(Err("EAFNOSUPPORT"))

\* SYS_CONNECT to SYS_RECV
SysOnSocket(nr, fd) ==
  /\ Quiet
  /\ Publish(IF ~Open(fd) THEN Err("EBADF")
             ELSE IF TypeOf(fd) # "SOCKET" THEN Err("ENOTSOCK")
             ELSE IF nr \in {"send", "recv"} THEN Err("ENOTCONN")
             ELSE Err("EOPNOTSUPP"))

\* SYS_POLL of one entry for input, and SYS_SELECT for it, without waiting
SysPoll(fd) ==
  Quiet /\ Publish(Ok(IF fd >= 0 /\ (~Open(fd) \/ ReadReady(fd)) THEN 1 ELSE 0))
SysSelect(fd) ==
  Quiet /\ Publish(IF ~Open(fd) THEN Err("EBADF") ELSE Ok(IF ReadReady(fd) THEN 1 ELSE 0))

----------------------------------------------------------------------------
(* The test. *)

Call(nr, fd, arg) ==
  \/ nr = "read" /\ SysRead(fd, arg)
  \/ nr = "write" /\ SysWrite(fd, arg)
  \/ nr = "close" /\ SysClose(fd)
  \/ nr = "dup" /\ SysDup(fd)
  \/ nr = "getfd" /\ SysGetFd(fd)
  \/ nr = "setfd" /\ SysSetFd(fd, arg)
  \/ nr = "getfl" /\ SysGetFl(fd)
  \/ nr = "setfl" /\ SysSetFl(fd, arg)
  \/ nr = "open" /\ SysOpen(arg.path, arg.acc)
  \/ nr = "socket" /\ SysSocket(arg)
  \/ nr \in {"bind", "send", "recv"} /\ SysOnSocket(nr, fd)
  \/ nr = "poll" /\ SysPoll(fd)
  \/ nr = "select" /\ SysSelect(fd)

\* One call, the results that pass, and how many of the next calls an error
\* skips.
Step(nr, fd, arg, want) == [nr |-> nr, fd |-> fd, arg |-> arg, want |-> want, skip |-> 0]
Guard(nr, fd, arg, want, n) == [Step(nr, fd, arg, want) EXCEPT !.skip = n]

AnyFd == {Ok(fd) : fd \in Fds}

OnStdin ==
  << Guard("getfl", 0, 0, {Ok(0), Ok(1)}, 100),
     Guard("dup", 0, 0, {Ok(fd) : fd \in Fds \ (0 .. 2)}, 100),
     Step("getfd", dupfd, 0, {Ok(0)}),
     Step("setfd", dupfd, 1, {Ok(0)}),
     Step("getfd", dupfd, 0, {Ok(1)}),
     Step("setfl", dupfd, 1, {Ok(0)}),
     Step("getfl", 0, 0, {Ok(1)}),
     Step("read", dupfd, 1, {Ok(0), Ok(1), Err("EAGAIN")}),
     Step("poll", dupfd, 0, {Ok(0), Ok(1)}),
     Step("poll", -1, 0, {Ok(0)}),
     Step("select", dupfd, 0, {Ok(0), Ok(1)}),
     Step("close", dupfd, 0, {Ok(0)}),
     Step("close", dupfd, 0, {Err("EBADF")}),
     Step("setfl", 0, old_fl, {Ok(0)}) >>

OnDevices ==
  << Guard("open", 0, [path |-> "null", acc |-> "RDWR"], AnyFd, 3),
     Step("read", newfd, 8, {Ok(0)}),
     Step("write", newfd, 1, {Ok(1)}),
     Step("close", newfd, 0, {Ok(0)}),
     Guard("open", 0, [path |-> "zero", acc |-> "RDONLY"], AnyFd, 2),
     Step("read", newfd, 8, {Ok(8)}),
     Step("close", newfd, 0, {Ok(0)}),
     Guard("open", 0, [path |-> "tty", acc |-> "RDWR"], AnyFd, 1),
     Step("close", newfd, 0, {Ok(0)}),
     Step("open", 0, [path |-> "missing", acc |-> "RDONLY"], {Err("ENOENT")}) >>

OnSockets ==
  << Step("socket", 0, "none", {Err("EAFNOSUPPORT")}),
     Guard("socket", 0, "INET", AnyFd, 4),
     Step("bind", newfd, 0, {Err("EOPNOTSUPP")}),
     Step("send", newfd, 0, {Err("ENOTCONN")}),
     Step("recv", newfd, 0, {Err("ENOTCONN")}),
     Step("close", newfd, 0, {Ok(0)}),
     Step("bind", 0, 0, {Err("ENOTSOCK")}) >>

Script == OnStdin \o OnDevices \o OnSockets
Ended == Len(Script) + 1

\* The flag that F_GETFL found and the descriptors that dup and open gave
Keep(s) ==
  /\ old_fl' = IF pc = 1 THEN abi'.ret ELSE old_fl
  /\ dupfd' = IF s.nr = "dup" THEN abi'.ret ELSE dupfd
  /\ newfd' = IF s.nr \in {"open", "socket"} THEN abi'.ret ELSE newfd

\* fd_selftest_run: fdtest_drain_stdin stops at an end of file
Start ==
  /\ pc \in {0, Ended}
  /\ pc' = 1
  /\ fails' = 0
  /\ can_read' \in {0, can_read}
  /\ before' = table
  /\ UNCHANGED <<vars, abi, dupfd, newfd, old_fl, calls>>

TestStep ==
  /\ pc \in 1 .. Len(Script)
  /\ LET s == Script[pc]
         skipped == IF abi'.err # "OK" THEN s.skip ELSE 0
         next == pc + 1 + skipped
     IN  /\ Call(s.nr, s.fd, s.arg)
         /\ fails' = IF abi' \in s.want THEN fails ELSE fails + 1
         /\ pc' = IF next > Ended THEN Ended ELSE next
         /\ Keep(s)
  /\ UNCHANGED <<before, calls>>

\* Input arrives: the handler of the serial interrupt
Input ==
  /\ can_read = 0
  /\ can_read' = 1
  /\ UNCHANGED <<vars, abi, test>>

\* What the shell that runs the test did with its descriptors before
Shell ==
  /\ pc \in {0, Ended}
  /\ calls < MaxCalls
  /\ calls' = calls + 1
  /\ pc' = 0
  /\ \/ \E fd \in Fds : SysClose(fd)
     \/ \E fd, new \in Fds :
          Dup2(fd, new) /\ Publish(FromRc(ret')) /\ UNCHANGED can_read
     \/ \E nb \in {0, 1} : SysSetFl(0, nb)
     \/ \E on \in {0, 1} : SysSetFd(0, on)
  /\ dupfd' = 0 /\ newfd' = 0 /\ old_fl' = 0
  /\ UNCHANGED <<fails, before>>

SysInit ==
  /\ Init
  /\ can_read = 0
  /\ abi = Ok(0)
  /\ pc = 0 /\ calls = 0 /\ fails = 0 /\ dupfd = 0 /\ newfd = 0 /\ old_fl = 0
  /\ before = table

SysNext == Start \/ TestStep \/ Input \/ Shell

SysSpec == SysInit /\ [][SysNext]_sysvars /\ WF_sysvars(TestStep)

----------------------------------------------------------------------------
(* Correctness. *)

\* stdin is the console's, the other two are open, and a descriptor is free
Fresh(fdt, att) ==
  /\ \A fd \in 0 .. 2 : fdt[fd] # NoFile
  /\ att[fdt[0]].type = "STDIN"
  /\ \E fd \in Fds : fdt[fd] = NoFile

\* fd_selftest_run reports no failure for a task that has its stdio and a free
\* descriptor, whatever aliases, flags and earlier runs it had before and
\* whenever input arrives during the run.
SelfTestPasses == pc # 0 /\ Fresh(before[1], before[5]) => fails = 0

\* When fd_selftest_run returns, from its end or early, the table of the task
\* is exactly what it was: no descriptor, file, reference or flag is left over.
SelfTestRestores == pc = Ended => table = before

\* fd_selftest_run reports what it should, and leaves no trace.
SelfTestHolds == SelfTestPasses /\ SelfTestRestores
=============================================================================
