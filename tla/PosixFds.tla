------------------------------ MODULE PosixFds ------------------------------
(***************************************************************************)
(* What the descriptor calls of the kernel promise to a task: each open    *)
(* descriptor refers to an open file description, descriptors made by dup  *)
(* and dup2 share it, and it lives exactly as long as a descriptor refers  *)
(* to it.  There are no reference counts here.                             *)
(***************************************************************************)
EXTENDS Integers

CONSTANTS
  MaxFds,   \* SCHED_MAX_FDS
  Types,    \* types that sched_fd_open_special gives to a file
  Modes     \* access modes passed to it

Fds == 0 .. MaxFds - 1
FdArgs == -1 .. MaxFds              \* a call may be given a bad descriptor

EBADF  == -1
EMFILE == -2
EINVAL == -3

Attr(type, acc, nb) == [type |-> type, acc |-> acc, nonblock |-> nb]
Stdio == [fd \in 0 .. 2 |->
            CASE fd = 0 -> Attr("STDIN", "RDONLY", 0)
              [] fd = 1 -> Attr("STDOUT", "WRONLY", 0)
              [] fd = 2 -> Attr("STDERR", "WRONLY", 0)]

VARIABLES
  ofd,      \* the description each open descriptor refers to
  attr,     \* type, access mode and nonblocking flag of those descriptions
  cloexec,  \* descriptors with FD_CLOEXEC
  ret       \* result of the last call

vars == <<ofd, attr, cloexec, ret>>

Open(fd) == fd \in DOMAIN ofd
Free == Fds \ DOMAIN ofd
IsLowest(i, S) == i \in S /\ \A j \in S : i <= j

\* Functions that differ in one more, or one less, argument
With(f, x, v) == [y \in DOMAIN f \cup {x} |-> IF y = x THEN v ELSE f[y]]
Without(f, X) == [y \in DOMAIN f \ X |-> f[y]]

Fail(e) == ret' = e /\ UNCHANGED <<ofd, attr, cloexec>>

Init ==
  /\ ofd = [fd \in 0 .. 2 |-> fd]
  /\ attr = Stdio
  /\ cloexec = {}
  /\ ret = 0

\* The descriptions that descriptors other than those of F refer to
Kept(F) == {ofd[fd] : fd \in DOMAIN ofd \ F}

Close(fd) ==
  \/ ~Open(fd) /\ Fail(EBADF)
  \/ /\ Open(fd)
     /\ ofd' = Without(ofd, {fd})
     /\ attr' = [d \in Kept({fd}) |-> attr[d]]
     /\ cloexec' = cloexec \ {fd}
     /\ ret' = 0

Dup(fd) ==
  \/ ~Open(fd) /\ Fail(EBADF)
  \/ Open(fd) /\ Free = {} /\ Fail(EMFILE)
  \/ /\ Open(fd)
     /\ \E new \in Free :
          /\ IsLowest(new, Free)
          /\ ofd' = With(ofd, new, ofd[fd])
          /\ ret' = new
     /\ UNCHANGED <<attr, cloexec>>

Dup2(fd, new) ==
  \/ new \notin Fds /\ Fail(EINVAL)
  \/ new \in Fds /\ ~Open(fd) /\ Fail(EBADF)
  \/ new \in Fds /\ Open(fd) /\ fd = new /\ Fail(new)
  \/ /\ new \in Fds /\ Open(fd) /\ fd # new
     /\ ofd' = With(ofd, new, ofd[fd])
     /\ attr' = [d \in Kept({new}) |-> attr[d]]
     /\ cloexec' = cloexec \ {new}
     /\ ret' = new

SetFd(fd, on) ==
  \/ ~Open(fd) /\ Fail(EBADF)
  \/ /\ Open(fd)
     /\ cloexec' = IF on THEN cloexec \cup {fd} ELSE cloexec \ {fd}
     /\ ret' = 0
     /\ UNCHANGED <<ofd, attr>>

SetFl(fd, nb) ==
  \/ ~Open(fd) /\ Fail(EBADF)
  \/ /\ Open(fd)
     /\ attr' = [attr EXCEPT ![ofd[fd]].nonblock = nb]
     /\ ret' = 0
     /\ UNCHANGED <<ofd, cloexec>>

OpenSpecial(type, acc, nb) ==
  \/ Free = {} /\ Fail(EMFILE)
  \/ \E new \in Free, d \in Fds \ DOMAIN attr :
       /\ IsLowest(new, Free)
       /\ ofd' = With(ofd, new, d)
       /\ attr' = With(attr, d, Attr(type, acc, nb))
       /\ ret' = new
       /\ UNCHANGED cloexec

\* The slot is given to a new task
Renew ==
  /\ DOMAIN ofd = {}
  /\ ofd' = [fd \in 0 .. 2 |-> fd]
  /\ attr' = Stdio
  /\ cloexec' = {}
  /\ UNCHANGED ret

Next ==
  \/ \E fd \in FdArgs : Close(fd)
  \/ \E fd \in FdArgs : Dup(fd)
  \/ \E fd, new \in FdArgs : Dup2(fd, new)
  \/ \E fd \in FdArgs, on \in BOOLEAN : SetFd(fd, on)
  \/ \E fd \in FdArgs, nb \in {0, 1} : SetFl(fd, nb)
  \/ \E t \in Types, m \in Modes, nb \in {0, 1} : OpenSpecial(t, m, nb)
  \/ Renew

Spec == Init /\ [][Next]_vars
=============================================================================
