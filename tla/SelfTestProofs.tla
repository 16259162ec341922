---------------------------- MODULE SelfTestProofs ----------------------------
(***************************************************************************)
(* The shell's self-test of the descriptor calls: on a fresh table every   *)
(* call returns what the test expects of it, whatever the shell called     *)
(* before, and the test leaves the table as it found it.                   *)
(* The proof follows the script: Stage says what the table is at each of   *)
(* its calls, in terms of the table when the test began.                   *)
(***************************************************************************)
EXTENDS SyscallProofs, SequenceTheorems

USE ZenonT(3), SMTT(30)

----------------------------------------------------------------------------
(* The script. *)

TestInv ==
  /\ FdInv /\ FilesInv /\ closing = -1
  /\ pc \in 0 .. 32
  /\ fails \in Nat
  /\ pc # 0 => Sound0 /\ Stage /\ Passing

----------------------------------------------------------------------------
\* The places of three sequences in their concatenation
LEMMA Concatenated ==
  ASSUME NEW S, NEW s \in Seq(S), NEW t \in Seq(S), NEW u \in Seq(S)
  PROVE  /\ Len(s \o t \o u) = Len(s) + Len(t) + Len(u)
         /\ \A i \in 1 .. Len(s) : (s \o t \o u)[i] = s[i]
         /\ \A i \in 1 .. Len(t) : (s \o t \o u)[Len(s) + i] = t[i]
         /\ \A i \in 1 .. Len(u) : (s \o t \o u)[Len(s) + Len(t) + i] = u[i]
<1>1. /\ s \o t \in Seq(S) /\ Len(s \o t) = Len(s) + Len(t)
      /\ Len(s) \in Nat /\ Len(t) \in Nat /\ Len(u) \in Nat
  OBVIOUS
<1>2. Len((s \o t) \o u) = Len(s) + Len(t) + Len(u)
  BY <1>1
<1>3. \A i \in 1 .. Len(s) : (s \o t \o u)[i] = s[i]
  BY <1>1
<1>4. \A i \in 1 .. Len(t) : (s \o t \o u)[Len(s) + i] = t[i]
  BY <1>1
<1>5. \A i \in 1 .. Len(u) : (s \o t \o u)[Len(s) + Len(t) + i] = u[i]
  BY <1>1
<1> QED
  BY <1>2, <1>3, <1>4, <1>5

\* The script is that on stdin, then that on the devices, then that on sockets.
LEMMA ScriptParts ==
  /\ Len(Script) = 31
  /\ \A i \in 1 .. 14 : Script[i] = OnStdin[i]
  /\ \A i \in 1 .. 10 : Script[14 + i] = OnDevices[i]
  /\ \A i \in 1 .. 7 : Script[24 + i] = OnSockets[i]
<1> DEFINE S == {OnStdin[i] : i \in 1 .. 14} \cup {OnDevices[i] : i \in 1 .. 10}
                \cup {OnSockets[i] : i \in 1 .. 7}
<1>1. Len(OnStdin) = 14 /\ OnStdin = [i \in 1 .. 14 |-> OnStdin[i]]
  BY DEF OnStdin
<1>2. Len(OnDevices) = 10 /\ OnDevices = [i \in 1 .. 10 |-> OnDevices[i]]
  BY DEF OnDevices
<1>3. Len(OnSockets) = 7 /\ OnSockets = [i \in 1 .. 7 |-> OnSockets[i]]
  BY DEF OnSockets
<1>4. /\ \A i \in 1 .. 14 : OnStdin[i] \in S
      /\ \A i \in 1 .. 10 : OnDevices[i] \in S
      /\ \A i \in 1 .. 7 : OnSockets[i] \in S
  OBVIOUS
<1> HIDE DEF S
<1>5. OnStdin \in Seq(S)
  BY <1>1, <1>4
<1>6. OnDevices \in Seq(S)
  BY <1>2, <1>4
<1>7. OnSockets \in Seq(S)
  BY <1>3, <1>4
<1>8. /\ Len(Script) = Len(OnStdin) + Len(OnDevices) + Len(OnSockets)
      /\ \A i \in 1 .. Len(OnStdin) : Script[i] = OnStdin[i]
      /\ \A i \in 1 .. Len(OnDevices) : Script[Len(OnStdin) + i] = OnDevices[i]
      /\ \A i \in 1 .. Len(OnSockets) : Script[Len(OnStdin) + Len(OnDevices) + i] = OnSockets[i]
  BY <1>5, <1>6, <1>7, Concatenated DEF Script
<1> QED
  BY <1>1, <1>2, <1>3, <1>8

\* What one step of the test is
Did(nr, fd, arg, want, n) ==
  /\ Call(nr, fd, arg)
  /\ fails' = IF abi' \in want THEN fails ELSE fails + 1
  /\ pc' = IF n = 0 \/ abi'.err = "OK" THEN pc + 1
           ELSE IF pc + 1 + n > 32 THEN 32 ELSE pc + 1 + n
  /\ old_fl' = IF pc = 1 THEN abi'.ret ELSE old_fl
  /\ dupfd' = IF nr = "dup" THEN abi'.ret ELSE dupfd
  /\ newfd' = IF nr \in {"open", "socket"} THEN abi'.ret ELSE newfd
  /\ UNCHANGED before

\* A step of the test makes the call of its line of the script.
LEMMA StepDid ==
  ASSUME TestStep, NEW nr, NEW fd, NEW arg, NEW want, NEW n \in Nat, NEW k \in 1 .. 31, pc = k,
         Script[k] = Guard(nr, fd, arg, want, n) \/ (n = 0 /\ Script[k] = Step(nr, fd, arg, want))
  PROVE  Did(nr, fd, arg, want, n)
<1>1. /\ Script[k].nr = nr /\ Script[k].fd = fd /\ Script[k].arg = arg
      /\ Script[k].want = want /\ Script[k].skip = n
  BY DEF Guard, Step
<1>2. Ended = 32
  BY ScriptParts DEF Ended
<1> QED
  BY <1>1, <1>2 DEF TestStep, Did, Keep

\* The system calls by name
LEMMA CallIs ==
  ASSUME NEW fd, NEW arg
  PROVE  /\ Call("read", fd, arg) => SysRead(fd, arg)
         /\ Call("write", fd, arg) => SysWrite(fd, arg)
         /\ Call("close", fd, arg) => SysClose(fd)
         /\ Call("dup", fd, arg) => SysDup(fd)
         /\ Call("getfd", fd, arg) => SysGetFd(fd)
         /\ Call("setfd", fd, arg) => SysSetFd(fd, arg)
         /\ Call("getfl", fd, arg) => SysGetFl(fd)
         /\ Call("setfl", fd, arg) => SysSetFl(fd, arg)
         /\ Call("open", fd, arg) => SysOpen(arg.path, arg.acc)
         /\ Call("socket", fd, arg) => SysSocket(arg)
         /\ \A nr \in {"bind", "send", "recv"} : Call(nr, fd, arg) => SysOnSocket(nr, fd)
         /\ Call("poll", fd, arg) => SysPoll(fd)
         /\ Call("select", fd, arg) => SysSelect(fd)
BY DEF Call

\* A step that passes, when it should, keeps the test passing.
LEMMA DidPasses ==
  ASSUME Passing, fails \in Nat,
         NEW nr, NEW fd, NEW arg, NEW want, NEW n, Did(nr, fd, arg, want, n),
         Fresh(fdtab0, attr0) => abi' \in want
  PROVE  Passing' /\ fails' \in Nat
BY DEF Passing, Did, fdtab0, attr0

\* What a step of the test has to show
Goes ==
  /\ FdCall \/ UNCHANGED vars
  /\ pc' \in 1 .. 32 /\ fails' \in Nat
  /\ Stage' /\ Passing'

\* F_GETFL and dup on stdin
LEMMA FirstSteps ==
  ASSUME TestInv, TestStep, pc \in {1, 2}
  PROVE  Goes
<1>0. FdInv /\ Sound0 /\ Stage /\ Passing /\ fails \in Nat /\ table = before
  BY DEF TestInv, Stage
<1>1. fdtab = fdtab0 /\ attr = attr0
  BY <1>0 DEF table, Sound0
<1>2. CASE pc = 1
  <2> DEFINE want == {Ok(0), Ok(1)}
  <2>1. Script[1] = Guard("getfl", 0, 0, want, 100)
    BY ScriptParts DEF OnStdin
  <2>2. Did("getfl", 0, 0, want, 100)
    BY <1>2, <2>1, StepDid
  <2>3. /\ UNCHANGED <<vars, before, dupfd, newfd>> /\ old_fl' = abi'.ret
        /\ abi' = IF Open(0) THEN Ok(attr[fdtab[0]].nonblock) ELSE Err("EBADF")
    BY <1>2, <2>2, CallIs DEF Did, SysGetFl, Quiet, Publish, File
  <2>4. table' = before'
    BY <1>0, <2>3 DEF vars, table
  <2>5. UNCHANGED <<fdtab0, attr0, stdin0>>
    BY <2>3 DEF fdtab0, attr0, stdin0
  <2>6. CASE Open(0)
    <3>1. stdin0 \in Fds /\ stdin0 # NoFile
      BY <1>0, <1>1, <2>6, FdFacts DEF Open, stdin0, Sound0
    <3>2. attr0[stdin0].nonblock \in {0, 1}
      BY <1>0, <3>1 DEF Sound0, AttrType
    <3>3. abi' = Ok(attr0[stdin0].nonblock)
      BY <1>1, <2>3, <2>6 DEF stdin0
    <3>4. abi' \in want /\ abi'.err = "OK" /\ abi'.ret = attr0[stdin0].nonblock
      BY <3>2, <3>3 DEF Ok
    <3>5. pc' = 2
      BY <1>2, <2>2, <3>4 DEF Did
    <3>6. Stage'
      BY <2>3, <2>4, <2>5, <3>1, <3>4, <3>5 DEF Stage
    <3> QED
      BY <1>0, <2>2, <2>3, <3>4, <3>5, <3>6, DidPasses DEF Goes
  <2>7. CASE ~Open(0)
    <3>1. ~Fresh(fdtab0, attr0)
      BY <1>0, <1>1, <2>7, FreshStdin
    <3>2. abi'.err # "OK"
      BY <2>3, <2>7 DEF Err
    <3>3. pc' = 32
      BY <1>2, <2>2, <3>2 DEF Did
    <3>4. Stage'
      BY <2>4, <3>3 DEF Stage
    <3> QED
      BY <1>0, <2>2, <2>3, <3>1, <3>3, <3>4, DidPasses DEF Goes
  <2> QED
    BY <2>6, <2>7
<1>3. CASE pc = 2
  <2> DEFINE want == {Ok(fd) : fd \in Fds \ (0 .. 2)}
  <2>1. Script[2] = Guard("dup", 0, 0, want, 100)
    BY ScriptParts DEF OnStdin
  <2>2. Did("dup", 0, 0, want, 100)
    BY <1>3, <2>1, StepDid
  <2>3. /\ Dup(0) /\ abi' = FromRc(ret') /\ UNCHANGED <<before, old_fl>> /\ dupfd' = abi'.ret
    BY <1>3, <2>2, CallIs DEF Did, SysDup, Publish
  <2>4. stdin0 # NoFile /\ old_fl = attr0[stdin0].nonblock
    BY <1>0, <1>3 DEF Stage
  <2>5. FdCall
    BY <2>3, FdFacts, FdAssumption DEF FdCall, FdArgs
  <2>6. CASE ret' \in Fds
    <3>1. abi' = Ok(ret') /\ abi'.err = "OK" /\ dupfd' = ret'
      BY <2>3, <2>6, RcFacts DEF Ok
    <3>2. Duplicated(0, 0)' /\ fdtab0[ret'] = NoFile
      BY <1>0, <2>3, <2>4, <2>6, <3>1, RcFacts, DuplicatedNow
    <3>3. pc' = 3
      BY <1>3, <2>2, <3>1 DEF Did
    <3>4. Stage'
      BY <3>2, <3>3 DEF Stage
    <3>5. Fresh(fdtab0, attr0) => abi' \in want
      BY <1>0, <2>6, <3>1, <3>2, FreshStdin
    <3> HIDE DEF want
    <3> QED
      BY <1>0, <2>2, <2>5, <3>3, <3>4, <3>5, DidPasses DEF Goes
  <2>7. CASE ret' \notin Fds
    <3>1. Open(0)
      BY <1>0, <1>1, <2>4, FdFacts, OpenInTable DEF FdInv, stdin0
    <3>2. ret' = EMFILE /\ FreeFds = {} /\ UNCHANGED table
      BY <2>3, <2>7, <3>1 DEF Dup, Fail, Return
    <3>3. abi'.err # "OK"
      BY <2>3, <3>2, RcFacts DEF Err
    <3>4. pc' = 32
      BY <1>3, <2>2, <3>3 DEF Did
    <3>5. Stage'
      BY <1>0, <2>3, <3>2, <3>4 DEF Stage
    <3>6. ~Fresh(fdtab0, attr0)
      BY <1>0, <1>1, <3>2, FreshStdin DEF FreeFds
    <3> HIDE DEF want
    <3> QED
      BY <1>0, <2>2, <2>5, <3>4, <3>5, <3>6, DidPasses DEF Goes
  <2> QED
    BY <2>6, <2>7
<1> QED
  BY <1>2, <1>3

\* The calls that only look: the table stays as it is, also at the next call.
Looking == {3, 5, 7, 8, 9, 10, 11, 16, 17, 20, 24, 25, 27, 28, 29, 31}

\* After a call that only looks the test goes on with the same table.
LEMMA LookingStep ==
  ASSUME TestInv, pc \in Looking, NEW nr, nr # "dup",
         pc \notin {24, 25} => nr \notin {"open", "socket"},
         NEW fd, NEW arg, NEW want, Did(nr, fd, arg, want, 0),
         UNCHANGED vars, Fresh(fdtab0, attr0) => abi' \in want
  PROVE  Goes
<1>0. Stage /\ Passing /\ fails \in Nat
  BY DEF TestInv, Looking
<1>1. pc' = pc + 1 /\ UNCHANGED <<dupfd, old_fl, before>>
  BY DEF Did, Looking
<1>2. Passing' /\ fails' \in Nat
  BY <1>0, DidPasses
<1>3. table = before => table' = before'
  BY <1>1 DEF table, vars
<1>4. CASE pc \in {3, 5} \cup 7 .. 11
  <2>1. /\ Duplicated(0, 0) => Duplicated(0, 0)'
        /\ Duplicated(1, 0) => Duplicated(1, 0)'
        /\ Duplicated(1, 1) => Duplicated(1, 1)'
    <3>1. UNCHANGED newfd
      BY <1>4 DEF Did
    <3>2. 0 \in {0, 1} /\ 1 \in {0, 1}
      OBVIOUS
    <3> QED
      BY <1>1, <3>1, <3>2, StageKept
  <2>2. Stage'
    BY <1>0, <1>1, <1>4, <2>1 DEF Stage
  <2> QED
    BY <1>1, <1>2, <1>4, <2>2 DEF Goes
<1>5. CASE pc \in {16, 17, 20} \cup 27 .. 29
  <2>1. /\ Opened("DEV_NULL", "RDWR") => Opened("DEV_NULL", "RDWR")'
        /\ Opened("DEV_ZERO", "RDONLY") => Opened("DEV_ZERO", "RDONLY")'
        /\ Opened("SOCKET", "RDWR") => Opened("SOCKET", "RDWR")'
    <3>1. UNCHANGED newfd
      BY <1>5 DEF Did
    <3> QED
      BY <1>1, <3>1, StageKept
  <2>2. Stage'
    BY <1>0, <1>1, <1>5, <2>1 DEF Stage
  <2> QED
    BY <1>1, <1>2, <1>5, <2>2 DEF Goes
<1>6. CASE pc \in {24, 25, 31}
  <2>1. Stage'
    BY <1>0, <1>1, <1>3, <1>6 DEF Stage
  <2> QED
    BY <1>1, <1>2, <1>6, <2>1 DEF Goes
<1> QED
  BY <1>4, <1>5, <1>6 DEF Looking

\* The calls on the duplicate
LEMMA DuplicateSteps ==
  ASSUME TestInv, TestStep, pc \in 3 .. 12
  PROVE  Goes
<1>0. FdInv /\ Sound0 /\ Stage /\ Passing /\ fails \in Nat
  BY DEF TestInv
<1>a. 0 \in {0, 1} /\ 1 \in {0, 1} /\ 0 \in Nat
  OBVIOUS
<1>f. dupfd \in Fds => dupfd \in FdArgs
  BY FdAssumption DEF Fds, FdArgs
<1>3. CASE pc = 3
  <2>1. Duplicated(0, 0)
    BY <1>0, <1>3 DEF Stage
  <2>2. Script[3] = Step("getfd", dupfd, 0, {Ok(0)})
    BY ScriptParts DEF OnStdin
  <2>3. Did("getfd", dupfd, 0, {Ok(0)}, 0)
    BY <1>3, <1>a, <2>2, StepDid
  <2>4. UNCHANGED vars /\ abi' = IF Open(dupfd) THEN Ok(IF dupfd \in cloexec THEN 1 ELSE 0) ELSE Err("EBADF")
    BY <2>3, CallIs DEF Did, SysGetFd, Quiet, Publish
  <2>5. abi' \in {Ok(0)}
    BY <1>0, <1>a, <2>1, <2>4, OnDuplicate
  <2> QED
    BY <1>3, <2>3, <2>4, <2>5, LookingStep DEF Looking
<1>4. CASE pc = 4
  <2>1. Duplicated(0, 0)
    BY <1>0, <1>4 DEF Stage
  <2>2. Script[4] = Step("setfd", dupfd, 1, {Ok(0)})
    BY ScriptParts DEF OnStdin
  <2>3. Did("setfd", dupfd, 1, {Ok(0)}, 0)
    BY <1>4, <1>a, <2>2, StepDid
  <2>4. SetFd(dupfd, TRUE) /\ abi' = FromRc(ret') /\ pc' = 5 /\ UNCHANGED <<before, dupfd, old_fl>>
    <3>1. SysSetFd(dupfd, 1) /\ pc' = 5 /\ UNCHANGED <<before, dupfd, old_fl>>
      BY <1>4, <2>3, CallIs DEF Did
    <3>2. SetFd(dupfd, TRUE)
      BY <3>1 DEF SysSetFd, SetFd
    <3>3. abi' = FromRc(ret')
      BY <3>1 DEF SysSetFd, Publish
    <3> QED
      BY <3>1, <3>2, <3>3, Zenon
  <2>5. ret' = 0 /\ Duplicated(1, 0)' /\ dupfd \in FdArgs
    BY <1>0, <1>a, <1>f, <2>1, <2>4, SetOnDuplicate, OnDuplicate
  <2>6. abi' \in {Ok(0)}
    BY <2>4, <2>5, RcFacts
  <2>7. Passing' /\ fails' \in Nat
    BY <1>0, <2>3, <2>6, DidPasses
  <2>8. FdCall
    BY <2>4, <2>5, Zenon DEF FdCall
  <2> QED
    BY <2>4, <2>5, <2>7, <2>8 DEF Goes, Stage
<1>5. CASE pc = 5
  <2>1. Duplicated(1, 0)
    BY <1>0, <1>5 DEF Stage
  <2>2. Script[5] = Step("getfd", dupfd, 0, {Ok(1)})
    BY ScriptParts DEF OnStdin
  <2>3. Did("getfd", dupfd, 0, {Ok(1)}, 0)
    BY <1>5, <1>a, <2>2, StepDid
  <2>4. UNCHANGED vars /\ abi' = IF Open(dupfd) THEN Ok(IF dupfd \in cloexec THEN 1 ELSE 0) ELSE Err("EBADF")
    BY <2>3, CallIs DEF Did, SysGetFd, Quiet, Publish
  <2>5. abi' \in {Ok(1)}
    BY <1>0, <1>a, <2>1, <2>4, OnDuplicate
  <2> QED
    BY <1>5, <2>3, <2>4, <2>5, LookingStep DEF Looking
<1>6. CASE pc = 6
  <2>1. Duplicated(1, 0)
    BY <1>0, <1>6 DEF Stage
  <2>2. Script[6] = Step("setfl", dupfd, 1, {Ok(0)})
    BY ScriptParts DEF OnStdin
  <2>3. Did("setfl", dupfd, 1, {Ok(0)}, 0)
    BY <1>6, <1>a, <2>2, StepDid
  <2>4. SetFl(dupfd, 1) /\ abi' = FromRc(ret') /\ pc' = 7 /\ UNCHANGED <<before, dupfd, old_fl>>
    BY <1>6, <2>3, CallIs DEF Did, SysSetFl, Publish
  <2>5. ret' = 0 /\ Duplicated(1, 1)' /\ dupfd \in FdArgs
    BY <1>0, <1>a, <1>f, <2>1, <2>4, SetOnDuplicate, OnDuplicate
  <2>6. abi' \in {Ok(0)}
    BY <2>4, <2>5, RcFacts
  <2>7. Passing' /\ fails' \in Nat
    BY <1>0, <2>3, <2>6, DidPasses
  <2>8. FdCall
    BY <1>a, <2>4, <2>5 DEF FdCall
  <2> QED
    BY <2>4, <2>5, <2>7, <2>8 DEF Goes, Stage
<1>7. CASE pc = 7
  <2>1. Duplicated(1, 1)
    BY <1>0, <1>7 DEF Stage
  <2>2. Script[7] = Step("getfl", 0, 0, {Ok(1)})
    BY ScriptParts DEF OnStdin
  <2>3. Did("getfl", 0, 0, {Ok(1)}, 0)
    BY <1>7, <1>a, <2>2, StepDid
  <2>4. UNCHANGED vars /\ abi' = IF Open(0) THEN Ok(attr[fdtab[0]].nonblock) ELSE Err("EBADF")
    BY <2>3, CallIs DEF Did, SysGetFl, Quiet, Publish, File
  <2>5. abi' \in {Ok(1)}
    BY <1>0, <1>7, <1>a, <2>1, <2>4, OnDuplicate
  <2> QED
    BY <1>7, <2>3, <2>4, <2>5, LookingStep DEF Looking
<1>8. CASE pc = 8
  <2>1. Duplicated(1, 1)
    BY <1>0, <1>8 DEF Stage
  <2> DEFINE want == {Ok(0), Ok(1), Err("EAGAIN")}
  <2>2. Script[8] = Step("read", dupfd, 1, want)
    BY ScriptParts DEF OnStdin
  <2>3. Did("read", dupfd, 1, want, 0)
    BY <1>8, <1>a, <2>2, StepDid
  <2>4. UNCHANGED vars /\ SysRead(dupfd, 1)
    BY <2>3, CallIs DEF Did, SysRead
  <2>5. Fresh(fdtab0, attr0) => abi' \in want
    <3> SUFFICES ASSUME Fresh(fdtab0, attr0) PROVE abi' \in want
      OBVIOUS
    <3>1. Open(dupfd) /\ File(dupfd).type = "STDIN" /\ File(dupfd).acc = "RDONLY" /\ File(dupfd).nonblock = 1
      BY <1>0, <1>a, <2>1, OnDuplicate, FreshStdin DEF File
    <3>2. CanRead(dupfd) /\ IsConsole(dupfd) /\ TypeOf(dupfd) = "STDIN"
      BY <3>1 DEF CanRead, IsConsole, TypeOf
    <3>3. CASE can_read = 1
      <4>1. (\E n \in 1 .. 1 : abi' = Ok(n)) \/ abi' = Err("EAGAIN")
        BY <2>4, <3>1, <3>2, <3>3 DEF SysRead, Publish
      <4> QED
        BY <4>1
    <3>4. CASE can_read # 1
      BY <2>4, <3>1, <3>2, <3>4 DEF SysRead, Publish
    <3> QED
      BY <3>3, <3>4
  <2> HIDE DEF want
  <2> QED
    BY <1>8, <2>3, <2>4, <2>5, LookingStep DEF Looking
<1>9. CASE pc = 9
  <2>1. Duplicated(1, 1)
    BY <1>0, <1>9 DEF Stage
  <2> DEFINE want == {Ok(0), Ok(1)}
  <2>2. Script[9] = Step("poll", dupfd, 0, want)
    BY ScriptParts DEF OnStdin
  <2>3. Did("poll", dupfd, 0, want, 0)
    BY <1>9, <1>a, <2>2, StepDid
  <2>4. UNCHANGED vars /\ abi' \in want
    BY <2>3, CallIs DEF Did, SysPoll, Quiet, Publish
  <2> HIDE DEF want
  <2> QED
    BY <1>9, <2>3, <2>4, LookingStep DEF Looking
<1>10. CASE pc = 10
  <2>1. Duplicated(1, 1)
    BY <1>0, <1>10 DEF Stage
  <2>2. Script[10] = Step("poll", -1, 0, {Ok(0)})
    BY ScriptParts DEF OnStdin
  <2>3. Did("poll", -1, 0, {Ok(0)}, 0)
    BY <1>10, <1>a, <2>2, StepDid
  <2>4. UNCHANGED vars /\ abi' \in {Ok(0)}
    BY <2>3, CallIs DEF Did, SysPoll, Quiet, Publish
  <2> QED
    BY <1>10, <2>3, <2>4, LookingStep DEF Looking
<1>11. CASE pc = 11
  <2>1. Duplicated(1, 1)
    BY <1>0, <1>11 DEF Stage
  <2> DEFINE want == {Ok(0), Ok(1)}
  <2>2. Script[11] = Step("select", dupfd, 0, want)
    BY ScriptParts DEF OnStdin
  <2>3. Did("select", dupfd, 0, want, 0)
    BY <1>11, <1>a, <2>2, StepDid
  <2>4. UNCHANGED vars /\ (Open(dupfd) => abi' \in want)
    BY <2>3, CallIs DEF Did, SysSelect, Quiet, Publish
  <2>5. abi' \in want
    BY <1>0, <1>11, <1>a, <2>1, <2>4, OnDuplicate
  <2> HIDE DEF want
  <2> QED
    BY <1>11, <2>3, <2>4, <2>5, LookingStep DEF Looking
<1>12. CASE pc = 12
  <2>1. Duplicated(1, 1)
    BY <1>0, <1>12 DEF Stage
  <2>2. Script[12] = Step("close", dupfd, 0, {Ok(0)})
    BY ScriptParts DEF OnStdin
  <2>3. Did("close", dupfd, 0, {Ok(0)}, 0)
    BY <1>12, <1>a, <2>2, StepDid
  <2>4. Close(dupfd) /\ abi' = FromRc(ret') /\ pc' = 13 /\ UNCHANGED <<before, dupfd, old_fl>>
    BY <1>12, <2>3, CallIs DEF Did, SysClose, Publish
  <2>5. ret' = 0 /\ FlagLeft' /\ dupfd \in FdArgs
    BY <1>0, <1>12, <1>a, <1>f, <2>1, <2>4, SetOnDuplicate, OnDuplicate
  <2>6. abi' \in {Ok(0)}
    BY <2>4, <2>5, RcFacts
  <2>7. Passing' /\ fails' \in Nat
    BY <1>0, <2>3, <2>6, DidPasses
  <2>8. FdCall
    BY <2>4, <2>5 DEF FdCall
  <2> QED
    BY <2>4, <2>5, <2>7, <2>8 DEF Goes, Stage
<1> QED
  BY <1>3, <1>4, <1>5, <1>6, <1>7, <1>8, <1>9, <1>10, <1>11, <1>12

\* The second close of the duplicate, and stdin gets its flags back.
LEMMA RestoreSteps ==
  ASSUME TestInv, TestStep, pc \in {13, 14}
  PROVE  Goes
<1>0. FdInv /\ Sound0 /\ Stage /\ Passing /\ fails \in Nat /\ FlagLeft
  BY DEF TestInv, Stage
<1>1. dupfd \in FdArgs /\ 0 \in FdArgs /\ old_fl \in {0, 1}
  <2>1. dupfd \in Fds /\ stdin0 \in Fds
    BY <1>0, FdFacts DEF FlagLeft, Spare, Sound0, stdin0
  <2> QED
    BY <1>0, <2>1, FdAssumption DEF FlagLeft, Sound0, AttrType, Fds, FdArgs
<1>2. CASE pc = 13
  <2>1. Script[13] = Step("close", dupfd, 0, {Err("EBADF")})
    BY ScriptParts DEF OnStdin
  <2>2. Did("close", dupfd, 0, {Err("EBADF")}, 0)
    BY <1>2, <2>1, StepDid
  <2>3. Close(dupfd) /\ abi' = FromRc(ret') /\ pc' = 14 /\ UNCHANGED <<before, dupfd, old_fl>>
    BY <1>2, <2>2, CallIs DEF Did, SysClose, Publish
  <2>4. ret' = EBADF /\ UNCHANGED table
    BY <1>0, <2>3, FlagRestored
  <2>5. abi' \in {Err("EBADF")}
    BY <2>3, <2>4, RcFacts
  <2>6. Passing' /\ fails' \in Nat
    BY <1>0, <2>2, <2>5, DidPasses
  <2>7. FlagLeft'
    <3>1. UNCHANGED <<fdtab0, cloexec0, used0, refs0, attr0, stdin0>>
      BY <2>3 DEF fdtab0, cloexec0, used0, refs0, attr0, stdin0
    <3> QED
      BY <1>0, <2>3, <2>4, <3>1 DEF FlagLeft, Spare, NonBlocking, table
  <2>8. FdCall
    BY <1>1, <2>3 DEF FdCall
  <2> QED
    BY <2>3, <2>6, <2>7, <2>8 DEF Goes, Stage
<1>3. CASE pc = 14
  <2>1. Script[14] = Step("setfl", 0, old_fl, {Ok(0)})
    BY ScriptParts DEF OnStdin
  <2>2. Did("setfl", 0, old_fl, {Ok(0)}, 0)
    BY <1>3, <2>1, StepDid
  <2>3. SetFl(0, old_fl) /\ abi' = FromRc(ret') /\ pc' = 15 /\ UNCHANGED before
    BY <1>3, <2>2, CallIs DEF Did, SysSetFl, Publish
  <2>4. ret' = 0 /\ table' = before'
    BY <1>0, <2>3, FlagRestored
  <2>5. abi' \in {Ok(0)}
    BY <2>3, <2>4, RcFacts
  <2>6. Passing' /\ fails' \in Nat
    BY <1>0, <2>2, <2>5, DidPasses
  <2>7. FdCall
    BY <1>1, <2>3 DEF FdCall
  <2> QED
    BY <2>3, <2>4, <2>6, <2>7 DEF Goes, Stage
<1> QED
  BY <1>2, <1>3

\* An open that the test guards
LEMMA OpenStep ==
  ASSUME TestInv, pc \in {15, 19, 22, 26},
         NEW t \in {"DEV_NULL", "DEV_ZERO", "DEV_TTY", "SOCKET"}, NEW m \in {"RDONLY", "RDWR"},
         NEW nr \in {"open", "socket"}, NEW fd, NEW arg, NEW n \in 1 .. 4,
         Did(nr, fd, arg, AnyFd, n), OpenSpecial(t, m, 0), abi' = FromRc(ret')
  PROVE  /\ FdCall /\ Passing' /\ fails' \in Nat
         /\ (pc' = pc + 1 /\ Opened(t, m)') \/ (pc' = pc + 1 + n /\ table' = before')
<1>0. FdInv /\ Sound0 /\ Stage /\ Passing /\ fails \in Nat /\ table = before
  BY DEF TestInv, Stage
<1>1. FdCall
  BY DEF FdCall
<1>2. UNCHANGED before /\ newfd' = abi'.ret
  BY DEF Did
<1>3. CASE ret' \in Fds
  <2>1. abi' = Ok(ret') /\ abi'.err = "OK" /\ newfd' = ret'
    BY <1>2, <1>3, RcFacts DEF Ok
  <2>2. Opened(t, m)'
    BY <1>0, <1>2, <1>3, <2>1, RcFacts, OpenedNow
  <2>3. abi' \in AnyFd
    BY <1>3, <2>1 DEF AnyFd
  <2>4. Passing' /\ fails' \in Nat
    BY <1>0, <2>3, DidPasses
  <2>5. pc' = pc + 1
    BY <2>1 DEF Did
  <2> QED
    BY <1>1, <2>2, <2>4, <2>5
<1>4. CASE ret' \notin Fds
  <2>1. ret' = EMFILE /\ table' = before /\ \A g \in Fds : fdtab0[g] # NoFile
    BY <1>0, <1>2, <1>4, RcFacts, OpenedNow
  <2>2. abi'.err # "OK"
    BY <2>1, RcFacts DEF Err
  <2>3. ~Fresh(fdtab0, attr0)
    BY <2>1 DEF Fresh
  <2>4. Passing' /\ fails' \in Nat
    BY <1>0, <2>3, DidPasses
  <2>5. pc' = pc + 1 + n
    BY <2>2 DEF Did
  <2> QED
    BY <1>1, <1>2, <2>1, <2>4, <2>5
<1> QED
  BY <1>3, <1>4

\* The close of what the test has opened
LEMMA CloseStep ==
  ASSUME TestInv, pc \in {18, 21, 23, 30}, NEW t, NEW m, Opened(t, m),
         Did("close", newfd, 0, {Ok(0)}, 0)
  PROVE  Goes
<1>0. FdInv /\ Sound0 /\ Stage /\ Passing /\ fails \in Nat
  BY DEF TestInv
<1>1. Close(newfd) /\ abi' = FromRc(ret') /\ pc' = pc + 1 /\ UNCHANGED before
  BY CallIs DEF Did, SysClose, Publish
<1>2. ret' = 0 /\ table' = before'
  BY <1>0, <1>1, ClosedNow
<1>3. abi' \in {Ok(0)}
  BY <1>1, <1>2, RcFacts
<1>4. Passing' /\ fails' \in Nat
  BY <1>0, <1>3, DidPasses
<1>5. newfd \in Fds
  BY DEF Opened
<1>6. newfd \in FdArgs
  BY <1>5, FdAssumption DEF Fds, FdArgs
<1>7. FdCall
  BY <1>1, <1>6 DEF FdCall
<1>8. Stage'
  BY <1>1, <1>2 DEF Stage
<1> QED
  BY <1>1, <1>4, <1>7, <1>8 DEF Goes

\* The calls on the device files
LEMMA DeviceSteps ==
  ASSUME TestInv, TestStep, pc \in 15 .. 24
  PROVE  Goes
<1>0. FdInv /\ Sound0 /\ Stage
  BY DEF TestInv
<1>15. CASE pc = 15
  <2>1. Script[15] = Guard("open", 0, [path |-> "null", acc |-> "RDWR"], AnyFd, 3)
    BY ScriptParts DEF OnDevices
  <2>2. Did("open", 0, [path |-> "null", acc |-> "RDWR"], AnyFd, 3)
    BY <1>15, <2>1, StepDid
  <2>3. OpenSpecial("DEV_NULL", "RDWR", 0) /\ abi' = FromRc(ret')
    BY <2>2, CallIs DEF Did, SysOpen, TypeOfPath, Publish
  <2>4. /\ FdCall /\ Passing' /\ fails' \in Nat
        /\ (pc' = 16 /\ Opened("DEV_NULL", "RDWR")') \/ (pc' = 19 /\ table' = before')
    BY <1>15, <2>2, <2>3, OpenStep
  <2> QED
    BY <2>4 DEF Goes, Stage
<1>16. CASE pc = 16
  <2>1. Script[16] = Step("read", newfd, 8, {Ok(0)})
    BY ScriptParts DEF OnDevices
  <2>2. Did("read", newfd, 8, {Ok(0)}, 0)
    BY <1>16, <2>1, StepDid
  <2>3. Opened("DEV_NULL", "RDWR")
    BY <1>0, <1>16 DEF Stage
  <2>4. Open(newfd) /\ TypeOf(newfd) = "DEV_NULL" /\ CanRead(newfd) /\ CanWrite(newfd)
    BY <1>0, <2>3, OnOpened
  <2>5. UNCHANGED vars /\ abi' = Ok(0)
    BY <2>2, <2>4, CallIs DEF Did, SysRead, IsConsole, Publish
  <2> QED
    BY <1>16, <2>2, <2>5, LookingStep DEF Looking
<1>17. CASE pc = 17
  <2>1. Script[17] = Step("write", newfd, 1, {Ok(1)})
    BY ScriptParts DEF OnDevices
  <2>2. Did("write", newfd, 1, {Ok(1)}, 0)
    BY <1>17, <2>1, StepDid
  <2>3. Opened("DEV_NULL", "RDWR")
    BY <1>0, <1>17 DEF Stage
  <2>4. Open(newfd) /\ TypeOf(newfd) = "DEV_NULL" /\ CanRead(newfd) /\ CanWrite(newfd)
    BY <1>0, <2>3, OnOpened
  <2>5. UNCHANGED vars /\ abi' = Ok(1)
    BY <2>2, <2>4, CallIs DEF Did, SysWrite, Quiet, Publish
  <2> QED
    BY <1>17, <2>2, <2>5, LookingStep DEF Looking
<1>18. CASE pc = 18
  <2>1. Script[18] = Step("close", newfd, 0, {Ok(0)})
    BY ScriptParts DEF OnDevices
  <2>2. Did("close", newfd, 0, {Ok(0)}, 0)
    BY <1>18, <2>1, StepDid
  <2>3. Opened("DEV_NULL", "RDWR")
    BY <1>0, <1>18 DEF Stage
  <2> QED
    BY <1>18, <2>2, <2>3, CloseStep
<1>19. CASE pc = 19
  <2>1. Script[19] = Guard("open", 0, [path |-> "zero", acc |-> "RDONLY"], AnyFd, 2)
    BY ScriptParts DEF OnDevices
  <2>2. Did("open", 0, [path |-> "zero", acc |-> "RDONLY"], AnyFd, 2)
    BY <1>19, <2>1, StepDid
  <2>3. OpenSpecial("DEV_ZERO", "RDONLY", 0) /\ abi' = FromRc(ret')
    BY <2>2, CallIs DEF Did, SysOpen, TypeOfPath, Publish
  <2>4. /\ FdCall /\ Passing' /\ fails' \in Nat
        /\ (pc' = 20 /\ Opened("DEV_ZERO", "RDONLY")') \/ (pc' = 22 /\ table' = before')
    BY <1>19, <2>2, <2>3, OpenStep
  <2> QED
    BY <2>4 DEF Goes, Stage
<1>20. CASE pc = 20
  <2>1. Script[20] = Step("read", newfd, 8, {Ok(8)})
    BY ScriptParts DEF OnDevices
  <2>2. Did("read", newfd, 8, {Ok(8)}, 0)
    BY <1>20, <2>1, StepDid
  <2>3. Opened("DEV_ZERO", "RDONLY")
    BY <1>0, <1>20 DEF Stage
  <2>4. Open(newfd) /\ TypeOf(newfd) = "DEV_ZERO" /\ CanRead(newfd)
    BY <1>0, <2>3, OnOpened
  <2>5. UNCHANGED vars /\ abi' = Ok(8)
    BY <2>2, <2>4, CallIs DEF Did, SysRead, IsConsole, Publish
  <2> QED
    BY <1>20, <2>2, <2>5, LookingStep DEF Looking
<1>21. CASE pc = 21
  <2>1. Script[21] = Step("close", newfd, 0, {Ok(0)})
    BY ScriptParts DEF OnDevices
  <2>2. Did("close", newfd, 0, {Ok(0)}, 0)
    BY <1>21, <2>1, StepDid
  <2>3. Opened("DEV_ZERO", "RDONLY")
    BY <1>0, <1>21 DEF Stage
  <2> QED
    BY <1>21, <2>2, <2>3, CloseStep
<1>22. CASE pc = 22
  <2>1. Script[22] = Guard("open", 0, [path |-> "tty", acc |-> "RDWR"], AnyFd, 1)
    BY ScriptParts DEF OnDevices
  <2>2. Did("open", 0, [path |-> "tty", acc |-> "RDWR"], AnyFd, 1)
    BY <1>22, <2>1, StepDid
  <2>3. OpenSpecial("DEV_TTY", "RDWR", 0) /\ abi' = FromRc(ret')
    BY <2>2, CallIs DEF Did, SysOpen, TypeOfPath, Publish
  <2>4. /\ FdCall /\ Passing' /\ fails' \in Nat
        /\ (pc' = 23 /\ Opened("DEV_TTY", "RDWR")') \/ (pc' = 24 /\ table' = before')
    BY <1>22, <2>2, <2>3, OpenStep
  <2> QED
    BY <2>4 DEF Goes, Stage
<1>23. CASE pc = 23
  <2>1. Script[23] = Step("close", newfd, 0, {Ok(0)})
    BY ScriptParts DEF OnDevices
  <2>2. Did("close", newfd, 0, {Ok(0)}, 0)
    BY <1>23, <2>1, StepDid
  <2>3. Opened("DEV_TTY", "RDWR")
    BY <1>0, <1>23 DEF Stage
  <2> QED
    BY <1>23, <2>2, <2>3, CloseStep
<1>24. CASE pc = 24
  <2>1. Script[24] = Step("open", 0, [path |-> "missing", acc |-> "RDONLY"], {Err("ENOENT")})
    BY ScriptParts DEF OnDevices
  <2>2. Did("open", 0, [path |-> "missing", acc |-> "RDONLY"], {Err("ENOENT")}, 0)
    BY <1>24, <2>1, StepDid
  <2>5. UNCHANGED vars /\ abi' = Err("ENOENT")
    BY <2>2, CallIs DEF Did, SysOpen, TypeOfPath, Quiet, Publish
  <2> QED
    BY <1>24, <2>2, <2>5, LookingStep DEF Looking
<1> QED
  BY <1>15, <1>16, <1>17, <1>18, <1>19, <1>20, <1>21, <1>22, <1>23, <1>24

\* The calls on sockets
LEMMA SocketSteps ==
  ASSUME TestInv, TestStep, pc \in 25 .. 31
  PROVE  Goes
<1>0. FdInv /\ Sound0 /\ Stage
  BY DEF TestInv
<1>25. CASE pc = 25
  <2>1. Script[25] = Step("socket", 0, "none", {Err("EAFNOSUPPORT")})
    BY ScriptParts DEF OnSockets
  <2>2. Did("socket", 0, "none", {Err("EAFNOSUPPORT")}, 0)
    BY <1>25, <2>1, StepDid
  <2>5. UNCHANGED vars /\ abi' = Err("EAFNOSUPPORT")
    BY <2>2, CallIs DEF Did, SysSocket, Quiet, Publish
  <2> QED
    BY <1>25, <2>2, <2>5, LookingStep DEF Looking
<1>26. CASE pc = 26
  <2>1. Script[26] = Guard("socket", 0, "INET", AnyFd, 4)
    BY ScriptParts DEF OnSockets
  <2>2. Did("socket", 0, "INET", AnyFd, 4)
    BY <1>26, <2>1, StepDid
  <2>3. OpenSpecial("SOCKET", "RDWR", 0) /\ abi' = FromRc(ret')
    BY <2>2, CallIs DEF Did, SysSocket, Publish
  <2>4. /\ FdCall /\ Passing' /\ fails' \in Nat
        /\ (pc' = 27 /\ Opened("SOCKET", "RDWR")') \/ (pc' = 31 /\ table' = before')
    BY <1>26, <2>2, <2>3, OpenStep
  <2> QED
    BY <2>4 DEF Goes, Stage
<1>27. CASE pc = 27
  <2>1. Script[27] = Step("bind", newfd, 0, {Err("EOPNOTSUPP")})
    BY ScriptParts DEF OnSockets
  <2>2. Did("bind", newfd, 0, {Err("EOPNOTSUPP")}, 0)
    BY <1>27, <2>1, StepDid
  <2>3. Opened("SOCKET", "RDWR")
    BY <1>0, <1>27 DEF Stage
  <2>4. Open(newfd) /\ TypeOf(newfd) = "SOCKET" /\ CanRead(newfd) /\ CanWrite(newfd)
    BY <1>0, <2>3, OnOpened
  <2>5. UNCHANGED vars /\ abi' = Err("EOPNOTSUPP")
    BY <2>2, <2>4, CallIs DEF Did, SysOnSocket, Quiet, Publish
  <2> QED
    BY <1>27, <2>2, <2>5, LookingStep DEF Looking
<1>28. CASE pc = 28
  <2>1. Script[28] = Step("send", newfd, 0, {Err("ENOTCONN")})
    BY ScriptParts DEF OnSockets
  <2>2. Did("send", newfd, 0, {Err("ENOTCONN")}, 0)
    BY <1>28, <2>1, StepDid
  <2>3. Opened("SOCKET", "RDWR")
    BY <1>0, <1>28 DEF Stage
  <2>4. Open(newfd) /\ TypeOf(newfd) = "SOCKET" /\ CanRead(newfd) /\ CanWrite(newfd)
    BY <1>0, <2>3, OnOpened
  <2>5. UNCHANGED vars /\ abi' = Err("ENOTCONN")
    BY <2>2, <2>4, CallIs DEF Did, SysOnSocket, Quiet, Publish
  <2> QED
    BY <1>28, <2>2, <2>5, LookingStep DEF Looking
<1>29. CASE pc = 29
  <2>1. Script[29] = Step("recv", newfd, 0, {Err("ENOTCONN")})
    BY ScriptParts DEF OnSockets
  <2>2. Did("recv", newfd, 0, {Err("ENOTCONN")}, 0)
    BY <1>29, <2>1, StepDid
  <2>3. Opened("SOCKET", "RDWR")
    BY <1>0, <1>29 DEF Stage
  <2>4. Open(newfd) /\ TypeOf(newfd) = "SOCKET" /\ CanRead(newfd) /\ CanWrite(newfd)
    BY <1>0, <2>3, OnOpened
  <2>5. UNCHANGED vars /\ abi' = Err("ENOTCONN")
    BY <2>2, <2>4, CallIs DEF Did, SysOnSocket, Quiet, Publish
  <2> QED
    BY <1>29, <2>2, <2>5, LookingStep DEF Looking
<1>30. CASE pc = 30
  <2>1. Script[30] = Step("close", newfd, 0, {Ok(0)})
    BY ScriptParts DEF OnSockets
  <2>2. Did("close", newfd, 0, {Ok(0)}, 0)
    BY <1>30, <2>1, StepDid
  <2>3. Opened("SOCKET", "RDWR")
    BY <1>0, <1>30 DEF Stage
  <2> QED
    BY <1>30, <2>2, <2>3, CloseStep
<1>31. CASE pc = 31
  <2>1. Script[31] = Step("bind", 0, 0, {Err("ENOTSOCK")})
    BY ScriptParts DEF OnSockets
  <2>2. Did("bind", 0, 0, {Err("ENOTSOCK")}, 0)
    BY <1>31, <2>1, StepDid
  <2>3. table = before
    BY <1>0, <1>31 DEF Stage
  <2>4. UNCHANGED vars /\ (Fresh(fdtab0, attr0) => abi' = Err("ENOTSOCK"))
    <3>1. SysOnSocket("bind", 0)
      BY <2>2, CallIs DEF Did
    <3>2. fdtab = fdtab0 /\ attr = attr0
      BY <1>0, <2>3 DEF table, Sound0
    <3>3. Fresh(fdtab0, attr0) => Open(0) /\ TypeOf(0) = "STDIN"
      BY <1>0, <3>2, FreshStdin DEF TypeOf, File, stdin0
    <3> QED
      BY <3>1, <3>3 DEF SysOnSocket, Quiet, Publish
  <2>5. UNCHANGED vars /\ (Fresh(fdtab0, attr0) => abi' \in {Err("ENOTSOCK")})
    BY <2>4
  <2> QED
    BY <1>31, <2>2, <2>5, LookingStep DEF Looking
<1> QED
  BY <1>25, <1>26, <1>27, <1>28, <1>29, <1>30, <1>31

----------------------------------------------------------------------------
\* Every step of the test is one of these.
LEMMA TestGoes ==
  ASSUME TestInv, TestStep
  PROVE  Goes
<1>1. pc \in 1 .. 31
  BY ScriptParts DEF TestStep
<1>2. \/ pc \in {1, 2} \/ pc \in 3 .. 12 \/ pc \in {13, 14} \/ pc \in 15 .. 24 \/ pc \in 25 .. 31
  BY <1>1
<1> QED
  BY <1>2, FirstSteps, DuplicateSteps, RestoreSteps, DeviceSteps, SocketSteps

\* What was the table of a living task stays one.
LEMMA SoundKept ==
  ASSUME Sound0, UNCHANGED before
  PROVE  Sound0'
<1>1. UNCHANGED <<fdtab0, cloexec0, used0, refs0, attr0>>
  BY DEF fdtab0, cloexec0, used0, refs0, attr0
<1> QED
  BY <1>1 DEF Sound0

\* A table with the invariants is that of a living task.
LEMMA SoundNow ==
  ASSUME FdInv, FilesInv, closing = -1, before' = table
  PROVE  Sound0'
<1>1. /\ fdtab0' = fdtab /\ cloexec0' = cloexec /\ used0' = used /\ refs0' = refs /\ attr0' = attr
      /\ before' = <<fdtab, cloexec, used, refs, attr>>
  BY DEF fdtab0, cloexec0, used0, refs0, attr0, table
<1>2. /\ fdtab \in [Fds -> Fds \cup {NoFile}] /\ cloexec \subseteq Fds /\ used \subseteq Fds
      /\ refs \in [Fds -> Nat] /\ attr \in [Fds -> AttrType]
  BY DEF FdInv, TypeOK
<1>3. /\ \A fd \in Fds : fdtab[fd] # NoFile => fdtab[fd] \in used
      /\ \A fd \in cloexec : fdtab[fd] # NoFile
      /\ \A o \in Fds : o \in used <=> refs[o] # 0
  BY <1>2, OpenInTable DEF FdInv, ClosedSoFar, RefsExact, Open
<1> QED
  BY <1>1, <1>2, <1>3 DEF Sound0, FilesInv

\* A step of the shell is a descriptor call.
LEMMA ShellCall ==
  ASSUME Shell
  PROVE  FdCall
<1>0. Fds \subseteq FdArgs /\ 0 \in FdArgs
  BY FdAssumption DEF Fds, FdArgs
<1>1. ASSUME NEW fd \in Fds, SysClose(fd) PROVE FdCall
  BY <1>0, <1>1 DEF FdCall, SysClose
<1>2. ASSUME NEW fd \in Fds, NEW new \in Fds, Dup2(fd, new) PROVE FdCall
  BY <1>2 DEF FdCall
<1>3. ASSUME NEW nb \in {0, 1}, SysSetFl(0, nb) PROVE FdCall
  BY <1>0, <1>3 DEF FdCall, SysSetFl
<1>4. ASSUME NEW on \in {0, 1}, SysSetFd(0, on) PROVE FdCall
  <2>1. SetFd(0, on = 1) /\ (on = 1) \in BOOLEAN
    BY <1>4 DEF SysSetFd
  <2> QED
    BY <1>0, <2>1, Zenon DEF FdCall
<1> QED
  BY <1>1, <1>2, <1>3, <1>4 DEF Shell

\* The invariant holds when the init task has its table.
LEMMA TestInit == SysInit => TestInv
<1> SUFFICES ASSUME SysInit PROVE TestInv
  OBVIOUS
<1>1. FdInv
  BY FdInit DEF SysInit
<1>2. \A o \in Fds \ used : attr[o] = NoAttr
  BY FdFacts DEF SysInit, Init, StdioAttr
<1>3. \A o \in Fds : attr[o].type = "STDIN" => attr[o].acc = "RDONLY"
  BY FdFacts DEF SysInit, Init, StdioAttr, Attr, NoAttr
<1> QED
  BY <1>1, <1>2, <1>3 DEF TestInv, FilesInv, SysInit, Init

\* Every call of the shell and every step of its self-test keep the invariant.
LEMMA TestInvStep == TestInv /\ [SysNext]_sysvars => TestInv'
<1> SUFFICES ASSUME TestInv, [SysNext]_sysvars PROVE TestInv'
  OBVIOUS
<1>0. FdInv /\ FilesInv /\ closing = -1 /\ pc \in 0 .. 32 /\ fails \in Nat
  BY DEF TestInv
<1>e. Ended = 32
  BY ScriptParts DEF Ended
<1>1. CASE Start
  <2>1. UNCHANGED vars /\ pc' = 1 /\ fails' = 0 /\ before' = table
    BY <1>1 DEF Start
  <2>2. FdInv' /\ FilesInv' /\ closing' = -1
    BY <1>0, <2>1, FdCallStep
  <2>3. Sound0'
    BY <1>0, <2>1, SoundNow
  <2>4. table' = before'
    BY <2>1 DEF vars, table
  <2>5. Stage' /\ Passing'
    BY <2>1, <2>4 DEF Stage, Passing
  <2> QED
    BY <2>1, <2>2, <2>3, <2>5 DEF TestInv
<1>2. CASE TestStep
  <2>1. Goes
    BY <1>2, TestGoes
  <2>2. FdInv' /\ FilesInv' /\ closing' = -1
    BY <1>0, <2>1, FdCallStep DEF Goes
  <2>3. Sound0
    BY <1>2, ScriptParts DEF TestInv, TestStep
  <2>4. Sound0'
    BY <1>2, <2>3, SoundKept DEF TestStep
  <2> QED
    BY <2>1, <2>2, <2>4 DEF Goes, TestInv
<1>3. CASE Input \/ UNCHANGED sysvars
  <2>1. UNCHANGED <<vars, pc, fails, dupfd, newfd, old_fl, before>>
    BY <1>3 DEF Input, sysvars, test
  <2>2. FdInv' /\ FilesInv' /\ closing' = -1
    BY <1>0, <2>1, FdCallStep
  <2>3. pc # 0 => Sound0'
    BY <2>1, SoundKept DEF TestInv
  <2>4. UNCHANGED <<fdtab0, cloexec0, used0, refs0, attr0, stdin0>>
    BY <2>1 DEF fdtab0, cloexec0, used0, refs0, attr0, stdin0
  <2>5. UNCHANGED <<fdtab, cloexec, used, refs, attr>>
    BY <2>1 DEF vars
  <2>6. Passing => Passing'
    BY <2>1, <2>4 DEF Passing
  <2>7. Stage => Stage'
    <3>1. /\ table = before => table' = before'
          /\ FlagLeft => FlagLeft'
      BY <2>1, <2>4, <2>5 DEF table, FlagLeft, Spare, NonBlocking
    <3>2. /\ Duplicated(0, 0) => Duplicated(0, 0)'
          /\ Duplicated(1, 0) => Duplicated(1, 0)'
          /\ Duplicated(1, 1) => Duplicated(1, 1)'
      BY <2>1, <2>4, <2>5 DEF Duplicated, Spare, NonBlocking
    <3>3. /\ Opened("DEV_NULL", "RDWR") => Opened("DEV_NULL", "RDWR")'
          /\ Opened("DEV_ZERO", "RDONLY") => Opened("DEV_ZERO", "RDONLY")'
          /\ Opened("DEV_TTY", "RDWR") => Opened("DEV_TTY", "RDWR")'
          /\ Opened("SOCKET", "RDWR") => Opened("SOCKET", "RDWR")'
      BY <2>1, <2>4, <2>5 DEF Opened
    <3> QED
      BY <2>1, <2>4, <3>1, <3>2, <3>3 DEF Stage
  <2> QED
    BY <1>0, <2>1, <2>2, <2>3, <2>6, <2>7 DEF TestInv
<1>4. CASE Shell
  <2>1. pc' = 0 /\ UNCHANGED fails
    BY <1>4 DEF Shell
  <2>2. FdInv' /\ FilesInv' /\ closing' = -1
    BY <1>0, <1>4, ShellCall, FdCallStep
  <2> QED
    BY <1>0, <2>1, <2>2 DEF TestInv
<1> QED
  BY <1>1, <1>2, <1>3, <1>4 DEF SysNext

\* fd_selftest_run reports no failure for a task with its stdio and a free
\* descriptor, and leaves the table of every task as it found it, for every
\* size of the table.
THEOREM SelfTestCorrect == SysSpec => []SelfTestHolds
<1>1. TestInv => SelfTestHolds
  <2> SUFFICES ASSUME TestInv PROVE SelfTestHolds
    OBVIOUS
  <2>1. Ended = 32
    BY ScriptParts DEF Ended
  <2>2. SelfTestPasses
    BY DEF TestInv, Passing, SelfTestPasses, fdtab0, attr0
  <2>3. SelfTestRestores
    BY <2>1 DEF TestInv, Stage, SelfTestRestores
  <2> QED
    BY <2>2, <2>3 DEF SelfTestHolds
<1> QED
  BY <1>1, TestInit, TestInvStep, PTL DEF SysSpec
=============================================================================
