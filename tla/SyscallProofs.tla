--------------------------- MODULE SyscallProofs ---------------------------
(***************************************************************************)
(* The system calls of a task.  The reference counts of its descriptor      *)
(* table are exact, exit leaves nothing behind and the table implements     *)
(* PosixFds, for every table size and every set of file types and access    *)
(* modes.  Then what the calls of the shell's self-test do to the table,    *)
(* in terms of the table when the test began.                               *)
(***************************************************************************)
EXTENDS Syscalls, FiniteSetTheorems, TLAPS

\* What a leaf that names no prover is tried with, and for how many seconds.
USE ZenonT(3), SMTT(30)

----------------------------------------------------------------------------
(* The descriptor table. *)

\* Descriptors below the one that exit closes next are closed, and only open
\* descriptors have FD_CLOEXEC.
ClosedSoFar ==
  /\ \A fd \in Fds : fd < closing => fdtab[fd] = NoFile
  /\ \A fd \in cloexec : fdtab[fd] # NoFile

\* The inductive invariant: the counts are exact, which makes a descriptor
\* that is in the table one that sched_slot_ofile_by_fd finds.
FdInv == TypeOK /\ RefsExact /\ ClosedSoFar

\* What the proofs use of the index sets.
LEMMA FdFacts ==
  /\ 0 \in Fds /\ 1 \in Fds /\ 2 \in Fds
  /\ Fds \subseteq Int
  /\ NoFile \notin Fds
  /\ -1 \notin Fds
  /\ IsFiniteSet(Fds)
  /\ \A fd \in Fds : fd >= 0 /\ fd < MaxFds /\ fd + 1 \in -1 .. MaxFds
  /\ 0 \in -1 .. MaxFds /\ -1 \in -1 .. MaxFds
  /\ \A i \in -1 .. MaxFds : i \in Int
BY FdAssumption, FS_Interval DEF Fds, NoFile

\* The files that nobody or one descriptor refers to, counted.
LEMMA HoldersFinite ==
  ASSUME NEW o \in Fds
  PROVE  /\ IsFiniteSet(Holders(o))
         /\ Cardinality(Holders(o)) \in Nat
         /\ Cardinality(Holders(o)) = 0 <=> \A fd \in Fds : fdtab[fd] # o
<1>1. Holders(o) \subseteq Fds
  BY DEF Holders
<1>2. IsFiniteSet(Holders(o))
  BY <1>1, FdFacts, FS_Subset
<1>3. Cardinality(Holders(o)) \in Nat
  BY <1>2, FS_CardinalityType
<1>4. Cardinality(Holders(o)) = 0 <=> Holders(o) = {}
  BY <1>2, FS_EmptySet
<1> QED
  BY <1>2, <1>3, <1>4 DEF Holders

\* How much storing t in the entry fd of fdtab changes the number of descriptors
\* that refer to o.
Change(fd, t, o) == IF t = o THEN IF fdtab[fd] = o THEN 0 ELSE 1
                             ELSE IF fdtab[fd] = o THEN -1 ELSE 0

\* Storing t in the entry fd changes the number of holders of o by that much.
LEMMA Redirect ==
  ASSUME fdtab \in [Fds -> Fds \cup {NoFile}],
         NEW fd \in Fds, NEW t \in Fds \cup {NoFile}, NEW o \in Fds,
         fdtab' = [fdtab EXCEPT ![fd] = t]
  PROVE  Cardinality(Holders(o)') = Cardinality(Holders(o)) + Change(fd, t, o)
<1>1. /\ IsFiniteSet(Holders(o))
      /\ Cardinality(Holders(o)) \in Nat
  BY HoldersFinite
<1>2. CASE t = o /\ fdtab[fd] = o
  <2>1. Holders(o)' = Holders(o)
    BY <1>2 DEF Holders
  <2> QED
    BY <1>1, <1>2, <2>1 DEF Change
<1>3. CASE t = o /\ fdtab[fd] # o
  <2>1. Holders(o)' = Holders(o) \cup {fd} /\ fd \notin Holders(o)
    BY <1>3 DEF Holders
  <2> QED
    BY <1>1, <1>3, <2>1, FS_AddElement DEF Change
<1>4. CASE t # o /\ fdtab[fd] = o
  <2>1. Holders(o)' = Holders(o) \ {fd} /\ fd \in Holders(o)
    BY <1>4 DEF Holders
  <2> QED
    BY <1>1, <1>4, <2>1, FS_RemoveElement DEF Change
<1>5. CASE t # o /\ fdtab[fd] # o
  <2>1. Holders(o)' = Holders(o)
    BY <1>5 DEF Holders
  <2> QED
    BY <1>1, <1>5, <2>1 DEF Change
<1> QED
  BY <1>2, <1>3, <1>4, <1>5

\* With exact counts, a descriptor is open exactly if it is in the table.
LEMMA OpenInTable ==
  ASSUME TypeOK, RefsExact, NEW fd
  PROVE  Open(fd) <=> fd \in Fds /\ fdtab[fd] # NoFile
<1>1. SUFFICES ASSUME fd \in Fds, fdtab[fd] # NoFile
              PROVE  fdtab[fd] \in used /\ refs[fdtab[fd]] # 0
  BY DEF Open
<1>2. fdtab[fd] \in Fds
  BY <1>1 DEF TypeOK
<1>3. Cardinality(Holders(fdtab[fd])) # 0
  BY <1>1, <1>2, HoldersFinite
<1> QED
  BY <1>2, <1>3 DEF RefsExact

\* The same descriptors refer to a file when fdtab does not change.
LEMMA SameHolders ==
  ASSUME UNCHANGED fdtab, NEW o
  PROVE  Holders(o)' = Holders(o)
BY DEF Holders

\* A descriptor can be had only together with a file entry: the second EMFILE
\* return of sched_fd_open_special is never taken.
LEMMA FreeFileExists ==
  ASSUME TypeOK, RefsExact, FreeFds # {}
  PROVE  FreeFiles # {}
<1> SUFFICES ASSUME FreeFiles = {}
             PROVE  FALSE
  OBVIOUS
<1> DEFINE T == {fd \in Fds : fdtab[fd] # NoFile}
           f == [o \in Fds |-> CHOOSE fd \in Fds : fdtab[fd] = o]
<1>1. \A o \in Fds : \E fd \in Fds : fdtab[fd] = o
  BY HoldersFinite DEF RefsExact, FreeFiles
<1>2. \A o \in Fds : f[o] \in Fds /\ fdtab[f[o]] = o
  BY <1>1
<1>3. f \in [Fds -> T]
  BY <1>2, FdFacts
<1>4. T \in SUBSET Fds /\ T # Fds
  BY DEF FreeFds
<1>5. IsFiniteSet(T) /\ Cardinality(T) < Cardinality(Fds)
  <2>1. IsFiniteSet(T) /\ Cardinality(T) <= Cardinality(Fds) /\ Cardinality(T) # Cardinality(Fds)
    BY <1>4, FdFacts, FS_Subset
  <2> QED
    BY <2>1, FdFacts, FS_CardinalityType
<1> HIDE DEF T, f
<1>6. \E x, y \in Fds : x # y /\ f[x] = f[y]
  BY <1>3, <1>5, FdFacts, FS_PigeonHole, Zenon
<1> QED
  BY <1>2, <1>6

----------------------------------------------------------------------------

\* Attributes that the calls store are attributes.
LEMMA AttrTypes ==
  /\ NoAttr \in AttrType
  /\ \A t \in Types, m \in Modes, nb \in {0, 1} : Attr(t, m, nb) \in AttrType
  /\ StdioAttr \in [Fds -> AttrType]
  /\ \A a \in AttrType, nb \in {0, 1} : [a EXCEPT !.nonblock = nb] \in AttrType
<1>1. NoAttr \in AttrType
  BY DEF NoAttr, Attr, AttrType
<1>2. \A t \in Types, m \in Modes, nb \in {0, 1} : Attr(t, m, nb) \in AttrType
  BY DEF Attr, AttrType
<1>3. StdioAttr \in [Fds -> AttrType]
  <2>1. /\ Attr("STDIN", "RDONLY", 0) \in AttrType
        /\ Attr("STDOUT", "WRONLY", 0) \in AttrType
        /\ Attr("STDERR", "WRONLY", 0) \in AttrType
    BY DEF Attr, AttrType
  <2> QED
    BY <1>1, <2>1 DEF StdioAttr
<1>4. \A a \in AttrType, nb \in {0, 1} : [a EXCEPT !.nonblock = nb] \in AttrType
  BY DEF AttrType
<1> QED
  BY <1>1, <1>2, <1>3, <1>4

\* What sched_fd_table_init_stdio leaves is a table with exact counts.
LEMMA StdioExact ==
  \A o \in Fds : /\ StdioRefs[o] = Cardinality({fd \in Fds : StdioTab[fd] = o})
                 /\ o \in 0 .. 2 <=> StdioRefs[o] # 0
<1> SUFFICES ASSUME NEW o \in Fds
             PROVE  /\ StdioRefs[o] = Cardinality({fd \in Fds : StdioTab[fd] = o})
                    /\ o \in 0 .. 2 <=> StdioRefs[o] # 0
  OBVIOUS
<1>1. CASE o <= 2
  <2>1. {fd \in Fds : StdioTab[fd] = o} = {o}
    BY <1>1, FdFacts DEF StdioTab
  <2>2. StdioRefs[o] = 1 /\ o \in 0 .. 2
    BY <1>1, FdFacts DEF StdioRefs
  <2>3. Cardinality({o}) = 1
    BY FS_Singleton, Zenon
  <2> QED
    BY <2>1, <2>2, <2>3
<1>2. CASE ~(o <= 2)
  <2>1. {fd \in Fds : StdioTab[fd] = o} = {}
    BY <1>2, FdFacts DEF StdioTab
  <2>2. StdioRefs[o] = 0 /\ o \notin 0 .. 2
    BY <1>2, FdFacts DEF StdioRefs
  <2> QED
    BY <2>1, <2>2, FS_EmptySet
<1> QED
  BY <1>1, <1>2

\* The invariant holds of a task that was just spawned.
LEMMA FdInit == Init => FdInv
<1> SUFFICES ASSUME Init PROVE FdInv
  OBVIOUS
<1>1. TypeOK
  BY FdFacts, AttrTypes DEF Init, TypeOK, StdioTab, StdioRefs, NoFile
<1>2. RefsExact
  BY StdioExact, Zenon DEF Init, RefsExact, Holders
<1>3. ClosedSoFar
  BY FdFacts DEF Init, ClosedSoFar
<1> QED
  BY <1>1, <1>2, <1>3 DEF FdInv

\* Every step keeps the tables within their types.
LEMMA FdTypeStep == FdInv /\ [Next]_vars => TypeOK'
<1> SUFFICES ASSUME FdInv, [Next]_vars PROVE TypeOK'
  OBVIOUS
<1>t. /\ fdtab \in [Fds -> Fds \cup {NoFile}] /\ cloexec \subseteq Fds /\ used \subseteq Fds
      /\ refs \in [Fds -> Nat] /\ attr \in [Fds -> AttrType]
      /\ closing \in -1 .. MaxFds /\ ret \in Int
  BY DEF FdInv, TypeOK
<1>o. ASSUME NEW fd, Open(fd)
      PROVE  fd \in Fds /\ fdtab[fd] \in Fds /\ refs[fdtab[fd]] \in Nat /\ refs[fdtab[fd]] # 0
  BY <1>t, <1>o DEF Open
<1>c. ASSUME NEW fd, Open(fd)
      PROVE  /\ RefsClosed(fd) \in [Fds -> Nat]
             /\ UsedClosed(fd) \subseteq Fds
             /\ AttrClosed(fd) \in [Fds -> AttrType]
  BY <1>c, <1>t, <1>o, AttrTypes DEF RefsClosed, UsedClosed, AttrClosed
<1>f. ASSUME NEW e \in Int, Fail(e) PROVE TypeOK'
  BY <1>f, <1>t DEF Fail, Return, table, TypeOK
<1>1. ASSUME NEW fd \in FdArgs, Close(fd) PROVE TypeOK'
  <2>1. CASE ~Open(fd) /\ Fail(EBADF)
    BY <2>1, <1>f DEF EBADF
  <2>2. CASE Open(fd) /\ CloseFd(fd) /\ Return(0)
    BY <2>2, <1>t, <1>o, <1>c DEF CloseFd, Return, TypeOK
  <2> QED
    BY <1>1, <2>1, <2>2 DEF Close
<1>2. ASSUME NEW fd \in FdArgs, Dup(fd) PROVE TypeOK'
  <2>1. CASE Fail(EBADF)
    BY <2>1, <1>f DEF EBADF
  <2>2. CASE Fail(EMFILE)
    BY <2>2, <1>f DEF EMFILE
  <2>3. ASSUME Open(fd), NEW new \in Fds,
               fdtab' = [fdtab EXCEPT ![new] = fdtab[fd]], cloexec' = cloexec \ {new},
               refs' = [refs EXCEPT ![fdtab[fd]] = @ + 1], Return(new), UNCHANGED <<used, attr>>
        PROVE  TypeOK'
    BY <2>3, <1>t, <1>o, FdFacts DEF Return, TypeOK
  <2> QED
    BY <1>2, <2>1, <2>2, <2>3 DEF Dup
<1>3. ASSUME NEW fd \in FdArgs, NEW new \in FdArgs, Dup2(fd, new) PROVE TypeOK'
  <2>1. CASE Fail(EBADF) \/ Fail(EINVAL) \/ Fail(new)
    BY <2>1, <1>f DEF EBADF, EINVAL, FdArgs
  <2>2. ASSUME new \in Fds, Open(fd), fdtab' = [fdtab EXCEPT ![new] = fdtab[fd]],
               cloexec' = cloexec \ {new}, Return(new)
        PROVE  /\ fdtab' \in [Fds -> Fds \cup {NoFile}] /\ cloexec' \subseteq Fds
               /\ closing' \in -1 .. MaxFds /\ ret' \in Int
    BY <2>2, <1>t, <1>o, FdFacts DEF Return
  <2>3. ASSUME Open(fd), Open(new), refs' = [RefsClosed(new) EXCEPT ![fdtab[fd]] = @ + 1],
               used' = UsedClosed(new), attr' = AttrClosed(new)
        PROVE  refs' \in [Fds -> Nat] /\ used' \subseteq Fds /\ attr' \in [Fds -> AttrType]
    BY <2>3, <1>o, <1>c
  <2>4. ASSUME Open(fd), refs' = [refs EXCEPT ![fdtab[fd]] = @ + 1], UNCHANGED <<used, attr>>
        PROVE  refs' \in [Fds -> Nat] /\ used' \subseteq Fds /\ attr' \in [Fds -> AttrType]
    BY <2>4, <1>o, <1>t
  <2> QED
    BY <1>3, <2>1, <2>2, <2>3, <2>4 DEF Dup2, TypeOK
<1>4. ASSUME NEW fd \in FdArgs, NEW on \in BOOLEAN, SetFd(fd, on) PROVE TypeOK'
  <2>1. CASE Fail(EBADF)
    BY <2>1, <1>f DEF EBADF
  <2>2. CASE Open(fd) /\ ~Fail(EBADF)
    BY <1>4, <2>2, <1>t, <1>o DEF SetFd, Return, TypeOK
  <2> QED
    BY <1>4, <2>1, <2>2 DEF SetFd
<1>5. ASSUME NEW fd \in FdArgs, NEW nb \in {0, 1}, SetFl(fd, nb) PROVE TypeOK'
  <2>1. CASE Fail(EBADF)
    BY <2>1, <1>f DEF EBADF
  <2>2. CASE Open(fd) /\ ~Fail(EBADF)
    <3>1. [attr EXCEPT ![fdtab[fd]].nonblock = nb] \in [Fds -> AttrType]
      BY <1>t, <1>o, <2>2, AttrTypes, Zenon
    <3> QED
      BY <3>1, <1>5, <2>2, <1>t DEF SetFl, Return, TypeOK
  <2> QED
    BY <1>5, <2>1, <2>2 DEF SetFl
<1>6. ASSUME NEW t \in Types, NEW m \in Modes, NEW nb \in {0, 1}, OpenSpecial(t, m, nb)
      PROVE  TypeOK'
  <2>1. CASE Fail(EMFILE)
    BY <2>1, <1>f DEF EMFILE
  <2>2. CASE ~Fail(EMFILE)
    <3>1. PICK new \in Fds, o \in Fds :
             /\ used' = used \cup {o}
             /\ refs' = [refs EXCEPT ![o] = 1]
             /\ attr' = [attr EXCEPT ![o] = Attr(t, m, nb)]
             /\ fdtab' = [fdtab EXCEPT ![new] = o]
             /\ cloexec' = cloexec \ {new}
             /\ Return(new)
      BY <1>6, <2>2 DEF OpenSpecial
    <3> QED
      BY <3>1, <1>t, FdFacts, AttrTypes DEF Return, TypeOK
  <2> QED
    BY <2>1, <2>2
<1>7. CASE Exit
  BY <1>7, <1>t, FdFacts DEF Exit, table, TypeOK
<1>8. CASE ExitClose
  <2>1. closing' \in -1 .. MaxFds
    BY <1>8, FdFacts DEF ExitClose
  <2>2. CASE Open(closing)
    <3>1. /\ RefsClosed(closing) \in [Fds -> Nat]
          /\ UsedClosed(closing) \subseteq Fds
          /\ AttrClosed(closing) \in [Fds -> AttrType]
      BY <2>2, <1>c
    <3>2. CloseFd(closing) /\ ret' = 0
      BY <1>8, <2>2 DEF ExitClose
    <3>3. fdtab' \in [Fds -> Fds \cup {NoFile}] /\ cloexec' \subseteq Fds /\ ret' \in Int
      <4> DEFINE c == closing
      <4>1. /\ c \in Fds /\ ret' = 0
            /\ fdtab' = [fdtab EXCEPT ![c] = NoFile] /\ cloexec' = cloexec \ {c}
        BY <1>8, <3>2 DEF ExitClose, CloseFd
      <4> HIDE DEF c
      <4>2. fdtab' \in [Fds -> Fds \cup {NoFile}]
        BY <4>1, <1>t
      <4>3. cloexec' \subseteq Fds
        BY <4>1, <1>t
      <4> QED
        BY <4>1, <4>2, <4>3
    <3>4. refs' \in [Fds -> Nat] /\ used' \subseteq Fds /\ attr' \in [Fds -> AttrType]
      BY <3>1, <3>2, Zenon DEF CloseFd
    <3> QED
      BY <2>1, <3>3, <3>4, Zenon DEF TypeOK
  <2>3. CASE ~Open(closing)
    BY <1>8, <2>1, <2>3, <1>t, Zenon DEF ExitClose, table, TypeOK
  <2> QED
    BY <2>2, <2>3
<1>9. CASE Renew
  BY <1>9, <1>t, FdFacts, AttrTypes DEF Renew, TypeOK, StdioTab, StdioRefs, NoFile
<1>10. CASE UNCHANGED vars
  BY <1>10, <1>t DEF vars, TypeOK
<1> QED
  BY <1>1, <1>2, <1>3, <1>4, <1>5, <1>6, <1>7, <1>8, <1>9, <1>10 DEF Next

\* Every step keeps the counts exact: an entry of fdtab changes together with
\* the counts of the file it referred to and of the file it refers to.
LEMMA CountStep == FdInv /\ [Next]_vars => RefsExact'
<1> SUFFICES ASSUME FdInv, [Next]_vars PROVE RefsExact'
  OBVIOUS
<1>t. /\ fdtab \in [Fds -> Fds \cup {NoFile}] /\ used \subseteq Fds /\ refs \in [Fds -> Nat]
  BY DEF FdInv, TypeOK
<1>r. ASSUME NEW fd \in Fds, NEW t \in Fds \cup {NoFile}, NEW o \in Fds,
             fdtab' = [fdtab EXCEPT ![fd] = t]
      PROVE  Cardinality(Holders(o)') = Cardinality(Holders(o)) + Change(fd, t, o)
  BY <1>t, <1>r, Redirect, Zenon
<1>e. \A o \in Fds : /\ refs[o] = Cardinality(Holders(o))
                     /\ o \in used <=> refs[o] # 0
  BY DEF FdInv, RefsExact
<1>o. ASSUME NEW fd, Open(fd)
      PROVE  fd \in Fds /\ fdtab[fd] \in Fds /\ refs[fdtab[fd]] # 0
  BY <1>t, <1>o DEF Open
<1>s. ASSUME UNCHANGED <<fdtab, used, refs>> PROVE RefsExact'
  BY <1>s, <1>e, SameHolders DEF RefsExact
<1>f. ASSUME NEW e, Fail(e) PROVE RefsExact'
  BY <1>f, <1>s DEF Fail, table
<1>c. ASSUME NEW fd, Open(fd), CloseFd(fd) PROVE RefsExact'
  <2> SUFFICES ASSUME NEW o \in Fds
               PROVE  refs'[o] = Cardinality(Holders(o)') /\ (o \in used' <=> refs'[o] # 0)
    BY DEF RefsExact
  <2>1. Cardinality(Holders(o)') = Cardinality(Holders(o)) + (IF fdtab[fd] = o THEN -1 ELSE 0)
    <3>1. fd \in Fds /\ NoFile \in Fds \cup {NoFile} /\ fdtab' = [fdtab EXCEPT ![fd] = NoFile]
      BY <1>c, <1>o DEF CloseFd
    <3>2. Cardinality(Holders(o)') = Cardinality(Holders(o)) + Change(fd, NoFile, o)
      BY <3>1, <1>r, Zenon
    <3> QED
      BY <3>2, FdFacts DEF Change
  <2>2. refs'[o] = refs[o] + (IF fdtab[fd] = o THEN -1 ELSE 0)
    BY <1>c, <1>o, <1>t DEF CloseFd, RefsClosed
  <2>3. o \in used' <=> refs'[o] # 0
    BY <1>c, <1>o, <1>t, <1>e, <2>2 DEF CloseFd, UsedClosed, LastRef
  <2> QED
    BY <2>1, <2>2, <2>3, <1>e
<1>1. ASSUME NEW fd \in FdArgs, Close(fd) PROVE RefsExact'
  BY <1>1, <1>f, <1>c DEF Close
<1>2. ASSUME NEW fd \in FdArgs, Dup(fd) PROVE RefsExact'
  <2>1. ASSUME Open(fd), NEW new \in Fds, IsLowest(new, FreeFds),
               fdtab' = [fdtab EXCEPT ![new] = fdtab[fd]],
               refs' = [refs EXCEPT ![fdtab[fd]] = @ + 1], UNCHANGED used
        PROVE  RefsExact'
    <3> SUFFICES ASSUME NEW o \in Fds
                 PROVE  refs'[o] = Cardinality(Holders(o)') /\ (o \in used' <=> refs'[o] # 0)
      BY DEF RefsExact
    <3>1. fdtab[new] = NoFile
      BY <2>1 DEF IsLowest, FreeFds
    <3>2. Cardinality(Holders(o)') = Cardinality(Holders(o)) + (IF fdtab[fd] = o THEN 1 ELSE 0)
      <4>1. Cardinality(Holders(o)') = Cardinality(Holders(o)) + Change(new, fdtab[fd], o)
        <5>1. fdtab[fd] \in Fds \cup {NoFile}
          BY <2>1, <1>o
        <5> QED
          BY <2>1, <5>1, <1>r, Zenon
      <4> QED
        BY <3>1, <4>1, FdFacts DEF Change
    <3>3. refs'[o] = refs[o] + (IF fdtab[fd] = o THEN 1 ELSE 0)
      BY <2>1, <1>o, <1>t
    <3>4. o \in used' <=> refs'[o] # 0
      BY <2>1, <1>o, <1>t, <1>e, <3>3
    <3> QED
      BY <3>2, <3>3, <3>4, <1>e
  <2> QED
    BY <1>2, <1>f, <2>1 DEF Dup
<1>3. ASSUME NEW fd \in FdArgs, NEW new \in FdArgs, Dup2(fd, new) PROVE RefsExact'
  <2>1. CASE Fail(EBADF) \/ Fail(EINVAL) \/ Fail(new)
    BY <2>1, <1>f
  <2>2. CASE ~(Fail(EBADF) \/ Fail(EINVAL) \/ Fail(new))
    <3>1. /\ new \in Fds /\ Open(fd) /\ fd # new
          /\ fdtab' = [fdtab EXCEPT ![new] = fdtab[fd]]
          /\ IF Open(new)
               THEN /\ refs' = [RefsClosed(new) EXCEPT ![fdtab[fd]] = @ + 1]
                    /\ used' = UsedClosed(new)
               ELSE /\ refs' = [refs EXCEPT ![fdtab[fd]] = @ + 1]
                    /\ UNCHANGED used
      BY <1>3, <2>2 DEF Dup2
    <3> SUFFICES ASSUME NEW o \in Fds
                 PROVE  refs'[o] = Cardinality(Holders(o)') /\ (o \in used' <=> refs'[o] # 0)
      BY DEF RefsExact
    <3>2. Cardinality(Holders(o)') = Cardinality(Holders(o)) + Change(new, fdtab[fd], o)
      <4>1. new \in Fds /\ fdtab[fd] \in Fds \cup {NoFile} /\ fdtab' = [fdtab EXCEPT ![new] = fdtab[fd]]
        BY <3>1, <1>o
      <4> QED
        BY <4>1, <1>r, Zenon
    <3>3. CASE Open(new)
      <4>1. fdtab[new] \in Fds /\ fdtab[fd] \in Fds
        BY <3>1, <3>3, <1>o
      <4>2. refs'[o] = refs[o] + (IF fdtab[fd] = o THEN IF fdtab[new] = o THEN 0 ELSE 1
                                                   ELSE IF fdtab[new] = o THEN -1 ELSE 0)
        BY <3>1, <3>3, <4>1, <1>t DEF RefsClosed
      \* If new is the last holder of its file then fd is not one of its holders.
      <4>3. fdtab[fd] = fdtab[new] => ~LastRef(new)
        <5> SUFFICES ASSUME fdtab[fd] = fdtab[new], LastRef(new) PROVE FALSE
          OBVIOUS
        <5>1. Cardinality(Holders(fdtab[new])) = 1
          BY <4>1, <1>e DEF LastRef
        <5>2. PICK x : Holders(fdtab[new]) = {x}
          BY <5>1, <4>1, HoldersFinite, FS_Singleton, Zenon
        <5>3. fd \in Holders(fdtab[new]) /\ new \in Holders(fdtab[new])
          BY <3>1, <1>o DEF Holders
        <5> QED
          BY <5>2, <5>3, <3>1
      <4>4. o \in used' <=> refs'[o] # 0
        BY <3>1, <3>3, <4>1, <4>2, <4>3, <1>t, <1>e, <1>o DEF UsedClosed, LastRef
      <4> QED
        BY <3>2, <4>2, <4>4, <1>e DEF Change
    <3>4. CASE ~Open(new)
      <4>1. fdtab[new] = NoFile
        BY <3>1, <3>4, OpenInTable DEF FdInv
      <4>2. refs'[o] = refs[o] + (IF fdtab[fd] = o THEN 1 ELSE 0) /\ used' = used
        BY <3>1, <3>4, <1>o, <1>t
      <4>3. o \in used' <=> refs'[o] # 0
        BY <3>1, <4>2, <1>o, <1>t, <1>e
      <4> QED
        BY <3>2, <4>1, <4>2, <4>3, <1>e, FdFacts DEF Change
    <3> QED
      BY <3>3, <3>4
  <2> QED
    BY <2>1, <2>2
<1>4. ASSUME NEW fd \in FdArgs, NEW on \in BOOLEAN, SetFd(fd, on) PROVE RefsExact'
  BY <1>4, <1>f, <1>s DEF SetFd
<1>5. ASSUME NEW fd \in FdArgs, NEW nb \in {0, 1}, SetFl(fd, nb) PROVE RefsExact'
  BY <1>5, <1>f, <1>s DEF SetFl
<1>6. ASSUME NEW t \in Types, NEW m \in Modes, NEW nb \in {0, 1}, OpenSpecial(t, m, nb)
      PROVE  RefsExact'
  <2>1. CASE Fail(EMFILE)
    BY <2>1, <1>f
  <2>2. CASE ~Fail(EMFILE)
    <3>1. PICK new \in Fds, o \in Fds :
             /\ IsLowest(new, FreeFds) /\ IsLowest(o, FreeFiles)
             /\ used' = used \cup {o}
             /\ refs' = [refs EXCEPT ![o] = 1]
             /\ fdtab' = [fdtab EXCEPT ![new] = o]
      BY <1>6, <2>2 DEF OpenSpecial
    <3>2. fdtab[new] = NoFile /\ refs[o] = 0
      BY <3>1, <1>e DEF IsLowest, FreeFds, FreeFiles
    <3> SUFFICES ASSUME NEW q \in Fds
                 PROVE  refs'[q] = Cardinality(Holders(q)') /\ (q \in used' <=> refs'[q] # 0)
      BY DEF RefsExact
    <3>3. Cardinality(Holders(q)') = Cardinality(Holders(q)) + (IF o = q THEN 1 ELSE 0)
      <4>1. Cardinality(Holders(q)') = Cardinality(Holders(q)) + Change(new, o, q)
        <5>1. o \in Fds \cup {NoFile} /\ fdtab' = [fdtab EXCEPT ![new] = o]
          BY <3>1
        <5> QED
          BY <5>1, <1>r, Zenon
      <4> QED
        BY <3>2, <4>1, FdFacts DEF Change
    <3>4. refs'[q] = refs[q] + (IF o = q THEN 1 ELSE 0)
      BY <3>1, <3>2, <1>t
    <3>5. q \in used' <=> refs'[q] # 0
      BY <3>1, <3>2, <3>4, <1>t, <1>e
    <3> QED
      BY <3>3, <3>4, <3>5, <1>e
  <2> QED
    BY <2>1, <2>2
<1>7. CASE Exit
  BY <1>7, <1>s DEF Exit, table
<1>8. CASE ExitClose
  BY <1>8, <1>s, <1>c DEF ExitClose, table
<1>9. CASE Renew
  <2>1. fdtab' = StdioTab /\ used' = 0 .. 2 /\ refs' = StdioRefs
    BY <1>9 DEF Renew
  <2> QED
    BY <2>1, StdioExact, Zenon DEF RefsExact, Holders
<1>10. CASE UNCHANGED vars
  BY <1>10, <1>s DEF vars
<1> QED
  BY <1>1, <1>2, <1>3, <1>4, <1>5, <1>6, <1>7, <1>8, <1>9, <1>10 DEF Next

\* Exit closes the descriptors in order, and FD_CLOEXEC is cleared with the
\* descriptor: close, dup and dup2 never leave it on an entry of fdtab.
LEMMA ClosedStep == FdInv /\ [Next]_vars => ClosedSoFar'
<1> SUFFICES ASSUME FdInv, [Next]_vars PROVE ClosedSoFar'
  OBVIOUS
<1>t. /\ fdtab \in [Fds -> Fds \cup {NoFile}] /\ cloexec \subseteq Fds /\ closing \in Int
  BY FdFacts DEF FdInv, TypeOK
<1>c. /\ \A fd \in Fds : fd < closing => fdtab[fd] = NoFile
      /\ \A fd \in cloexec : fdtab[fd] # NoFile
  BY DEF FdInv, ClosedSoFar
<1>o. ASSUME NEW fd, Open(fd)
      PROVE  fd \in Fds /\ fdtab[fd] \in Fds
  BY <1>t, <1>o DEF Open
<1>s. ASSUME UNCHANGED <<fdtab, cloexec, closing>> PROVE ClosedSoFar'
  BY <1>s, <1>c DEF ClosedSoFar
<1>f. ASSUME NEW e, Fail(e) PROVE ClosedSoFar'
  BY <1>f, <1>s DEF Fail, Return, table
<1>a. ASSUME Alive, UNCHANGED closing, \A fd \in cloexec' : fdtab'[fd] # NoFile
      PROVE  ClosedSoFar'
  BY <1>a, FdFacts DEF Alive, ClosedSoFar
<1>n. ASSUME NEW new \in Fds, NEW v, fdtab' = [fdtab EXCEPT ![new] = v], cloexec' = cloexec \ {new}
      PROVE  \A fd \in cloexec' : fdtab'[fd] # NoFile
  BY <1>n, <1>c, <1>t
<1>1. ASSUME NEW fd \in FdArgs, Close(fd) PROVE ClosedSoFar'
  BY <1>1, <1>f, <1>a, <1>n, <1>o DEF Close, CloseFd, Return
<1>2. ASSUME NEW fd \in FdArgs, Dup(fd) PROVE ClosedSoFar'
  BY <1>2, <1>f, <1>a, <1>n DEF Dup, Return
<1>3. ASSUME NEW fd \in FdArgs, NEW new \in FdArgs, Dup2(fd, new) PROVE ClosedSoFar'
  BY <1>3, <1>f, <1>a, <1>n DEF Dup2, Return
<1>4. ASSUME NEW fd \in FdArgs, NEW on \in BOOLEAN, SetFd(fd, on) PROVE ClosedSoFar'
  <2>1. CASE Open(fd) /\ ~Fail(EBADF)
    <3>1. fdtab[fd] # NoFile
      BY <2>1 DEF Open
    <3>2. cloexec' \subseteq cloexec \cup {fd} /\ UNCHANGED <<fdtab, closing>> /\ Alive
      BY <1>4, <2>1 DEF SetFd, Return
    <3> QED
      BY <3>1, <3>2, <1>a, <1>c
  <2> QED
    BY <1>4, <2>1, <1>f DEF SetFd
<1>5. ASSUME NEW fd \in FdArgs, NEW nb \in {0, 1}, SetFl(fd, nb) PROVE ClosedSoFar'
  BY <1>5, <1>f, <1>s DEF SetFl, Return
<1>6. ASSUME NEW t \in Types, NEW m \in Modes, NEW nb \in {0, 1}, OpenSpecial(t, m, nb)
      PROVE  ClosedSoFar'
  <2>1. CASE ~Fail(EMFILE)
    <3>1. PICK new \in Fds, o \in Fds :
             /\ fdtab' = [fdtab EXCEPT ![new] = o]
             /\ cloexec' = cloexec \ {new}
             /\ Return(new)
      BY <1>6, <2>1 DEF OpenSpecial
    <3> QED
      BY <3>1, <1>6, <1>a, <1>n, Zenon DEF OpenSpecial, Return
  <2> QED
    BY <2>1, <1>f
<1>7. CASE Exit
  BY <1>7, <1>c, FdFacts DEF Exit, table, ClosedSoFar
<1>8. CASE ExitClose
  <2>1. closing \in Fds /\ closing' = closing + 1
    BY <1>8 DEF ExitClose
  <2>2. CASE Open(closing)
    <3> DEFINE c == closing
    <3>1. /\ fdtab' = [fdtab EXCEPT ![c] = NoFile] /\ cloexec' = cloexec \ {c}
          /\ c \in Fds /\ c \in Int /\ closing' = c + 1
          /\ \A fd \in Fds : fd < c => fdtab[fd] = NoFile
      BY <1>8, <1>c, <1>t, <2>1, <2>2 DEF ExitClose, CloseFd
    <3> HIDE DEF c
    <3>2. \A fd \in cloexec' : fdtab'[fd] # NoFile
      BY <3>1, <1>n, Zenon
    <3>3. \A fd \in Fds : fd < closing' => fdtab'[fd] = NoFile
      BY <3>1, <1>t, FdFacts
    <3> QED
      BY <3>2, <3>3 DEF ClosedSoFar
  <2>3. CASE ~Open(closing)
    <3>1. fdtab[closing] = NoFile
      BY <2>1, <2>3, OpenInTable DEF FdInv
    <3>2. UNCHANGED <<fdtab, cloexec>>
      BY <1>8, <2>3 DEF ExitClose, table
    <3> QED
      BY <2>1, <3>1, <3>2, <1>c, <1>t, FdFacts DEF ClosedSoFar
  <2> QED
    BY <2>2, <2>3
<1>9. CASE Renew
  BY <1>9, FdFacts DEF Renew, ClosedSoFar
<1>10. CASE UNCHANGED vars
  BY <1>10, <1>s DEF vars
<1> QED
  BY <1>1, <1>2, <1>3, <1>4, <1>5, <1>6, <1>7, <1>8, <1>9, <1>10 DEF Next

\* FdInv is an invariant of the table.
LEMMA FdInvariant == Spec => []FdInv
<1>1. Init => FdInv
  BY FdInit
<1>2. FdInv /\ [Next]_vars => FdInv'
  BY FdTypeStep, CountStep, ClosedStep DEF FdInv
<1> QED
  BY <1>1, <1>2, PTL DEF Spec

\* Reference counts of sched.c are exact in every reachable table, whatever
\* its size, and exit leaves no open descriptor, used file or flag behind.
THEOREM RefCountsCorrect == Spec => [](TypeOK /\ RefsExact /\ ExitLeavesNothing)
<1>1. FdInv => TypeOK /\ RefsExact /\ ExitLeavesNothing
  <2> SUFFICES ASSUME FdInv, closing = MaxFds
               PROVE  used = {} /\ cloexec = {} /\ \A fd \in Fds : fdtab[fd] = NoFile
    BY DEF FdInv, ExitLeavesNothing
  <2>1. \A fd \in Fds : fdtab[fd] = NoFile
    BY FdFacts DEF FdInv, ClosedSoFar
  <2>2. cloexec = {}
    BY <2>1 DEF FdInv, ClosedSoFar, TypeOK
  <2>3. \A o \in Fds : refs[o] = 0
    BY <2>1, FdFacts, HoldersFinite DEF FdInv, RefsExact
  <2>4. used = {}
    BY <2>3 DEF FdInv, RefsExact, TypeOK
  <2> QED
    BY <2>1, <2>2, <2>4
<1> QED
  BY <1>1, FdInvariant, PTL

----------------------------------------------------------------------------
(* Refinement.  The descriptions of PosixFds are the used entries of ofiles. *)

absOfd == [fd \in OpenNow |-> fdtab[fd]]
absAttr == [o \in used |-> attr[o]]

\* Used files are the files that descriptors refer to.
Held ==
  /\ fdtab \in [Fds -> Fds \cup {NoFile}]
  /\ attr \in [Fds -> AttrType]
  /\ \A o : o \in used <=> o \in Fds /\ \E fd \in Fds : fdtab[fd] = o
  /\ \A fd : Open(fd) <=> fd \in OpenNow

\* With exact counts, files are used exactly while they are referred to.
LEMMA HeldFiles == FdInv => Held
<1> SUFFICES ASSUME FdInv PROVE Held
  OBVIOUS
<1>1. \A fd : Open(fd) <=> fd \in OpenNow
  BY OpenInTable DEF FdInv, OpenNow
<1>2. \A o : o \in used => o \in Fds
  BY DEF FdInv, TypeOK
<1>3. \A o \in Fds : o \in used <=> \E fd \in Fds : fdtab[fd] = o
  BY HoldersFinite DEF FdInv, RefsExact
<1> QED
  BY <1>1, <1>2, <1>3 DEF Held, FdInv, TypeOK

\* A new task's table is an initial state of PosixFds.
LEMMA RefineInit == Init => Posix!Init
<1> SUFFICES ASSUME Init PROVE Posix!Init
  OBVIOUS
<1>1. OpenNow = 0 .. 2
  BY FdFacts DEF Init, OpenNow, StdioTab, Fds, NoFile
<1>2. absOfd = [fd \in 0 .. 2 |-> fd]
  BY <1>1, FdFacts DEF absOfd, Init, StdioTab
<1>3. absAttr = Posix!Stdio
  BY FdFacts DEF Init, absAttr, StdioAttr, Posix!Stdio, Attr, Posix!Attr
<1> QED
  BY <1>2, <1>3 DEF Init, Posix!Init, absOfd, absAttr

\* Every step of the table is a step of PosixFds or leaves it unchanged.
LEMMA RefineStep == FdInv /\ FdInv' /\ [Next]_vars => [Posix!Next]_(Posix!vars)
<1> SUFFICES ASSUME FdInv, FdInv', [Next]_vars
             PROVE  Posix!Next \/ UNCHANGED <<absOfd, absAttr, cloexec, ret>>
  BY DEF Posix!vars, absOfd, absAttr
<1>h. Held /\ Held'
  BY HeldFiles, PTL
<1>d. DOMAIN absOfd = OpenNow /\ DOMAIN absAttr = used
  BY DEF absOfd, absAttr
<1>o. \A fd : Open(fd) <=> Posix!Open(fd)
  BY <1>h, <1>d DEF Held, Posix!Open, absOfd
<1>f. ASSUME NEW e, Fail(e) PROVE Posix!Fail(e)
  BY <1>f DEF Fail, Return, table, Posix!Fail, OpenNow
<1>r. Posix!Free = FreeFds /\ Posix!Fds = Fds /\ Posix!FdArgs = FdArgs
  BY DEF Posix!Free, Posix!Fds, Fds, FreeFds, OpenNow, Posix!FdArgs, FdArgs
<1>k. ASSUME NEW fd, NEW o
      PROVE  o \in Posix!Kept({fd}) <=> o \in Fds /\ \E g \in Fds \ {fd} : fdtab[g] = o
  <2>1. Posix!Kept({fd}) = {fdtab[g] : g \in OpenNow \ {fd}}
    BY DEF Posix!Kept
  <2>2. \A g : g \in OpenNow <=> g \in Fds /\ fdtab[g] \in Fds
    BY <1>h, FdFacts, Zenon DEF OpenNow, Held
  <2>3. o \in {fdtab[g] : g \in OpenNow \ {fd}} <=> \E g \in OpenNow \ {fd} : fdtab[g] = o
    OBVIOUS
  <2> QED
    BY <2>1, <2>2, <2>3
<1>c. ASSUME NEW fd \in Fds, Open(fd), CloseFd(fd), ret' = 0
      PROVE  Posix!Close(fd)
  <2>1. OpenNow' = OpenNow \ {fd}
    BY <1>c, <1>h DEF CloseFd, OpenNow, Held
  <2>2. absOfd' = Posix!Without(absOfd, {fd})
    BY <1>c, <1>h, <2>1 DEF CloseFd, absOfd, Posix!Without, OpenNow, Held
  <2>3. used' = Posix!Kept({fd})
    <3>1. \A o \in Fds : (\E g \in Fds : fdtab'[g] = o) <=> (\E g \in Fds \ {fd} : fdtab[g] = o)
      BY <1>c, <1>h, FdFacts DEF CloseFd, Held
    <3>2. \A o : o \in used' <=> o \in Posix!Kept({fd})
      BY <3>1, <1>k, <1>h, Zenon DEF Held
    <3> QED
      BY <3>2
  <2>4. \A o \in used' : attr'[o] = absAttr[o]
    BY <1>c, <1>h DEF CloseFd, UsedClosed, AttrClosed, absAttr, Held
  <2>5. absAttr' = [o \in Posix!Kept({fd}) |-> absAttr[o]]
    BY <2>3, <2>4 DEF absAttr
  <2> QED
    BY <1>c, <1>o, <2>2, <2>5 DEF Posix!Close, absOfd, absAttr, CloseFd
<1>1. ASSUME NEW fd \in FdArgs, Close(fd) PROVE Posix!Close(fd)
  <2>1. CASE ~Open(fd) /\ Fail(EBADF)
    BY <2>1, <1>f, <1>o DEF Posix!Close, EBADF, Posix!EBADF
  <2>2. CASE Open(fd) /\ CloseFd(fd) /\ Return(0)
    BY <2>2, <1>c DEF Return, Open
  <2> QED
    BY <1>1, <2>1, <2>2 DEF Close
<1>2. ASSUME NEW fd \in FdArgs, Dup(fd) PROVE Posix!Dup(fd)
  <2>1. CASE ~Open(fd) /\ Fail(EBADF)
    BY <2>1, <1>f, <1>o DEF Posix!Dup, EBADF, Posix!EBADF
  <2>2. CASE Open(fd) /\ FreeFds = {} /\ Fail(EMFILE)
    BY <2>2, <1>f, <1>o, <1>r DEF Posix!Dup, EMFILE, Posix!EMFILE
  <2>3. ASSUME Open(fd), NEW new \in Fds, IsLowest(new, FreeFds),
               fdtab' = [fdtab EXCEPT ![new] = fdtab[fd]], cloexec' = cloexec \ {new},
               Return(new), UNCHANGED <<used, attr>>
        PROVE  Posix!Dup(fd)
    <3>1. new \in FreeFds /\ Posix!IsLowest(new, FreeFds)
      BY <2>3 DEF IsLowest, Posix!IsLowest
    <3>2. fd \in OpenNow /\ fdtab[fd] \in Fds /\ fd \in Fds
      BY <2>3, <1>h DEF Held, OpenNow
    <3>3. OpenNow' = OpenNow \cup {new}
      <4>1. \A g \in Fds : fdtab'[g] = IF g = new THEN fdtab[fd] ELSE fdtab[g]
        BY <2>3, <1>h DEF Held
      <4>2. fdtab[fd] # NoFile
        BY <3>2, FdFacts
      <4> QED
        BY <2>3, <4>1, <4>2 DEF OpenNow
    <3>4. absOfd' = Posix!With(absOfd, new, absOfd[fd])
      BY <2>3, <3>2, <3>3, <1>h DEF absOfd, Posix!With, OpenNow, Held
    <3>5. absAttr' = absAttr
      BY <2>3 DEF absAttr
    <3>6. cloexec' = cloexec
      BY <2>3, <3>1 DEF FreeFds, FdInv, ClosedSoFar
    <3> QED
      BY <2>3, <3>1, <3>4, <3>5, <3>6, <1>o, <1>r DEF Posix!Dup, absOfd, absAttr, Return
  <2> QED
    BY <1>2, <2>1, <2>2, <2>3 DEF Dup
<1>3. ASSUME NEW fd \in FdArgs, NEW new \in FdArgs, Dup2(fd, new) PROVE Posix!Dup2(fd, new)
  <2>1. CASE new \notin Fds /\ Fail(EINVAL)
    BY <2>1, <1>f, <1>r DEF Posix!Dup2, EINVAL, Posix!EINVAL
  <2>2. CASE new \in Fds /\ ~Open(fd) /\ Fail(EBADF)
    BY <2>2, <1>f, <1>o, <1>r DEF Posix!Dup2, EBADF, Posix!EBADF
  <2>3. CASE new \in Fds /\ Open(fd) /\ fd = new /\ Fail(new)
    BY <2>3, <1>f, <1>o, <1>r DEF Posix!Dup2
  <2>4. ASSUME new \in Fds, Open(fd), fd # new,
               fdtab' = [fdtab EXCEPT ![new] = fdtab[fd]], cloexec' = cloexec \ {new},
               \/ Open(new) /\ used' = UsedClosed(new) /\ attr' = AttrClosed(new)
               \/ ~Open(new) /\ UNCHANGED <<used, attr>>,
               Return(new)
        PROVE  Posix!Dup2(fd, new)
    <3>1. fd \in OpenNow /\ fdtab[fd] \in Fds /\ fd \in Fds
      BY <2>4, <1>h DEF Held, OpenNow
    <3>2. OpenNow' = OpenNow \cup {new}
      <4>1. \A g \in Fds : fdtab'[g] = IF g = new THEN fdtab[fd] ELSE fdtab[g]
        BY <2>4, <1>h DEF Held
      <4>2. fdtab[fd] # NoFile
        BY <3>1, FdFacts
      <4> QED
        BY <2>4, <4>1, <4>2 DEF OpenNow
    <3>3. absOfd' = Posix!With(absOfd, new, absOfd[fd])
      BY <2>4, <3>1, <3>2, <1>h DEF absOfd, Posix!With, OpenNow, Held
    <3>4. used' = Posix!Kept({new})
      <4>1. \A o \in Fds : (\E g \in Fds : fdtab'[g] = o) <=> (\E g \in Fds \ {new} : fdtab[g] = o)
        BY <2>4, <3>1, <1>h DEF Held
      <4>2. \A o : o \in used' <=> o \in Posix!Kept({new})
        BY <4>1, <1>k, <1>h, Zenon DEF Held
      <4> QED
        BY <4>2
    <3>5. \A o \in used' : attr'[o] = absAttr[o]
      <4>1. CASE Open(new)
        <5>1. used' = UsedClosed(new) /\ attr' = AttrClosed(new)
          BY <2>4, <4>1
        <5>2. ASSUME NEW o \in UsedClosed(new) PROVE o \in used /\ AttrClosed(new)[o] = attr[o]
          BY <1>h DEF UsedClosed, AttrClosed, Held
        <5> QED
          BY <5>1, <5>2 DEF absAttr
      <4>2. CASE ~Open(new)
        BY <2>4, <4>2 DEF absAttr
      <4> QED
        BY <4>1, <4>2
    <3>6. absAttr' = [o \in Posix!Kept({new}) |-> absAttr[o]]
      BY <3>4, <3>5 DEF absAttr
    <3> QED
      BY <2>4, <3>3, <3>6, <1>o, <1>r DEF Posix!Dup2, absOfd, absAttr, Return
  <2> QED
    BY <1>3, <2>1, <2>2, <2>3, <2>4 DEF Dup2
<1>4. ASSUME NEW fd \in FdArgs, NEW on \in BOOLEAN, SetFd(fd, on) PROVE Posix!SetFd(fd, on)
  <2>1. CASE ~Open(fd) /\ Fail(EBADF)
    BY <2>1, <1>f, <1>o DEF Posix!SetFd, EBADF, Posix!EBADF
  <2>2. CASE Open(fd)
    <3>1. /\ cloexec' = IF on THEN cloexec \cup {fd} ELSE cloexec \ {fd}
          /\ ret' = 0 /\ UNCHANGED <<fdtab, used, attr>>
      BY <1>4, <2>2 DEF SetFd, Return
    <3>2. absOfd' = absOfd /\ absAttr' = absAttr
      BY <3>1 DEF absOfd, absAttr, OpenNow
    <3> QED
      BY <2>2, <3>1, <3>2, <1>o DEF Posix!SetFd, absOfd, absAttr
  <2> QED
    BY <1>4, <2>1, <2>2 DEF SetFd
<1>5. ASSUME NEW fd \in FdArgs, NEW nb \in {0, 1}, SetFl(fd, nb) PROVE Posix!SetFl(fd, nb)
  <2>1. CASE ~Open(fd) /\ Fail(EBADF)
    BY <2>1, <1>f, <1>o DEF Posix!SetFl, EBADF, Posix!EBADF
  <2>2. CASE Open(fd)
    <3>1. /\ attr' = [attr EXCEPT ![fdtab[fd]].nonblock = nb]
          /\ ret' = 0 /\ UNCHANGED <<fdtab, used, cloexec>>
      BY <1>5, <2>2 DEF SetFl, Return
    <3>2. absOfd' = absOfd
      BY <3>1 DEF absOfd, OpenNow
    <3>3. fd \in OpenNow /\ absOfd[fd] = fdtab[fd] /\ fdtab[fd] \in used
      BY <2>2, <1>h DEF Held, OpenNow, absOfd
    <3>4. absAttr' = [absAttr EXCEPT ![fdtab[fd]].nonblock = nb]
      BY <3>1, <3>3, <1>h DEF absAttr, Held
    <3> QED
      BY <2>2, <3>1, <3>2, <3>3, <3>4, <1>o DEF Posix!SetFl, absOfd, absAttr
  <2> QED
    BY <1>5, <2>1, <2>2 DEF SetFl
<1>6. ASSUME NEW t \in Types, NEW m \in Modes, NEW nb \in {0, 1}, OpenSpecial(t, m, nb)
      PROVE  Posix!OpenSpecial(t, m, nb)
  <2>1. CASE FreeFds = {}
    BY <1>6, <2>1, <1>f, <1>r DEF OpenSpecial, Posix!OpenSpecial, EMFILE, Posix!EMFILE
  <2>2. CASE FreeFds # {}
    <3>1. FreeFiles # {}
      BY <2>2, FreeFileExists DEF FdInv
    <3>2. PICK new \in Fds, o \in Fds :
             /\ IsLowest(new, FreeFds) /\ IsLowest(o, FreeFiles)
             /\ used' = used \cup {o}
             /\ attr' = [attr EXCEPT ![o] = Attr(t, m, nb)]
             /\ fdtab' = [fdtab EXCEPT ![new] = o]
             /\ cloexec' = cloexec \ {new}
             /\ Return(new)
      BY <1>6, <2>2, <3>1 DEF OpenSpecial
    <3>3. new \in FreeFds /\ Posix!IsLowest(new, FreeFds) /\ o \in Fds \ used
      BY <3>2 DEF IsLowest, Posix!IsLowest, FreeFiles
    <3>4. OpenNow' = OpenNow \cup {new}
      <4>1. \A g \in Fds : fdtab'[g] = IF g = new THEN o ELSE fdtab[g]
        BY <3>2, <1>h DEF Held
      <4>2. o # NoFile /\ new \in Fds
        BY <3>3, FdFacts DEF FreeFds
      <4> QED
        BY <4>1, <4>2 DEF OpenNow
    <3>5. absOfd' = Posix!With(absOfd, new, o)
      BY <3>2, <3>4, <1>h DEF absOfd, Posix!With, OpenNow, Held
    <3>6. absAttr' = Posix!With(absAttr, o, Attr(t, m, nb))
      BY <3>2, <1>h DEF absAttr, Posix!With, Held
    <3>7. cloexec' = cloexec
      BY <3>2, <3>3 DEF FreeFds, FdInv, ClosedSoFar
    <3>8. ret' = new
      BY <3>2 DEF Return
    <3> QED
      BY <3>3, <3>5, <3>6, <3>7, <3>8, <1>r, <1>d, Zenon
      DEF Posix!OpenSpecial, absOfd, absAttr, Attr, Posix!Attr
  <2> QED
    BY <2>1, <2>2
<1>7. CASE Exit
  BY <1>7 DEF Exit, table, absOfd, absAttr, OpenNow
<1>8. CASE ExitClose
  <2>1. CASE Open(closing)
    <3>1. PICK c \in Fds : Open(c) /\ CloseFd(c) /\ ret' = 0
      BY <1>8, <2>1 DEF ExitClose
    <3>2. Posix!Close(c)
      BY <3>1, <1>c
    <3>3. c \in FdArgs
      BY FdAssumption DEF Fds, FdArgs
    <3> QED
      BY <3>2, <3>3, <1>r DEF Posix!Next
  <2>2. CASE ~Open(closing)
    BY <1>8, <2>2 DEF ExitClose, table, absOfd, absAttr, OpenNow
  <2> QED
    BY <2>1, <2>2
<1>9. CASE Renew
  <2>1. OpenNow = {}
    BY <1>9, FdFacts, Zenon DEF Renew, FdInv, ClosedSoFar, OpenNow
  <2>2. OpenNow' = 0 .. 2
    BY <1>9, FdFacts DEF Renew, OpenNow, StdioTab, Fds, NoFile
  <2>3. absOfd' = [fd \in 0 .. 2 |-> fd]
    BY <1>9, <2>2, FdFacts DEF absOfd, Renew, StdioTab
  <2>4. absAttr' = Posix!Stdio
    BY <1>9, FdFacts DEF Renew, absAttr, StdioAttr, Posix!Stdio, Attr, Posix!Attr
  <2>5. Posix!Renew
    BY <1>9, <1>d, <2>1, <2>3, <2>4 DEF Posix!Renew, Renew, absOfd, absAttr
  <2> QED
    BY <2>5 DEF Posix!Next
<1>10. CASE UNCHANGED vars
  BY <1>10 DEF vars, absOfd, absAttr, OpenNow
<1> QED
  BY <1>1, <1>2, <1>3, <1>4, <1>5, <1>6, <1>7, <1>8, <1>9, <1>10, <1>r DEF Next, Posix!Next

\* The reference-counted table of sched.c implements descriptors that share
\* descriptions: counts, freeing and the reuse of entries are never seen, and
\* open fails with EMFILE only when every descriptor is taken.
THEOREM FdTableRefinesPosix == Spec => ImplementsPosixFds
<1>1. Spec => Posix!Init /\ [][Posix!Next]_(Posix!vars)
  BY FdInvariant, RefineInit, RefineStep, PTL DEF Spec
<1> QED
  BY <1>1 DEF ImplementsPosixFds, Posix!Spec

----------------------------------------------------------------------------
(* The table during the self-test. *)

\* Entries of ofiles that are not in use are clear, and only stdin's is STDIN.
FilesInv ==
  /\ \A o \in Fds \ used : attr[o] = NoAttr
  /\ \A o \in Fds : attr[o].type = "STDIN" => attr[o].acc = "RDONLY"

\* What the descriptor calls of a system call do to the table
FdCall ==
  \/ \E fd \in FdArgs : Close(fd) \/ Dup(fd)
  \/ \E fd, new \in Fds : Dup2(fd, new)
  \/ \E fd \in FdArgs, on \in BOOLEAN : SetFd(fd, on)
  \/ \E fd \in FdArgs, nb \in {0, 1} : SetFl(fd, nb)
  \/ \E t \in {"DEV_NULL", "DEV_ZERO", "DEV_TTY", "SOCKET"}, m \in {"RDONLY", "RDWR"} :
       OpenSpecial(t, m, 0)

\* The table when the test began, part by part
fdtab0 == before[1]
cloexec0 == before[2]
used0 == before[3]
refs0 == before[4]
attr0 == before[5]
stdin0 == fdtab0[0]

\* It was that of a living task.
Sound0 ==
  /\ before = <<fdtab0, cloexec0, used0, refs0, attr0>>
  /\ fdtab0 \in [Fds -> Fds \cup {NoFile}] /\ cloexec0 \subseteq Fds /\ used0 \subseteq Fds
  /\ refs0 \in [Fds -> Nat] /\ attr0 \in [Fds -> AttrType]
  /\ \A fd \in Fds : fdtab0[fd] # NoFile => fdtab0[fd] \in used0
  /\ \A fd \in cloexec0 : fdtab0[fd] # NoFile
  /\ \A o \in Fds : o \in used0 <=> refs0[o] # 0
  /\ \A o \in Fds \ used0 : attr0[o] = NoAttr
  /\ \A o \in Fds : attr0[o].type = "STDIN" => attr0[o].acc = "RDONLY"

\* The table while the test has a duplicate of stdin, on which it has set
\* FD_CLOEXEC or not, and O_NONBLOCK or not
Spare == dupfd \in Fds /\ fdtab0[dupfd] = NoFile /\ stdin0 # NoFile
NonBlocking(nb) == IF nb = 1 THEN [attr0 EXCEPT ![stdin0].nonblock = 1] ELSE attr0
Duplicated(on, nb) ==
  /\ Spare
  /\ old_fl = attr0[stdin0].nonblock
  /\ fdtab = [fdtab0 EXCEPT ![dupfd] = stdin0]
  /\ cloexec = IF on = 1 THEN cloexec0 \cup {dupfd} ELSE cloexec0
  /\ used = used0
  /\ refs = [refs0 EXCEPT ![stdin0] = @ + 1]
  /\ attr = NonBlocking(nb)

\* After it is closed, O_NONBLOCK is left on stdin.
FlagLeft ==
  /\ Spare
  /\ old_fl = attr0[stdin0].nonblock
  /\ <<fdtab, cloexec, used, refs>> = <<fdtab0, cloexec0, used0, refs0>>
  /\ attr = NonBlocking(1)

\* The table while the test has a device or a socket open
Opened(type, acc) ==
  \E o \in Fds \ used0 :
    /\ newfd \in Fds /\ fdtab0[newfd] = NoFile
    /\ fdtab = [fdtab0 EXCEPT ![newfd] = o]
    /\ cloexec = cloexec0
    /\ used = used0 \cup {o}
    /\ refs = [refs0 EXCEPT ![o] = 1]
    /\ attr = [attr0 EXCEPT ![o] = Attr(type, acc, 0)]

Stage ==
  /\ pc \in {1, 2, 15, 19, 22, 24, 25, 26, 31, 32} => table = before
  /\ pc = 2 => stdin0 # NoFile /\ old_fl = attr0[stdin0].nonblock
  /\ pc \in {3, 4} => Duplicated(0, 0)
  /\ pc \in {5, 6} => Duplicated(1, 0)
  /\ pc \in 7 .. 12 => Duplicated(1, 1)
  /\ pc \in {13, 14} => FlagLeft
  /\ pc \in 16 .. 18 => Opened("DEV_NULL", "RDWR")
  /\ pc \in {20, 21} => Opened("DEV_ZERO", "RDONLY")
  /\ pc = 23 => Opened("DEV_TTY", "RDWR")
  /\ pc \in 27 .. 30 => Opened("SOCKET", "RDWR")

Passing == Fresh(fdtab0, attr0) => fails = 0

\* A descriptor call keeps what was proved of the table.
LEMMA FdCallStep ==
  ASSUME FdInv, FilesInv, closing = -1, FdCall \/ UNCHANGED vars
  PROVE  FdInv' /\ FilesInv' /\ closing' = -1
<1>0. /\ {"DEV_NULL", "DEV_ZERO", "DEV_TTY", "SOCKET"} \subseteq Types
      /\ {"RDONLY", "RDWR"} \subseteq Modes
  BY SyscallsAssumption
<1>1. [Next]_vars
  <2>1. CASE FdCall
    <3>1. Fds \subseteq FdArgs
      BY FdAssumption DEF Fds, FdArgs
    <3> QED
      BY <1>0, <2>1, <3>1 DEF FdCall, Next
  <2> QED
    BY <2>1
<1>2. FdInv'
  BY <1>1, FdTypeStep, CountStep, ClosedStep DEF FdInv
<1>3. closing' = -1
  BY Zenon DEF FdCall, Close, Dup, Dup2, SetFd, SetFl, OpenSpecial, Return, Fail, vars
<1>t. /\ fdtab \in [Fds -> Fds \cup {NoFile}] /\ used \subseteq Fds
      /\ refs \in [Fds -> Nat] /\ attr \in [Fds -> AttrType]
  BY DEF FdInv, TypeOK
<1>4. FilesInv'
  <2>1. CASE UNCHANGED <<used, attr>>
    BY <2>1 DEF FilesInv
  <2>2. ASSUME NEW fd \in Fds, Open(fd), used' = UsedClosed(fd), attr' = AttrClosed(fd)
        PROVE  FilesInv'
    BY <1>t, <2>2 DEF FilesInv, UsedClosed, AttrClosed, Open, NoAttr, Attr
  <2>3. ASSUME NEW fd, Open(fd), NEW nb, UNCHANGED used, attr' = [attr EXCEPT ![fdtab[fd]].nonblock = nb]
        PROVE  FilesInv'
    <3>1. fdtab[fd] \in used /\ fdtab[fd] \in Fds
      BY <1>t, <2>3 DEF Open
    <3>2. \A o \in Fds : attr'[o].type = attr[o].type /\ attr'[o].acc = attr[o].acc
      BY <1>t, <2>3, <3>1 DEF AttrType
    <3>3. \A o \in Fds \ used : attr'[o] = attr[o]
      BY <1>t, <2>3, <3>1
    <3> QED
      BY <2>3, <3>2, <3>3 DEF FilesInv
  <2>4. ASSUME NEW o \in Fds, NEW t, NEW m, t # "STDIN", used' = used \cup {o},
               attr' = [attr EXCEPT ![o] = Attr(t, m, 0)]
        PROVE  FilesInv'
    <3>1. \A x \in Fds : attr'[x] = IF x = o THEN Attr(t, m, 0) ELSE attr[x]
      BY <1>t, <2>4
    <3>2. Attr(t, m, 0).type = t
      BY DEF Attr
    <3> QED
      BY <2>4, <3>1, <3>2 DEF FilesInv
  <2>5. ASSUME NEW fd, Close(fd) PROVE FilesInv'
    BY <2>1, <2>2, <2>5 DEF Close, Fail, CloseFd, table, Open
  <2>6. ASSUME NEW fd, Dup(fd) PROVE FilesInv'
    BY <2>1, <2>6 DEF Dup, Fail, table
  <2>7. ASSUME NEW fd, NEW new, Dup2(fd, new) PROVE FilesInv'
    BY <2>1, <2>2, <2>7 DEF Dup2, Fail, table, Open
  <2>8. ASSUME NEW fd, NEW on, SetFd(fd, on) PROVE FilesInv'
    BY <2>1, <2>8 DEF SetFd, Fail, table
  <2>9. ASSUME NEW fd, NEW nb, SetFl(fd, nb) PROVE FilesInv'
    BY <2>1, <2>3, <2>9 DEF SetFl, Fail, table
  <2>10. ASSUME NEW t, NEW m, t # "STDIN", OpenSpecial(t, m, 0) PROVE FilesInv'
    BY <2>1, <2>4, <2>10 DEF OpenSpecial, Fail, table
  <2>11. CASE FdCall
    BY <2>5, <2>6, <2>7, <2>8, <2>9, <2>10, <2>11 DEF FdCall
  <2> QED
    BY <2>1, <2>11 DEF vars
<1> QED
  BY <1>2, <1>3, <1>4

\* errno_from_sched_fd_rc on what the calls return
LEMMA RcFacts ==
  /\ \A fd \in Fds : FromRc(fd) = Ok(fd)
  /\ FromRc(0) = Ok(0)
  /\ FromRc(EBADF) = Err("EBADF") /\ FromRc(EMFILE) = Err("EMFILE")
  /\ EBADF \notin Fds /\ EMFILE \notin Fds
<1>1. ASSUME NEW fd \in Nat PROVE FromRc(fd) = Ok(fd)
  BY DEF FromRc, EBADF, EMFILE, EINVAL
<1>2. Fds \subseteq Nat /\ 0 \in Nat
  BY FdAssumption DEF Fds
<1>3. FromRc(EBADF) = Err("EBADF") /\ FromRc(EMFILE) = Err("EMFILE")
  BY DEF FromRc, EBADF, EMFILE, EINVAL
<1>4. EBADF \notin Fds /\ EMFILE \notin Fds
  BY FdAssumption DEF Fds, EBADF, EMFILE
<1> QED
  BY <1>1, <1>2, <1>3, <1>4

\* Open and socket, on the table that the test began with
LEMMA OpenedNow ==
  ASSUME FdInv, Sound0, table = before, NEW t, NEW m, OpenSpecial(t, m, 0),
         ret' \in Fds => newfd' = ret', UNCHANGED before
  PROVE  \/ ret' = EMFILE /\ table' = before /\ \A fd \in Fds : fdtab0[fd] # NoFile
         \/ ret' \in Fds /\ Opened(t, m)'
<1>1. fdtab = fdtab0 /\ cloexec = cloexec0 /\ used = used0 /\ refs = refs0 /\ attr = attr0
  BY DEF table, Sound0
<1>2. UNCHANGED <<fdtab0, cloexec0, used0, refs0, attr0>>
  BY DEF fdtab0, cloexec0, used0, refs0, attr0
<1>3. CASE FreeFds = {} \/ FreeFiles = {}
  <2>1. FreeFds = {}
    BY <1>3, FreeFileExists DEF FdInv
  <2>2. ret' = EMFILE /\ table' = before
    BY <1>3 DEF OpenSpecial, Fail, Return, table
  <2> QED
    BY <1>1, <2>1, <2>2 DEF FreeFds
<1>4. CASE ~(FreeFds = {} \/ FreeFiles = {})
  <2>1. PICK new \in Fds, o \in Fds :
          /\ new \in FreeFds /\ o \in FreeFiles
          /\ used' = used \cup {o}
          /\ refs' = [refs EXCEPT ![o] = 1]
          /\ attr' = [attr EXCEPT ![o] = Attr(t, m, 0)]
          /\ fdtab' = [fdtab EXCEPT ![new] = o]
          /\ cloexec' = cloexec \ {new}
          /\ ret' = new
    BY <1>4 DEF OpenSpecial, Return, IsLowest
  <2>2. fdtab0[new] = NoFile /\ o \in Fds \ used0
    BY <1>1, <2>1 DEF FreeFds, FreeFiles
  <2>3. cloexec' = cloexec0
    BY <1>1, <2>1, <2>2 DEF Sound0
  <2> QED
    BY <1>1, <1>2, <2>1, <2>2, <2>3, Zenon DEF Opened
<1> QED
  BY <1>3, <1>4

\* and close after it
LEMMA ClosedNow ==
  ASSUME FdInv, Sound0, NEW t, NEW m, Opened(t, m), Close(newfd)
  PROVE  ret' = 0 /\ table' = before
<1>1. PICK o \in Fds \ used0 :
        /\ newfd \in Fds /\ fdtab0[newfd] = NoFile
        /\ fdtab = [fdtab0 EXCEPT ![newfd] = o]
        /\ cloexec = cloexec0
        /\ used = used0 \cup {o}
        /\ refs = [refs0 EXCEPT ![o] = 1]
        /\ attr = [attr0 EXCEPT ![o] = Attr(t, m, 0)]
  BY Zenon DEF Opened
<1>2. /\ fdtab0 \in [Fds -> Fds \cup {NoFile}] /\ cloexec0 \subseteq Fds /\ used0 \subseteq Fds
      /\ refs0 \in [Fds -> Nat] /\ attr0 \in [Fds -> AttrType]
      /\ refs0[o] = 0 /\ attr0[o] = NoAttr /\ newfd \notin cloexec0
  BY <1>1 DEF Sound0
<1>3. fdtab[newfd] = o /\ refs[o] = 1 /\ o # NoFile
  BY <1>1, <1>2, FdFacts
<1>4. Open(newfd) /\ LastRef(newfd)
  BY <1>1, <1>3 DEF Open, LastRef
<1>5. CloseFd(newfd) /\ ret' = 0
  BY <1>4 DEF Close, Return
<1>6. fdtab' = fdtab0
  BY <1>1, <1>2, <1>5 DEF CloseFd
<1>7. cloexec' = cloexec0
  BY <1>1, <1>2, <1>5 DEF CloseFd
<1>8. used' = used0
  BY <1>1, <1>2, <1>3, <1>4, <1>5 DEF CloseFd, UsedClosed
<1>9. refs' = refs0
  BY <1>1, <1>2, <1>3, <1>5 DEF CloseFd, RefsClosed
<1>10. attr' = attr0
  BY <1>1, <1>2, <1>3, <1>4, <1>5 DEF CloseFd, AttrClosed
<1> QED
  BY <1>5, <1>6, <1>7, <1>8, <1>9, <1>10 DEF table, Sound0

\* dup of stdin
LEMMA DuplicatedNow ==
  ASSUME FdInv, Sound0, table = before, stdin0 # NoFile, old_fl = attr0[stdin0].nonblock,
         Dup(0), dupfd' = ret', UNCHANGED <<before, old_fl>>
  PROVE  \/ ret' = EMFILE /\ table' = before /\ \A fd \in Fds : fdtab0[fd] # NoFile
         \/ ret' \in Fds /\ fdtab0[ret'] = NoFile /\ Duplicated(0, 0)'
<1>1. fdtab = fdtab0 /\ cloexec = cloexec0 /\ used = used0 /\ refs = refs0 /\ attr = attr0
  BY DEF table, Sound0
<1>2. UNCHANGED <<fdtab0, cloexec0, used0, refs0, attr0, stdin0>>
  BY DEF fdtab0, cloexec0, used0, refs0, attr0, stdin0
<1>3. Open(0)
  BY <1>1, FdFacts, OpenInTable DEF FdInv, stdin0
<1>4. CASE FreeFds = {} /\ Fail(EMFILE)
  BY <1>1, <1>4 DEF Fail, Return, table, FreeFds
<1>5. ASSUME NEW new \in Fds, new \in FreeFds,
             fdtab' = [fdtab EXCEPT ![new] = fdtab[0]], cloexec' = cloexec \ {new},
             refs' = [refs EXCEPT ![fdtab[0]] = @ + 1], ret' = new, UNCHANGED <<used, attr>>
      PROVE  ret' \in Fds /\ fdtab0[ret'] = NoFile /\ Duplicated(0, 0)'
  <2>1. fdtab0[new] = NoFile
    BY <1>1, <1>5 DEF FreeFds
  <2>2. cloexec' = cloexec0
    BY <1>1, <1>5, <2>1 DEF Sound0
  <2> QED
    BY <1>1, <1>2, <1>5, <2>1, <2>2 DEF Duplicated, Spare, NonBlocking, stdin0
<1> QED
  BY <1>3, <1>4, <1>5 DEF Dup, IsLowest, Return

\* The duplicate and stdin are one file, with the flags that were set.
LEMMA OnDuplicate ==
  ASSUME FdInv, Sound0, NEW on \in {0, 1}, NEW nb \in {0, 1}, Duplicated(on, nb)
  PROVE  /\ stdin0 \in Fds /\ Open(0) /\ Open(dupfd) /\ fdtab[0] = stdin0 /\ fdtab[dupfd] = stdin0
         /\ dupfd \in Fds /\ (dupfd \in cloexec <=> on = 1)
         /\ attr[stdin0].type = attr0[stdin0].type /\ attr[stdin0].acc = attr0[stdin0].acc
         /\ attr[stdin0].nonblock = IF nb = 1 THEN 1 ELSE attr0[stdin0].nonblock
<1>1. /\ fdtab0 \in [Fds -> Fds \cup {NoFile}] /\ attr0 \in [Fds -> AttrType]
      /\ \A fd \in cloexec0 : fdtab0[fd] # NoFile
  BY DEF Sound0
<1>2. stdin0 \in Fds /\ dupfd \in Fds /\ dupfd # 0
  BY <1>1, FdFacts DEF Duplicated, Spare, stdin0
<1>3. fdtab[0] = stdin0 /\ fdtab[dupfd] = stdin0
  BY <1>1, <1>2, FdFacts DEF Duplicated, stdin0
<1>4. Open(0) /\ Open(dupfd)
  BY <1>2, <1>3, FdFacts, OpenInTable DEF FdInv
<1>5. dupfd \in cloexec <=> on = 1
  BY <1>1 DEF Duplicated, Spare
<1>6. /\ attr[stdin0].type = attr0[stdin0].type /\ attr[stdin0].acc = attr0[stdin0].acc
      /\ attr[stdin0].nonblock = IF nb = 1 THEN 1 ELSE attr0[stdin0].nonblock
  <2>1. attr0[stdin0] \in AttrType /\ attr = NonBlocking(nb)
    BY <1>1, <1>2 DEF Duplicated
  <2> QED
    BY <1>1, <1>2, <2>1 DEF NonBlocking, AttrType
<1> QED
  BY <1>2, <1>3, <1>4, <1>5, <1>6

\* F_SETFD, F_SETFL and close on it
LEMMA SetOnDuplicate ==
  ASSUME FdInv, Sound0, UNCHANGED <<before, dupfd, old_fl>>
  PROVE  /\ Duplicated(0, 0) /\ SetFd(dupfd, TRUE) => ret' = 0 /\ Duplicated(1, 0)'
         /\ Duplicated(1, 0) /\ SetFl(dupfd, 1) => ret' = 0 /\ Duplicated(1, 1)'
         /\ Duplicated(1, 1) /\ Close(dupfd) => ret' = 0 /\ FlagLeft'
<1>0. UNCHANGED <<fdtab0, cloexec0, used0, refs0, attr0, stdin0>>
  BY DEF fdtab0, cloexec0, used0, refs0, attr0, stdin0
<1>1. ASSUME Duplicated(0, 0), SetFd(dupfd, TRUE)
      PROVE  ret' = 0 /\ Duplicated(1, 0)'
  <2>1. Open(dupfd)
    BY <1>1, OnDuplicate
  <2>2. cloexec' = cloexec \cup {dupfd} /\ ret' = 0 /\ UNCHANGED <<fdtab, used, refs, attr>>
    BY <1>1, <2>1 DEF SetFd, Return
  <2> QED
    BY <1>0, <1>1, <2>2 DEF Duplicated, Spare, NonBlocking
<1>2. ASSUME Duplicated(1, 0), SetFl(dupfd, 1)
      PROVE  ret' = 0 /\ Duplicated(1, 1)'
  <2>1. Open(dupfd) /\ fdtab[dupfd] = stdin0
    BY <1>2, OnDuplicate
  <2>2. /\ attr' = [attr EXCEPT ![stdin0].nonblock = 1] /\ ret' = 0
        /\ UNCHANGED <<fdtab, cloexec, used, refs>>
    BY <1>2, <2>1 DEF SetFl, Return
  <2>3. attr' = NonBlocking(1)
    BY <1>2, <2>2 DEF Duplicated, NonBlocking
  <2> QED
    BY <1>0, <1>2, <2>2, <2>3 DEF Duplicated, Spare, NonBlocking
<1>3. ASSUME Duplicated(1, 1), Close(dupfd)
      PROVE  ret' = 0 /\ FlagLeft'
  <2>1. Open(dupfd) /\ fdtab[dupfd] = stdin0 /\ stdin0 \in Fds /\ dupfd \in Fds
    BY <1>3, OnDuplicate
  <2>2. CloseFd(dupfd) /\ ret' = 0
    BY <1>3, <2>1 DEF Close, Return
  <2>3. /\ fdtab0 \in [Fds -> Fds \cup {NoFile}] /\ refs0 \in [Fds -> Nat]
        /\ refs0[stdin0] # 0 /\ fdtab0[dupfd] = NoFile /\ dupfd \notin cloexec0
    BY <1>3, <2>1, FdFacts, Zenon DEF Sound0, Duplicated, Spare, stdin0
  <2>4. refs[stdin0] = refs0[stdin0] + 1 /\ ~LastRef(dupfd)
    BY <1>3, <2>1, <2>3 DEF Duplicated, LastRef
  <2>5. fdtab' = fdtab0
    BY <1>3, <2>1, <2>2, <2>3 DEF Duplicated, CloseFd
  <2>6. cloexec' = cloexec0
    BY <1>3, <2>2, <2>3 DEF Duplicated, CloseFd
  <2>7. refs' = refs0
    BY <1>3, <2>1, <2>2, <2>3 DEF Duplicated, CloseFd, RefsClosed
  <2>8. used' = used0 /\ attr' = attr
    BY <1>3, <2>2, <2>4 DEF Duplicated, CloseFd, UsedClosed, AttrClosed
  <2> QED
    BY <1>0, <1>3, <2>2, <2>5, <2>6, <2>7, <2>8 DEF Duplicated, FlagLeft, Spare, NonBlocking
<1> QED
  BY <1>1, <1>2, <1>3, Zenon

\* The second close, and F_SETFL with the old flags on stdin
LEMMA FlagRestored ==
  ASSUME FdInv, Sound0, FlagLeft
  PROVE  /\ Close(dupfd) => ret' = EBADF /\ UNCHANGED table
         /\ SetFl(0, old_fl) => ret' = 0 /\ table' = before
<1>1. fdtab = fdtab0 /\ cloexec = cloexec0 /\ used = used0 /\ refs = refs0
  BY DEF FlagLeft
<1>2. ~Open(dupfd)
  BY <1>1 DEF Open, FlagLeft, Spare
<1>3. Open(0) /\ fdtab[0] = stdin0 /\ stdin0 \in Fds
  BY <1>1, FdFacts, OpenInTable DEF FdInv, TypeOK, FlagLeft, Spare, stdin0
<1>4. ASSUME Close(dupfd) PROVE ret' = EBADF /\ UNCHANGED table
  BY <1>2, <1>4 DEF Close, Fail, Return
<1>5. ASSUME SetFl(0, old_fl) PROVE ret' = 0 /\ table' = before
  <2>1. /\ attr' = [attr EXCEPT ![stdin0].nonblock = old_fl] /\ ret' = 0
        /\ UNCHANGED <<fdtab, cloexec, used, refs>>
    BY <1>3, <1>5 DEF SetFl, Return
  <2>2. attr0 \in [Fds -> AttrType] /\ attr0[stdin0] \in AttrType
    BY <1>3 DEF Sound0
  <2>3. attr = [attr0 EXCEPT ![stdin0] = [attr0[stdin0] EXCEPT !.nonblock = 1]]
    BY <2>2 DEF FlagLeft, NonBlocking
  <2>4. attr' = [attr EXCEPT ![stdin0] = [attr[stdin0] EXCEPT !.nonblock = old_fl]]
    BY <2>1
  <2>5. [[attr0[stdin0] EXCEPT !.nonblock = 1] EXCEPT !.nonblock = attr0[stdin0].nonblock] = attr0[stdin0]
    BY <2>2, Zenon DEF AttrType
  <2>6. attr'[stdin0] = attr0[stdin0]
    BY <1>3, <2>2, <2>3, <2>4, <2>5 DEF FlagLeft
  <2>7. attr' = attr0
    BY <1>3, <2>2, <2>3, <2>4, <2>6, Zenon
  <2> QED
    BY <1>1, <2>1, <2>7 DEF table, Sound0
<1> QED
  BY <1>4, <1>5

\* A call that only looks keeps the stage.
LEMMA StageKept ==
  ASSUME UNCHANGED <<vars, dupfd, newfd, old_fl, before>>
  PROVE  /\ \A on, nb \in {0, 1} : Duplicated(on, nb) => Duplicated(on, nb)'
         /\ \A t \in {"DEV_NULL", "DEV_ZERO", "SOCKET"}, m \in {"RDONLY", "RDWR"} :
              Opened(t, m) => Opened(t, m)'
         /\ table = before => table' = before'
<1>1. UNCHANGED <<fdtab0, cloexec0, used0, refs0, attr0, stdin0>>
  BY DEF fdtab0, cloexec0, used0, refs0, attr0, stdin0
<1>2. UNCHANGED <<fdtab, cloexec, used, refs, attr>>
  BY DEF vars
<1>3. ASSUME NEW on \in {0, 1}, NEW nb \in {0, 1}, Duplicated(on, nb)
      PROVE  Duplicated(on, nb)'
  BY <1>1, <1>2, <1>3 DEF Duplicated, Spare, NonBlocking
<1>4. ASSUME NEW t \in {"DEV_NULL", "DEV_ZERO", "SOCKET"}, NEW m \in {"RDONLY", "RDWR"}, Opened(t, m)
      PROVE  Opened(t, m)'
  BY <1>1, <1>2, <1>4, Zenon DEF Opened
<1> QED
  BY <1>2, <1>3, <1>4 DEF table

\* A fresh task in the stages where nothing is left over
LEMMA FreshStdin ==
  ASSUME FdInv, Sound0, Fresh(fdtab0, attr0)
  PROVE  /\ stdin0 \in Fds /\ attr0[stdin0].type = "STDIN" /\ attr0[stdin0].acc = "RDONLY"
         /\ \E fd \in Fds : fdtab0[fd] = NoFile
         /\ \A fd \in Fds : fdtab0[fd] = NoFile => fd \notin 0 .. 2
         /\ fdtab = fdtab0 => Open(0)
<1>1. 0 \in 0 .. 2
  OBVIOUS
<1>2. fdtab0 \in [Fds -> Fds \cup {NoFile}] /\ fdtab0[0] # NoFile
  BY <1>1 DEF Sound0, Fresh
<1>3. stdin0 \in Fds
  BY <1>2, FdFacts DEF stdin0
<1>4. attr0[stdin0].type = "STDIN"
  BY DEF Fresh, stdin0
<1>5. fdtab = fdtab0 => Open(0)
  BY <1>2, FdFacts, OpenInTable DEF FdInv
<1> QED
  BY <1>3, <1>4, <1>5 DEF Sound0, Fresh

\* What the test finds at the descriptor it has opened
LEMMA OnOpened ==
  ASSUME FdInv, Sound0, NEW t, NEW m, Opened(t, m)
  PROVE  /\ newfd \in Fds /\ Open(newfd) /\ TypeOf(newfd) = t
         /\ CanRead(newfd) <=> m # "WRONLY"
         /\ CanWrite(newfd) <=> m # "RDONLY"
<1>1. PICK o \in Fds \ used0 :
        /\ newfd \in Fds
        /\ fdtab = [fdtab0 EXCEPT ![newfd] = o]
        /\ attr = [attr0 EXCEPT ![o] = Attr(t, m, 0)]
  BY Zenon DEF Opened
<1>2. fdtab[newfd] = o /\ o # NoFile
  BY <1>1, FdFacts DEF Sound0
<1>3. attr[o].type = t /\ attr[o].acc = m
  BY <1>1 DEF Sound0, Attr
<1>4. Open(newfd)
  BY <1>1, <1>2, OpenInTable DEF FdInv
<1> QED
  BY <1>1, <1>2, <1>3, <1>4 DEF TypeOf, File, CanRead, CanWrite
=============================================================================
