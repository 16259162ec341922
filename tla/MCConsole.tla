----------------------------- MODULE MCConsole -----------------------------
(* Instances of the console for TLC. *)
EXTENDS Console

CanonicalModes == {{"ICANON"}, {"ICANON", "ISIG"}}
AnyMode == SUBSET {"ICANON", "ISIG"}

\* System calls in canonical mode, and in any mode; and both callers
AllUses == {[callers |-> {"trap"}, lflags |-> CanonicalModes],
            [callers |-> {"trap"}, lflags |-> AnyMode],
            [callers |-> {"trap", "direct"}, lflags |-> CanonicalModes]}
Lengths == {1, 3}
=============================================================================
