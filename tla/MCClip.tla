-------------------------------- MODULE MCClip --------------------------------
(* An instance of Clip for TLC. *)
EXTENDS Clip, TLC

\* A Wayland program, whose request some clipboard history reads along; that history's own
\* request, read by a child of a child of it; two X11 programs; Pear's own window.
Pipes == [app    |-> {"app", "perl", "xwm"}, history |-> {"perl", "xwm"},
          x1     |-> {"xwm"},                x2      |-> {"xwm"},
          window |-> {"pear", "xwm"}]

ReadEnds == [app    |-> {"app", "perl"}, history |-> {"perl"},
             x1     |-> {"xwm"},         x2      |-> {"xwm"},
             window |-> {"pear"}]

Parents == [app     |-> "shell", perl |-> "capture", capture |-> "wlpaste",
            wlpaste |-> "shell", xwm  |-> "login",   pear    |-> "shell"]

ASSUME DesktopAssumption == OneProgramEach /\ RecordersAreKnown

Interchangeable ==
  Permutations(Window) \cup Permutations(Id) \cup Permutations(Task) \cup Permutations(Copy)

=============================================================================
