--------------------------- MODULE CopyProperties ---------------------------
(***************************************************************************)
(* What the page says is what the report means, and is true.               *)
(***************************************************************************)
EXTENDS ProbeProperties, Copy

\* The row, the headline and the verdict agree (copy.js:427-439): when the other signals
\* pass, the page is green if and only if every line of the row is, it asks for
\* attention only with a line that says what is wrong, and it asks for verification
\* only with a line that is not good news.  The one failure without a line of its own
\* is a lock whose timers alone are too long while the password could not be read.
RowAgrees ==
  Done => LET row  == Row(world)
              tone == Headline({"pass", Status(Verdict(world))}, FALSE)
          IN  /\ row # {}
              /\ tone = "protected" <=> \A l \in row : l.tone = "ok"
              /\ tone = "attention" => \E l \in row :
                   l.tone = "fail" /\ (l.says = "not_on" => Details(world).password = "unknown")
              /\ tone = "verify" => \E l \in row : l.tone \in {"unknown", "fail"}

\* The display timer of a power profile on macOS and Linux.
DisplayTimer(w, p) == IF w.kind = "gnome_lock" THEN w.s.idle ELSE w.s.display[p]

\* A line that a profile locks in time is true of that profile whatever the row's
\* verdict is, and so is a line that it does not, unless the verdict is left open.  On
\* macOS and Linux the page asks for a shorter display timer only where the timer
\* never starts or is longer than the limit: doing what it says changes something
\* (copy.js:158-178).
LockLinesAreTrue ==
  Done => \A l \in Row(world) : l.power # "" =>
    LET InTimeUnder(p) == \E t \in TrueTimes(world, p) : t <= Limit
        meant == IF l.power = "any" THEN Profiles(world) ELSE {l.power}
    IN  /\ l.tone = "ok" => \A p \in meant : InTimeUnder(p)
        /\ l.tone = "fail" /\ Verdict(world) # "unknown" => \E p \in meant : ~InTimeUnder(p)
        /\ l.tone = "fail" /\ l.says = "display" /\ world.kind # "windows_lock" =>
             DisplayTimer(world, l.power) = 0 \/ DisplayTimer(world, l.power) > Limit

=============================================================================
