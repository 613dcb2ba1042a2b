---------------------------- MODULE MCPublishing ----------------------------
(* An instance of Publishing for TLC: a scan that finds a profile in control *)
(* and is worth an event, and one that finds none.                          *)
EXTENDS Publishing

MCProfileOf == [s \in Scans |-> IF s \in Announced THEN "game" ELSE NoProfile]

\* Bound: one reader at a time. Each has events of its own and changes nothing
\* that the other one reads.
MCOneReader == tray.at = "off" \/ ~ui.open

\* Bound: with the window, one event; it reads no log, and one error is enough.
MCScreen == ui.open => events <= 1

\* Bound: with the tray, either one event, or as many as there are while nothing but
\* errors happen and the tray listens to the log alone. The tooltip reads no log, and
\* the balloons read no state.
MCTray ==
  \/ tray.at = "off" \/ events <= 1
  \/ memory.scan = NoScan /\ file.scan = NoScan /\ "tray" \notin tray.listens

=============================================================================
