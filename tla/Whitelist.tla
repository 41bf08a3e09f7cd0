------------------------------ MODULE Whitelist ------------------------------
(***************************************************************************)
(* What the account manager promises about the whitelist, without saying   *)
(* how the database's accounts get to it: whitelist.json holds accounts    *)
(* the database asked for at some time, or none of anybody's choosing, and *)
(* Minecraft enforces only what was in it.  AccountSync implements this.   *)
(***************************************************************************)
CONSTANTS
  Lists,   \* the sets of accounts the database may ask for
  Absent,  \* there is no whitelist.json
  Cut      \* it is incomplete and cannot be parsed

VARIABLES
  asked,   \* the accounts the database asks for
  known,   \* all it has asked for so far
  file,    \* whitelist.json
  inForce  \* the accounts Minecraft lets in

vars == <<asked, known, file, inForce>>

Init ==
  /\ asked \in Lists /\ known = {asked}
  /\ file = Absent
  /\ inForce = {}

Ask(w) ==
  /\ asked' = w
  /\ known' = known \cup {w}
  /\ UNCHANGED <<file, inForce>>

\* Minecraft starts with an empty file, which nobody else ever makes.
Create ==
  /\ file = Absent
  /\ file' = {}
  /\ UNCHANGED <<asked, known, inForce>>

\* Writing is not atomic, and does not begin before there is a file.
Truncate ==
  /\ file # Absent
  /\ file' = Cut
  /\ UNCHANGED <<asked, known, inForce>>

Complete ==
  /\ file = Cut
  /\ file' \in known
  /\ UNCHANGED <<asked, known, inForce>>

\* A file that is not there or cut short may cost everybody's access but never
\* give access to anybody.
Load ==
  /\ inForce' \in IF file \in {Absent, Cut} THEN {inForce, {}} ELSE {file}
  /\ UNCHANGED <<asked, known, file>>

Next == (\E w \in Lists : Ask(w)) \/ Create \/ Truncate \/ Complete \/ Load

Spec == Init /\ [][Next]_vars

=============================================================================
