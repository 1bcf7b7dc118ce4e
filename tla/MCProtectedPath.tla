--------------------------- MODULE MCProtectedPath ---------------------------
(* The instance of ProtectedPath for TLC.                                  *)
EXTENDS ProtectedPath

R == <<"C:", "ProgramData", "Agent">>
D == <<"C:", "ProgramData", "Agent", "data">>
I == <<"C:", "Program Files">>
L == <<"C:", "ProgramData", "Agent", ".runtime.lock">>
DL == <<"C:", "ProgramData", "Agent", "data", "downloads">>
X == <<"C:", "public">>

MCObjects == {R, D, L, DL, X}
MCFiles == {L}
MCOrder == <<R, L, D, DL>>
MCAllowLists == {{}, {DL, X}, {<<"C:", "ProgramData">>}}
MCDestinations == {DL, X, R, I}

Grant(o, sid, mask) ==
  [sid |-> sid, type |-> "allow", flags |-> IF o = L THEN {} ELSE {"OI", "CI"},
   inherited |-> FALSE, mask |-> mask]
Full(o) == <<Grant(o, "SYSTEM", "full"), Grant(o, "Administrators", "full")>>

\* A drifted DACL, an entry of a user, a link.
MCTampered ==
  [o \in MCObjects |->
     {[intact |-> TRUE, owner |-> "SYSTEM", dacl |-> "open", aces |-> <<Grant(o, "SYSTEM", "full")>>],
      [intact |-> TRUE, owner |-> "SYSTEM", dacl |-> "protected",
       aces |-> Full(o) \o <<Grant(o, "Users", "less")>>],
      [intact |-> FALSE, owner |-> "SYSTEM", dacl |-> "protected", aces |-> Full(o)]}]
=============================================================================
