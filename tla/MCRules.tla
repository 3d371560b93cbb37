------------------------------ MODULE MCRules ------------------------------
(***************************************************************************)
(* Rules r1 and r2, packages x and y: every file of up to three of these   *)
(* lines at startup, and two more files to reload.                         *)
(***************************************************************************)
EXTENDS Rules
CONSTANTS x, y, r1, r2
RuleIds == {r1, r2}
Entry(id, key, val) == [id |-> id, key |-> key, val |-> val]
Entries ==
    {Entry(r1, "action", "suppress"), Entry(r2, "action", "exempt"),
     Entry(r2, "action", Junk), Entry(r1, "priority", 1), Entry(r1, "priority", Junk),
     Entry(r2, "condition", "wakeup"), Entry(r1, "throttle", 1), Entry(r1, "throttle", -1),
     Entry(r1, "applies_to", {x}), Entry(r2, "expires_at", 1),
     Entry(r2, "source", "broadcast"), Entry(NoId, "action", "freeze")}
Texts == UNION {[1 .. k -> Entries] : k \in 0 .. 3}
Rich ==
    <<Entry(r1, "action", "suppress"), Entry(r1, "throttle", 1),
      Entry(r2, "action", "exempt"), Entry(r1, "priority", 1),
      Entry(r2, "expires_at", 1), Entry(r1, "condition", "wakeup")>>
TwoTexts == {Rich, <<Entry(r2, "action", "exempt")>>}
=============================================================================
