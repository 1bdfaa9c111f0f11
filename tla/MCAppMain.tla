------------------------------- MODULE MCAppMain ------------------------------
(* Instances of AppMain for TLC.                                             *)
EXTENDS AppMain

Bright(n) == [brightness |-> n, others |-> {}]

(* Numbers that fit in eight bits and that do not, a value that is no number *)
(* and two patches of something else: one the example reads past, and one it *)
(* does not.                                                                 *)
MCNumbers == {70, 300}

MCPatches ==
  {Bright(70), [Bright(300) EXCEPT !.others = {"root"}],
   [Bright(NotNumber) EXCEPT !.others = {"thermostat"}],
   [Bright(Absent) EXCEPT !.others = {"root"}],
   [Bright(Absent) EXCEPT !.others = {"unknown_display"}]}

MCCommands ==
  {[component |-> FALSE, name |-> "restart"], [component |-> TRUE, name |-> "restart"]}

(* For the runs about one thing: a display property the example does not     *)
(* know, and the command that ends it.                                       *)
MCUnknownDisplay == {[Bright(Absent) EXCEPT !.others = {"unknown_display"}]}

MCRestartCommand == {[component |-> FALSE, name |-> "restart"]}
=============================================================================
