--------------------------- MODULE MCCommandWrites ---------------------------
(***************************************************************************)
(* CommandWrites for TLC: the tables to start from hold a command of an    *)
(* eligible user's channel, or one of another's and one assigned to        *)
(* nobody, both with the same trigger.                                     *)
(***************************************************************************)
EXTENDS CommandWrites

NoRows == [custom |-> [c \in Commands |-> NoCustom],
           counter |-> [k \in Counters |-> NoCounter], advanced |-> NoTrigger]
OwnedBy(users) == [trigger |-> 1, flags |-> {}, users |-> users]
MCExisting == {[NoRows EXCEPT !.custom[1] = OwnedBy(Eligible)],
               [NoRows EXCEPT !.custom[1] = OwnedBy(Users \ Eligible), !.custom[2] = OwnedBy({})]}
===============================================================================
