------------------------------ MODULE Classroom ------------------------------
(* What a class has on the server: the register of its members, and the competitions they
   play in.  A removal writes both; ClassRegister has the register's tables with everything
   that checks them, Territory the occupations with the memberships they depend on.  A
   behaviour is about one of the two, chosen at the start, and the other stays where it
   begins. *)
EXTENDS Territory, ClassRegister

VARIABLE about

RoomInit ==
  /\ about \in {"territory", "register"}
  /\ Init
  /\ CrInit /\ (about = "register" \/ crUsers = CrStudents)

RoomNext ==
  \/ /\ about = "territory" /\ Next
     /\ UNCHANGED <<about, crVars>>
  \/ /\ about = "register" /\ CrNext
     /\ UNCHANGED <<about, vars>>

roomVars == <<about, vars, crVars>>
RoomSpec == RoomInit /\ [][RoomNext]_roomVars
=============================================================================
