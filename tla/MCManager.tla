----------------------------- MODULE MCManager -----------------------------
(***************************************************************************)
(* Small instances of Manager for TLC.                                     *)
(***************************************************************************)
EXTENDS Manager, TLC

Manage(id) == [type |-> "Management", ID |-> id]

\* The broker's view: devices come and go.
RegistryCommands == {Manage("Del_Dev"), Manage("Dis_All")}

\* Every branch of handle_managent_package.
AllCommands == {Manage(id) : id \in CommandID} \cup {[type |-> "ReadResponse", ID |-> "Del_Dev"]}

\* Clients that only ask what there is.
ChatCommands == {Manage("Dis_All")}

Symmetry == Permutations(Conn) \cup Permutations(DevID)
=============================================================================
