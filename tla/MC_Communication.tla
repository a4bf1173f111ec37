------------------------- MODULE MC_Communication -------------------------
(* Model-checking instance of Communication: two processes pa and pb with *)
(* the names 1 and 2, and the settings spaces of the runs.                *)
EXTENDS Communication

CONSTANTS pa, pb

(* One process's settings: my_name, connect_to, is_primary_connection,    *)
(* major version, use_folder_for_communication.                           *)
S(name, to, prim, major, folder) ==
    [my_name |-> name, connect_to |-> to, is_primary_connection |-> prim,
     version |-> [major |-> major, minor |-> 0],
     use_folder_for_communication |-> folder]

Pair(a, b) == [p \in {pa, pb} |-> IF p = pa THEN a ELSE b]

(* Settings under which the two processes get complementary roles:        *)
(* automatic roles with equal or different major versions, explicit roles *)
(* (pa secondary), and pa explicitly primary while pb decides by name.    *)
ComplementarySettings ==
    {Pair(S(1, 2, NoSetting, 0, f), S(2, 1, NoSetting, m, f)) : f \in BOOLEAN, m \in {0, 1}}
    \cup {Pair(S(1, 2, FALSE, 0, f), S(2, 1, TRUE, 0, f)) : f \in BOOLEAN}
    \cup {Pair(S(1, 2, TRUE, 0, f), S(2, 1, NoSetting, 0, f)) : f \in BOOLEAN}

(* Settings under which both processes are secondary: pa explicitly       *)
(* secondary while pb, deciding by name (2 < 1 is false), is secondary as  *)
(* well; and equal names with automatic roles (1 < 1 is false on both      *)
(* sides), the open question of spec 9.                                    *)
BothSecondarySettings ==
    {Pair(S(1, 2, FALSE, 0, f), S(2, 1, NoSetting, 0, f)) : f \in BOOLEAN}
    \cup {Pair(S(1, 1, NoSetting, 0, f), S(1, 1, NoSetting, 0, f)) : f \in BOOLEAN}

(* Automatic roles and equal versions.                                    *)
PlainSettings ==
    {Pair(S(1, 2, NoSetting, 0, f), S(2, 1, NoSetting, 0, f)) : f \in BOOLEAN}

(* The settings of ComplementarySettings that use a communication folder, *)
(* and those that exchange the files in the working directory.            *)
FolderSettings   == {s \in ComplementarySettings : s[pa].use_folder_for_communication}
NoFolderSettings == ComplementarySettings \ FolderSettings

=============================================================================
