---------------------------- MODULE MC_Connection ----------------------------
(* Model-checking instance of Connection.                                 *)
EXTENDS Connection

(* The settings of the two processes: the driver's first, the solver's   *)
(* second.                                                                *)
Pair(d, v) == [s \in {Master, Slave} |-> IF s = Master THEN d ELSE v]
St(master, format) == [is_connection_master |-> master, communication_format |-> format]

(* The driver is the connection-master, the solver the connection-slave:  *)
(* the configuration of the tutorials.                                    *)
RolesAsConfigured == Pair(St("1", "file"), St(NoSetting, NoSetting))

(* Configurations that go wrong: the driver without is_connection_master *)
(* (it defaults to false, whatever is_primary_connection says), both      *)
(* processes connection-master, and a solver asking for sockets, which    *)
(* were not compiled in.                                                  *)
MisconfiguredRoles ==
    { Pair(St(NoSetting, "file"), St(NoSetting, NoSetting)),
      Pair(St("1", NoSetting), St("1", "file")),
      Pair(St("1", "file"), St("0", "sockets")) }

UsedSettings == {RolesAsConfigured} \cup MisconfiguredRoles
ConfiguredSettings == {RolesAsConfigured}

(* Signals the driver sends: two with callbacks the solver may register, *)
(* one that is named but not allowed (ImportGeometry) and one without a   *)
(* name (ConvergenceAchieved).                                            *)
DriverSignals == {"SolveSolutionStep", "ImportData", "ImportGeometry", "ConvergenceAchieved"}

(* Names the solver registers: two allowed ones and one not allowed.      *)
SolverNames == {"SolveSolutionStep", "ImportData", "ImportGeometry"}

=============================================================================
