------------------------------ MODULE Connection ------------------------------
(***************************************************************************)
(* CoSimIO::Internals::Connection (src/co_sim_io/impl/connection.hpp) on  *)
(* top of CoSimCommunication (src/co_sim_io/impl/co_sim_communication.h): *)
(* the connection-master drives the connection-slave with control         *)
(* signals; the slave registers callbacks and dispatches the signals to   *)
(* them in Run.                                                            *)
(*                                                                         *)
(* ConnectDetail/DisconnectDetail are the sync exchanges that module      *)
(* Communication models step by step; here each is a barrier: it returns  *)
(* once the partner has entered the same exchange (what Communication's   *)
(* SyncRendezvous checks).  Send/RecvControlSignalDetail of the file      *)
(* transport are not under src/: from spec.md 4.2 a control signal is a   *)
(* file the receiver waits for and removes, and the sender waits until    *)
(* the previous one is removed, so the channel is a single slot.          *)
(***************************************************************************)
EXTENDS Naturals, Sequences

CONSTANTS
    Master, Slave,      \* the processes running the driver and the solver script
    SettingsSpace,      \* the settings the two processes may be started with
    NoSetting,          \* a setting that is absent
    MasterSignals,      \* control signals the master may send
    SlaveNames,         \* function names the slave tries to register
    MaxSignals,         \* signals the master sends before breaking the loop
    MaxDataCalls,       \* data calls each process makes
    NoSignal            \* the control-signal file is absent

Sides == {Master, Slave}

(* ControlSignalName (lines 237-258): the signals Run can map to a name. *)
NamedSignals ==
    {"BreakSolutionLoop", "AdvanceInTime", "InitializeSolutionStep", "Predict",
     "SolveSolutionStep", "FinalizeSolutionStep", "OutputSolutionStep",
     "ImportGeometry", "ExportGeometry", "ImportMesh", "ExportMesh",
     "ImportData", "ExportData"}

(* CoSimIO::ControlSignal: the named ones, Dummy and ConvergenceAchieved. *)
ControlSignals == NamedSignals \cup {"Dummy", "ConvergenceAchieved"}

(* CheckIfFunctionNameIsValid (lines 216-235): the allowed names.         *)
AllowedFunctionNames ==
    {"AdvanceInTime", "InitializeSolutionStep", "Predict", "SolveSolutionStep",
     "FinalizeSolutionStep", "OutputSolutionStep", "ImportMesh", "ExportMesh",
     "ImportData", "ExportData"}

ASSUME MasterSignals \subseteq ControlSignals \ {"BreakSolutionLoop"}
(* The settings Connection::Initialize reads.                            *)
Settings == [is_connection_master : {"0", "1", NoSetting},
             communication_format : {"file", "sockets", "mpi", "json", NoSetting}]

ASSUME SettingsSpace \subseteq [Sides -> Settings]

VARIABLES
    setting,     \* the settings each process was started with
    pc,          \* where each process is in its script
    connected,   \* CoSimCommunication::mIsConnected
    registered,  \* DOMAIN of the slave's mRegisteredFunctions
    slot,        \* the control-signal file
    sent,        \* ghost: signals the master sent, in order
    dispatched,  \* ghost: callbacks Run invoked, in order
    calls        \* ghost: data and geometry calls each process made

vars == <<setting, pc, connected, registered, slot, sent, dispatched, calls>>

Partner(s) == IF s = Master THEN Slave ELSE Master

(* co_sim_io.hpp (lines 26-32): neither CO_SIM_IO_USING_SOCKETS nor      *)
(* CO_SIM_IO_USING_MPI is defined, so only the file transport is built.   *)
CompiledFormats == {"file"}

(* Connection::Initialize (lines 178-187): the format defaults to "file"; *)
(* mIsConnectionMaster is true only for the setting "1".                  *)
CommFormat(s) ==
    IF setting[s].communication_format = NoSetting THEN "file"
    ELSE setting[s].communication_format

IsConnectionMaster(s) == setting[s].is_connection_master = "1"

(* Initialize (lines 189-207): a format that was not compiled in, or an   *)
(* unknown one, is fatal in the constructor.                               *)
InitializeFails(s) == CommFormat(s) \notin CompiledFormats

Init ==
    /\ setting \in SettingsSpace
    /\ pc = [s \in Sides |-> IF InitializeFails(s) THEN "failed" ELSE "init"]
    /\ connected = [s \in Sides |-> FALSE]
    /\ registered = {}
    /\ slot = NoSignal
    /\ sent = <<>>
    /\ dispatched = <<>>
    /\ calls = [s \in Sides |-> 0]

Fail(s) == pc' = [pc EXCEPT ![s] = "failed"]

(* CoSimCommunication::CheckConnection (lines 182-185).                   *)
CheckConnection(s) == connected[s]

-----------------------------------------------------------------------------
(* CoSimCommunication::Connect (co_sim_communication.h 41-54): the user    *)
(* script calls it once, so the "already established" error is not       *)
(* reachable; ConnectDetail is the barrier of ConnectReturn.              *)
Connect(s) ==
    /\ pc[s] = "init"
    /\ ~connected[s]
    /\ pc' = [pc EXCEPT ![s] = "connecting"]
    /\ UNCHANGED <<setting, connected, registered, slot, sent, dispatched, calls>>

(* The partner has entered the exchange when it is in it or has left it  *)
(* connected; a partner that failed before Connect (in Initialize or in  *)
(* a data call) never enters it, and s waits forever.                     *)
ConnectReturn(s) ==
    /\ pc[s] = "connecting"
    /\ pc[Partner(s)] = "connecting" \/ connected[Partner(s)]
    /\ connected' = [connected EXCEPT ![s] = TRUE]
    /\ pc' = [pc EXCEPT ![s] = IF s = Master THEN "sending" ELSE "setup"]
    /\ UNCHANGED <<setting, registered, slot, sent, dispatched, calls>>

(* Mutation: CheckIfFunctionNameIsValid (line 83) left out.              *)
RegisterUnchecked(name) ==
    /\ pc[Slave] = "setup"
    /\ \/ /\ IsConnectionMaster(Slave)
          /\ Fail(Slave)
          /\ UNCHANGED registered
       \/ /\ ~IsConnectionMaster(Slave)
          /\ name \notin registered
          /\ registered' = registered \cup {name}
          /\ UNCHANGED pc
       \/ /\ ~IsConnectionMaster(Slave)
          /\ name \in registered
          /\ Fail(Slave)
          /\ UNCHANGED registered
    /\ UNCHANGED <<setting, connected, slot, sent, dispatched, calls>>

(* Connection::Register (lines 75-89), called by the solver before Run: *)
(* fatal for the connection-master (line 81), then for a name outside     *)
(* the allowed list or one already registered.                            *)
Register(name) ==
    /\ pc[Slave] = "setup"
    /\ \/ /\ IsConnectionMaster(Slave)
          /\ Fail(Slave)
          /\ UNCHANGED registered
       \/ /\ ~IsConnectionMaster(Slave)
          /\ name \in AllowedFunctionNames \ registered
          /\ registered' = registered \cup {name}
          /\ UNCHANGED pc
       \/ /\ ~IsConnectionMaster(Slave)
          /\ name \notin AllowedFunctionNames \ registered
          /\ Fail(Slave)
          /\ UNCHANGED registered
    /\ UNCHANGED <<setting, connected, slot, sent, dispatched, calls>>

(* Connection::Run is entered by the solver; it is fatal for the         *)
(* connection-master (line 93).                                           *)
Run ==
    /\ pc[Slave] = "setup"
    /\ \/ IsConnectionMaster(Slave) /\ Fail(Slave)
       \/ ~IsConnectionMaster(Slave) /\ pc' = [pc EXCEPT ![Slave] = "running"]
    /\ UNCHANGED <<setting, connected, registered, slot, sent, dispatched, calls>>

(* Mutation: the break signal does not leave the loop (line 101).        *)
RunIterationNoBreak ==
    /\ pc[Slave] = "running"
    /\ connected[Slave]
    /\ slot # NoSignal
    /\ slot' = NoSignal
    /\ \/ /\ slot = "BreakSolutionLoop"
          /\ UNCHANGED <<setting, pc, dispatched>>
       \/ /\ slot \notin NamedSignals
          /\ Fail(Slave)
          /\ UNCHANGED dispatched
       \/ /\ slot \in NamedSignals \ ({"BreakSolutionLoop"} \cup registered)
          /\ Fail(Slave)
          /\ UNCHANGED dispatched
       \/ /\ slot \in registered
          /\ dispatched' = Append(dispatched, slot)
          /\ UNCHANGED pc
    /\ UNCHANGED <<setting, connected, registered, sent, calls>>

(* Mutation: the check that a function was registered (line 104) dropped.*)
RunIterationUnchecked ==
    /\ pc[Slave] = "running"
    /\ connected[Slave]
    /\ slot # NoSignal
    /\ slot' = NoSignal
    /\ \/ /\ slot = "BreakSolutionLoop"
          /\ pc' = [pc EXCEPT ![Slave] = "returned"]
          /\ UNCHANGED dispatched
       \/ /\ slot \notin NamedSignals
          /\ Fail(Slave)
          /\ UNCHANGED dispatched
       \/ /\ slot \in NamedSignals \ {"BreakSolutionLoop"}
          /\ dispatched' = Append(dispatched, slot)
          /\ UNCHANGED pc
    /\ UNCHANGED <<setting, connected, registered, sent, calls>>

(* One iteration of the loop of Run (lines 97-108): receive a signal     *)
(* (RecvControlSignal, CheckConnection); the break signal ends Run;       *)
(* ControlSignalName fails for a signal without a name (line 256); a name *)
(* without a registered function is fatal (line 104); otherwise the      *)
(* function is called.                                                     *)
RunIteration ==
    /\ pc[Slave] = "running"
    /\ connected[Slave]
    /\ slot # NoSignal
    /\ slot' = NoSignal
    /\ \/ /\ slot = "BreakSolutionLoop"
          /\ pc' = [pc EXCEPT ![Slave] = "returned"]
          /\ UNCHANGED dispatched
       \/ /\ slot \notin NamedSignals
          /\ Fail(Slave)
          /\ UNCHANGED dispatched
       \/ /\ slot \in NamedSignals \ ({"BreakSolutionLoop"} \cup registered)
          /\ Fail(Slave)
          /\ UNCHANGED dispatched
       \/ /\ slot \in registered
          /\ dispatched' = Append(dispatched, slot)
          /\ UNCHANGED pc
    /\ UNCHANGED <<setting, connected, registered, sent, calls>>

(* Connection::SendControlSignal (lines 68-73) by the driver: fatal for  *)
(* a process that is not the connection-master (line 70); then           *)
(* CoSimCommunication::SendControlSignal (lines 76-79): CheckConnection,  *)
(* and the file of the previous signal must have been removed.  The       *)
(* driver sends up to MaxSignals signals and then BreakSolutionLoop.      *)
SendControlSignal(sig) ==
    /\ pc[Master] = "sending"
    /\ sig = "BreakSolutionLoop" \/ Len(sent) < MaxSignals
    /\ \/ /\ ~IsConnectionMaster(Master)
          /\ Fail(Master)
          /\ UNCHANGED <<slot, sent>>
       \/ /\ IsConnectionMaster(Master) /\ CheckConnection(Master)
          /\ slot = NoSignal
          /\ slot' = sig
          /\ sent' = Append(sent, sig)
          /\ pc' = [pc EXCEPT ![Master] = IF sig = "BreakSolutionLoop" THEN "broken" ELSE "sending"]
    /\ UNCHANGED <<setting, connected, registered, dispatched, calls>>

(* CoSimCommunication::Disconnect while connected (lines 56-74): the      *)
(* master after breaking the loop, the slave after Run returned;          *)
(* DisconnectDetail is the barrier of DisconnectReturn.                   *)
Disconnect(s) ==
    /\ pc[s] = IF s = Master THEN "broken" ELSE "returned"
    /\ connected[s]
    /\ pc' = [pc EXCEPT ![s] = "disconnecting"]
    /\ UNCHANGED <<setting, connected, registered, slot, sent, dispatched, calls>>

DisconnectReturn(s) ==
    /\ pc[s] = "disconnecting"
    /\ pc[Partner(s)] \in {"disconnecting", "done"}
    /\ connected' = [connected EXCEPT ![s] = FALSE]
    /\ pc' = [pc EXCEPT ![s] = "done"]
    /\ UNCHANGED <<setting, registered, slot, sent, dispatched, calls>>

(* Connection::ImportData/ExportData/ImportMesh/ExportMesh (lines        *)
(* 119-149) forward to CoSimCommunication (lines 85-107).                 *)
DataCalls == {"ImportData", "ExportData", "ImportMesh", "ExportMesh"}

(* Connection::ImportGeometry/ExportGeometry (lines 151-167).             *)
GeometryCalls == {"ImportGeometry", "ExportGeometry"}

(* A data or geometry call made by the user code of process s: before     *)
(* Connect, between the signals (master), in a callback (slave) or after  *)
(* Disconnect.  A geometry call is fatal before it is forwarded (lines    *)
(* 154, 163); a data call is fatal unless CheckConnection passes, and     *)
(* otherwise goes to the transport's ImportDataImpl etc., whose payload   *)
(* files are not modelled.                                                 *)
DataCall(s, call) ==
    /\ pc[s] \in {"init", "sending", "setup", "running", "done"}
    /\ calls[s] < MaxDataCalls
    /\ calls' = [calls EXCEPT ![s] = @ + 1]
    /\ \/ call \in GeometryCalls /\ Fail(s)
       \/ call \in DataCalls /\ ~CheckConnection(s) /\ Fail(s)
       \/ call \in DataCalls /\ CheckConnection(s) /\ UNCHANGED pc
    /\ UNCHANGED <<setting, connected, registered, slot, sent, dispatched>>

Step(s) ==
    \/ Connect(s)
    \/ ConnectReturn(s)
    \/ Disconnect(s)
    \/ DisconnectReturn(s)
    \/ s = Slave /\ \E name \in SlaveNames : Register(name)
    \/ s = Slave /\ (Run \/ RunIteration)
    \/ s = Master /\ \E sig \in MasterSignals \cup {"BreakSolutionLoop"} : SendControlSignal(sig)
    \/ \E call \in DataCalls \cup GeometryCalls : DataCall(s, call)

Next == \E s \in Sides : Step(s)

(* Two OS processes, each polling while it waits: weak fairness for each. *)
Spec == Init /\ [][Next]_vars /\ \A s \in Sides : WF_vars(Step(s))

-----------------------------------------------------------------------------
(* Properties                                                              *)

TypeOK ==
    /\ setting \in SettingsSpace
    /\ pc \in [Sides -> {"init", "connecting", "setup", "running", "returned",
                         "sending", "broken", "disconnecting", "done", "failed"}]
    /\ connected \in [Sides -> BOOLEAN]
    /\ registered \subseteq AllowedFunctionNames
    /\ slot \in ControlSignals \cup {NoSignal}
    /\ sent \in Seq(ControlSignals)
    /\ dispatched \in Seq(AllowedFunctionNames)
    /\ calls \in [Sides -> 0..MaxDataCalls]

NonBreak(s) == SelectSeq(s, LAMBDA x : x # "BreakSolutionLoop")

(* Run (spec 8): the functions called are the registered ones for the    *)
(* signals the master sent, in the order sent, each once, and none after  *)
(* the break signal.                                                       *)
DispatchOrder ==
    /\ \A i \in 1..Len(dispatched) : dispatched[i] \in registered
    /\ dispatched = SubSeq(NonBreak(sent), 1, Len(dispatched))
    /\ pc[Slave] \in {"returned", "disconnecting", "done"} =>
           dispatched = NonBreak(sent)

(* Unless a process stops with a fatal error, both processes eventually   *)
(* return from Disconnect: the break signal ends Run and neither process  *)
(* waits forever in the disconnect exchange.                               *)
SessionEnds ==
    [](\A s \in Sides : pc[s] # "failed") => <>(\A s \in Sides : pc[s] = "done")

=============================================================================
