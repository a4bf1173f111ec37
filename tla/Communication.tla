--------------------------- MODULE Communication ---------------------------
(***************************************************************************)
(* Two CoSimIO processes connecting and disconnecting through the file     *)
(* based Communication of src/co_sim_io/sources/communication/            *)
(* communication.cpp.  The only shared state is the file system: the      *)
(* communication folder and the files in it.  Each process runs the user  *)
(* script  Connect ; Disconnect  (repeated up to MaxSessions times); every *)
(* step of the model is one file-system call of the code, so the two      *)
(* processes interleave at exactly the points the code exposes.           *)
(*                                                                         *)
(* An external supervisor may kill a process at any point (MaxKills), and *)
(* a new coupled run may be started in the same working directory once    *)
(* both processes of the previous one have stopped (MaxRuns): files left  *)
(* behind by the old run survive into the new one.                        *)
(*                                                                         *)
(* ImportInfo/ExportInfo of the file transport and CreateConnectionName   *)
(* are not under src/; they are modelled from spec.md (sections 3, 4.2).  *)
(***************************************************************************)
EXTENDS Naturals, FiniteSets, Sequences, TLC

CONSTANTS
    Peers,          \* the two processes of a coupled run
    Names,          \* values of my_name / connect_to (ordered by <)
    SettingsSpace,  \* the [Peers -> Settings] a run may be started with
    NoSetting,      \* is_primary_connection absent from the settings
    MaxSessions,    \* Connect/Disconnect cycles of one process
    MaxRuns,        \* coupled runs started in one working directory
    MaxKills,       \* processes killed by an external supervisor
    RemoveTries,    \* attempts of the loop of RemovePath (line 240: 5)
    MaxLockedRemoves \* attempts failing because the partner holds the file

ASSUME Cardinality(Peers) = 2
ASSUME MaxSessions \in Nat \ {0} /\ MaxRuns \in Nat \ {0} /\ MaxKills \in Nat
ASSUME RemoveTries \in Nat \ {0} /\ MaxLockedRemoves \in Nat

Partner(p) == CHOOSE q \in Peers : q # p

(* The settings read by the constructor Communication::Communication.     *)
Settings == [my_name : Names, connect_to : Names,
             is_primary_connection : BOOLEAN \cup {NoSetting},
             version : [major : 0..1, minor : 0..1],
             use_folder_for_communication : BOOLEAN]

ASSUME SettingsSpace \subseteq [Peers -> Settings]

VARIABLES
    setting,    \* the settings each process was started with
    pc,         \* where each process is in the user script
    phase,      \* identifier of the sync exchange a process is in
    connected,  \* mIsConnected
    partnerInfo,\* the Info imported in PerformCompatibilityCheck
    sessions,   \* Connect calls made by the process
    files,      \* files present in the file system
    dirs,       \* communication folders present in the file system
    entered,    \* ghost: sync exchanges a process has entered
    left,       \* ghost: sync exchanges a process has returned from
    runs,       \* coupled runs started so far
    kills,      \* processes killed so far
    tries,      \* failed attempts of the RemovePath call in progress
    locked      \* remove attempts that failed on a file held open so far

vars == <<setting, pc, phase, connected, partnerInfo, sessions, files, dirs,
          entered, left, runs, kills, tries, locked>>

-----------------------------------------------------------------------------
(* Derived state of the constructor (communication.cpp 25-54).            *)

IsPrimary(p) ==
    IF setting[p].is_primary_connection = NoSetting
    THEN setting[p].my_name < setting[p].connect_to
    ELSE setting[p].is_primary_connection

PrimaryWasExplicitlySpecified(p) == setting[p].is_primary_connection # NoSetting

UseFolder(p) == setting[p].use_folder_for_communication

(* CreateConnectionName: the same label for both orders of the names.     *)
ConnectionName(p) == {setting[p].my_name, setting[p].connect_to}

Role(b) == IF b THEN "primary" ELSE "secondary"

(* The identifiers of the compatibility infos (lines 296-305).            *)
MyCheckId(p)      == IF IsPrimary(p) THEN "check_1" ELSE "check_2"
PartnerCheckId(p) == IF IsPrimary(p) THEN "check_2" ELSE "check_1"

(* The Infos of the compatibility check are CoSimIO::Info objects (module *)
(* Info): ExportInfo writes one with Info::Save, ImportInfo reads it back *)
(* with Info::Load, and the check reads it with Get<int> and Get<bool>.   *)
(* The keys are distinct one-word names; their letters only fix the order *)
(* in which Save writes them, which Load does not depend on.  The values  *)
(* "compatibility_checks_1/2" are one-word strings, and so is the patch   *)
(* version (GetPatchVersion is not under src/).                           *)
VersionMajorKey == <<"a">>
VersionMinorKey == <<"b">>
VersionPatchKey == <<"a", "a">>
ExplicitKey     == <<"a", "b">>
IdentifierKey   == <<"b", "a">>
InfoKeys == {VersionMajorKey, VersionMinorKey, VersionPatchKey, ExplicitKey, IdentifierKey}
PatchVersion == <<"a">>
IdentifierText(id) == IF id = "check_1" THEN <<"a">> ELSE <<"b">>

InfoIO == INSTANCE Info WITH info <- <<>>, Keys <- InfoKeys, IntValues <- 0..1,
                              DoubleValues <- {}, StringValues <- {<<"a">>, <<"b">>},
                              Precision <- 6

(* my_info of PerformCompatibilityCheck (lines 288-293) for a version,   *)
(* primary_was_explicitly_specified, and the identifier it is exported    *)
(* under (lines 296, 305).                                                *)
(* Mutation: primary_was_explicitly_specified (line 293) not set.         *)
MyInfoWithoutExplicit(v, explicit, id) ==
    (VersionMajorKey :> [type |-> "int", value |-> v.major])
    @@ (VersionMinorKey :> [type |-> "int", value |-> v.minor])
    @@ (VersionPatchKey :> [type |-> "string", value |-> PatchVersion])
    @@ (IdentifierKey :> [type |-> "string", value |-> IdentifierText(id)])

MyInfoOf(v, explicit, id) ==
    (VersionMajorKey :> [type |-> "int", value |-> v.major])
    @@ (VersionMinorKey :> [type |-> "int", value |-> v.minor])
    @@ (VersionPatchKey :> [type |-> "string", value |-> PatchVersion])
    @@ (ExplicitKey :> [type |-> "bool", value |-> explicit])
    @@ (IdentifierKey :> [type |-> "string", value |-> IdentifierText(id)])

(* Save, and Load of what Save wrote, for every Info the check exports:   *)
(* both depend on the settings only, so they are tabulated once.          *)
InfoArgs == [version : [major : 0..1, minor : 0..1], explicit : BOOLEAN,
             id : {"check_1", "check_2"}]
SavedInfo == {<<a, InfoIO!Save(MyInfoOf(a.version, a.explicit, a.id))>> : a \in InfoArgs}
LoadedInfo == {<<sv[2], InfoIO!Load(sv[2]).info>> : sv \in SavedInfo}

Lookup(table, x) == (CHOOSE row \in table : row[1] = x)[2]

(* The text ExportInfo writes for process p.                              *)
MyInfoText(p) ==
    Lookup(SavedInfo, [version |-> setting[p].version,
                       explicit |-> PrimaryWasExplicitlySpecified(p), id |-> MyCheckId(p)])

(* partner_info before it is assigned: an empty Info.                     *)
NoInfo == <<>>

(* A file: its name (kind, role or identifier, phase, connection), where  *)
(* it lives (in the communication folder or in the working directory),    *)
(* whether it is the hidden temporary name, and the Info it holds.        *)
File == [kind : {"sync", "info"}, tag : {"primary", "secondary", "check_1", "check_2"},
         phase : {"connect", "disconnect", "none"}, conn : SUBSET Names,
         infolder : BOOLEAN, tmp : BOOLEAN, payload : Seq(STRING)]

SyncFile(p, role, ph) ==
    [kind |-> "sync", tag |-> role, phase |-> ph, conn |-> ConnectionName(p),
     infolder |-> UseFolder(p), tmp |-> FALSE, payload |-> <<>>]

MySyncFile(p)      == SyncFile(p, Role(IsPrimary(p)), phase[p])
PartnerSyncFile(p) == SyncFile(p, Role(~IsPrimary(p)), phase[p])

Hidden(f) == [f EXCEPT !.tmp = TRUE]

(* An info file is named by the identifier only; its Info is its content. *)
InfoFileNamed(p, id) ==
    {f \in files : f.kind = "info" /\ f.tag = id /\ f.conn = ConnectionName(p)
                   /\ f.infolder = UseFolder(p) /\ ~f.tmp}

(* std::ofstream::open creates the file only if its folder exists.        *)
CanCreate(p) == ~UseFolder(p) \/ ConnectionName(p) \in dirs

FolderFiles(p) == {f \in files : f.infolder /\ f.conn = ConnectionName(p)}

(* The file an exists() poll of process q holds open while it runs:       *)
(* WaitForPath on the partner's marker (line 198), WaitUntilFileIsRemoved *)
(* on its own (line 211).                                                  *)
Polled(q) ==
    CASE pc[q] \in {"p_wait", "s_wait"}         -> {PartnerSyncFile(q)}
      [] pc[q] \in {"p_wait_own", "s_wait_own"} -> {MySyncFile(q)}
      [] OTHER                                  -> {}

(* Mutation: fs::remove instead of fs::remove_all, which fails on a      *)
(* folder that is not empty.                                              *)
RemoveAllFolderAsRemove(p) ==
    /\ dirs' = IF FolderFiles(p) = {} THEN dirs \ {ConnectionName(p)} ELSE dirs
    /\ UNCHANGED <<files, locked>>

(* fs::remove_all with an error_code on the communication folder of p     *)
(* (lines 121-125, 150-154).  It removes every file of the folder and the *)
(* folder.  A file the partner's poll holds open cannot be removed on     *)
(* Windows (the case of lines 236-238); remove_all then stops with an     *)
(* error, having removed an unspecified part of the other files, and the  *)
(* folder stays: the error is only logged.                                 *)
RemoveAllFolder(p) ==
    \/ /\ dirs' = dirs \ {ConnectionName(p)}
       /\ files' = files \ FolderFiles(p)
       /\ UNCHANGED locked
    \/ /\ FolderFiles(p) \cap Polled(Partner(p)) # {}
       /\ locked < MaxLockedRemoves
       /\ locked' = locked + 1
       /\ \E kept \in SUBSET FolderFiles(p) :
             /\ FolderFiles(p) \cap Polled(Partner(p)) \subseteq kept
             /\ files' = (files \ FolderFiles(p)) \cup kept
       /\ UNCHANGED dirs

Terminal == {"done", "failed", "killed"}

(* A fatal CO_SIM_IO_ERROR: the exception ends the process.               *)
Fail(p) == pc' = [pc EXCEPT ![p] = "failed"]

(* The first step of ExchangeSyncFileWithPartner (lines 257, 268).        *)
EnterSync(p, ph) ==
    /\ pc' = [pc EXCEPT ![p] = IF IsPrimary(p) THEN "p_write" ELSE "s_wait"]
    /\ phase' = [phase EXCEPT ![p] = ph]
    /\ entered' = [entered EXCEPT ![p] = @ + 1]

(* After Disconnect the script connects again or ends.                    *)
AfterSession(p) == IF sessions[p] < MaxSessions THEN "idle" ELSE "done"

-----------------------------------------------------------------------------
Init ==
    /\ setting \in SettingsSpace
    /\ pc = [p \in Peers |-> "idle"]
    /\ phase = [p \in Peers |-> "none"]
    /\ connected = [p \in Peers |-> FALSE]
    /\ partnerInfo = [p \in Peers |-> NoInfo]
    /\ sessions = [p \in Peers |-> 0]
    /\ files = {}
    /\ dirs = {}
    /\ entered = [p \in Peers |-> 0]
    /\ left = [p \in Peers |-> 0]
    /\ runs = 1
    /\ kills = 0
    /\ tries = [p \in Peers |-> 0]
    /\ locked = 0

(* Communication::Connect (lines 56-69) up to ExchangeSyncFileWithPartner *)
(* in ConnectDetail (lines 115-133).  The user script never calls Connect *)
(* while connected, so the "already established" error is not reachable. *)
Connect(p) ==
    /\ pc[p] = "idle"
    /\ ~connected[p]
    /\ sessions' = [sessions EXCEPT ![p] = @ + 1]
    /\ \/ /\ UseFolder(p) /\ IsPrimary(p)
          /\ pc' = [pc EXCEPT ![p] = "c_rmdir"]
          /\ UNCHANGED <<phase, entered>>
       \/ /\ ~(UseFolder(p) /\ IsPrimary(p))
          /\ EnterSync(p, "connect")
    /\ UNCHANGED <<setting, connected, partnerInfo, files, dirs, left, runs, kills, tries, locked>>

(* ConnectDetail, primary: remove_all of the stale folder (lines 122-126).*)
RemoveStaleFolder(p) ==
    /\ pc[p] = "c_rmdir"
    /\ RemoveAllFolder(p)
    /\ pc' = [pc EXCEPT ![p] = "c_mkdir"]
    /\ UNCHANGED <<setting, phase, connected, partnerInfo, sessions, entered,
                   left, runs, kills, tries>>

(* ConnectDetail, primary: recreate the folder, then sync (127-133).      *)
CreateFolder(p) ==
    /\ pc[p] = "c_mkdir"
    /\ dirs' = dirs \cup {ConnectionName(p)}
    /\ EnterSync(p, "connect")
    /\ UNCHANGED <<setting, connected, partnerInfo, sessions, files, left,
                   runs, kills, tries, locked>>

(* Write the hidden marker and check that it exists (lines 258-261 for   *)
(* the primary, 272-275 for the secondary).                               *)
WriteSyncFile(p) ==
    /\ pc[p] \in {"p_write", "s_write"}
    /\ \/ /\ CanCreate(p)
          /\ files' = files \cup {Hidden(MySyncFile(p))}
          /\ pc' = [pc EXCEPT ![p] = IF IsPrimary(p) THEN "p_rename" ELSE "s_rename"]
       \/ /\ ~CanCreate(p)
          /\ Fail(p)
          /\ UNCHANGED files
    /\ UNCHANGED <<setting, phase, connected, partnerInfo, sessions, dirs,
                   entered, left, runs, kills, tries, locked>>

(* MakeFileVisible: atomic rename, fatal if it fails (lines 221-230).     *)
MakeFileVisible(p) ==
    /\ pc[p] \in {"p_rename", "s_rename"}
    /\ \/ /\ Hidden(MySyncFile(p)) \in files
          /\ files' = (files \ {Hidden(MySyncFile(p))}) \cup {MySyncFile(p)}
          /\ pc' = [pc EXCEPT ![p] = IF IsPrimary(p) THEN "p_wait" ELSE "s_wait_own"]
       \/ /\ Hidden(MySyncFile(p)) \notin files
          /\ Fail(p)
          /\ UNCHANGED files
    /\ UNCHANGED <<setting, phase, connected, partnerInfo, sessions, dirs,
                   entered, left, runs, kills, tries, locked>>

(* WaitForPath on the partner's marker (lines 193-204; 264, 269).         *)
WaitForPath(p) ==
    /\ pc[p] \in {"p_wait", "s_wait"}
    /\ PartnerSyncFile(p) \in files
    /\ pc' = [pc EXCEPT ![p] = IF IsPrimary(p) THEN "p_remove" ELSE "s_remove"]
    /\ UNCHANGED <<setting, phase, connected, partnerInfo, sessions, files,
                   dirs, entered, left, runs, kills, tries, locked>>

(* On Windows fs::remove fails while another process has the file open   *)
(* (the comment of lines 236-238): the partner polling its own marker in  *)
(* WaitUntilFileIsRemoved is the one process that can hold it.            *)
PartnerHoldsIt(p) ==
    /\ pc[Partner(p)] \in {"p_wait_own", "s_wait_own"}
    /\ MySyncFile(Partner(p)) = PartnerSyncFile(p)

(* Mutation: the loop gives up one attempt early (i < 4).                *)
RemovePathFourTries(p) ==
    /\ pc[p] \in {"p_remove", "s_remove"}
    /\ \/ /\ PartnerSyncFile(p) \in files
          /\ files' = files \ {PartnerSyncFile(p)}
          /\ pc' = [pc EXCEPT ![p] = IF IsPrimary(p) THEN "p_wait_own" ELSE "s_write"]
          /\ tries' = [tries EXCEPT ![p] = 0]
          /\ UNCHANGED locked
       \/ /\ PartnerSyncFile(p) \in files /\ PartnerHoldsIt(p)
          /\ locked < MaxLockedRemoves
          /\ locked' = locked + 1
          /\ \/ tries[p] + 1 < RemoveTries - 1 /\ tries' = [tries EXCEPT ![p] = @ + 1] /\ UNCHANGED pc
             \/ tries[p] + 1 >= RemoveTries - 1 /\ Fail(p) /\ UNCHANGED tries
          /\ UNCHANGED files
       \/ /\ PartnerSyncFile(p) \notin files
          /\ Fail(p)
          /\ UNCHANGED <<files, tries, locked>>
    /\ UNCHANGED <<setting, phase, connected, partnerInfo, sessions, dirs,
                   entered, left, runs, kills>>

(* Mutation: the hidden name of the marker removed instead of the marker. *)
RemovePathHiddenName(p) ==
    /\ pc[p] \in {"p_remove", "s_remove"}
    /\ \/ /\ Hidden(PartnerSyncFile(p)) \in files
          /\ files' = files \ {Hidden(PartnerSyncFile(p))}
          /\ pc' = [pc EXCEPT ![p] = IF IsPrimary(p) THEN "p_wait_own" ELSE "s_write"]
       \/ /\ Hidden(PartnerSyncFile(p)) \notin files
          /\ Fail(p)
          /\ UNCHANGED files
    /\ UNCHANGED <<setting, phase, connected, partnerInfo, sessions, dirs,
                   entered, left, runs, kills, tries, locked>>

(* RemovePath on the partner's marker (lines 232-248; 265, 270): the     *)
(* first attempt that removes the file returns; an attempt on a file held *)
(* open fails and the next one follows at once; after RemoveTries failed  *)
(* attempts, or for a missing file (fs::remove returns false every time), *)
(* the error is fatal.                                                     *)
RemovePath(p) ==
    /\ pc[p] \in {"p_remove", "s_remove"}
    /\ \/ /\ PartnerSyncFile(p) \in files
          /\ files' = files \ {PartnerSyncFile(p)}
          /\ pc' = [pc EXCEPT ![p] = IF IsPrimary(p) THEN "p_wait_own" ELSE "s_write"]
          /\ tries' = [tries EXCEPT ![p] = 0]
          /\ UNCHANGED locked
       \/ /\ PartnerSyncFile(p) \in files /\ PartnerHoldsIt(p)
          /\ locked < MaxLockedRemoves
          /\ locked' = locked + 1
          /\ \/ tries[p] + 1 < RemoveTries /\ tries' = [tries EXCEPT ![p] = @ + 1] /\ UNCHANGED pc
             \/ tries[p] + 1 >= RemoveTries /\ Fail(p) /\ UNCHANGED tries
          /\ UNCHANGED files
       \/ /\ PartnerSyncFile(p) \notin files
          /\ Fail(p)
          /\ UNCHANGED <<files, tries, locked>>
    /\ UNCHANGED <<setting, phase, connected, partnerInfo, sessions, dirs,
                   entered, left, runs, kills>>

(* WaitUntilFileIsRemoved on the own marker ends the exchange (lines     *)
(* 206-219; 267, 278).  What follows is the rest of the caller: Connect  *)
(* sets mIsConnected and starts PerformCompatibilityCheck (lines 70-78); *)
(* DisconnectDetail lets the primary delete the folder (lines 148-155),  *)
(* otherwise Disconnect clears mIsConnected (lines 93-102).              *)
WaitUntilFileIsRemoved(p) ==
    /\ pc[p] \in {"p_wait_own", "s_wait_own"}
    /\ MySyncFile(p) \notin files
    /\ left' = [left EXCEPT ![p] = @ + 1]
    /\ \/ /\ phase[p] = "connect"
          /\ connected' = [connected EXCEPT ![p] = TRUE]
          /\ pc' = [pc EXCEPT ![p] = IF IsPrimary(p) THEN "x_export" ELSE "x_import"]
       \/ /\ phase[p] = "disconnect" /\ UseFolder(p) /\ IsPrimary(p)
          /\ pc' = [pc EXCEPT ![p] = "d_rmdir"]
          /\ UNCHANGED connected
       \/ /\ phase[p] = "disconnect" /\ ~(UseFolder(p) /\ IsPrimary(p))
          /\ connected' = [connected EXCEPT ![p] = FALSE]
          /\ pc' = [pc EXCEPT ![p] = AfterSession(p)]
    /\ UNCHANGED <<setting, phase, partnerInfo, sessions, files, dirs,
                   entered, runs, kills, tries, locked>>

(* ExportInfo of the compatibility Info (lines 296-297, 305-306): wait   *)
(* until the previous file of that name is consumed, write, make visible.*)
(* The folder exists here: only the primary removes it, and not while it *)
(* is in PerformCompatibilityCheck or waiting for this file.              *)
ExportInfo(p) ==
    /\ pc[p] = "x_export"
    /\ InfoFileNamed(p, MyCheckId(p)) = {}
    /\ CanCreate(p)
    /\ files' = files \cup
          {[kind |-> "info", tag |-> MyCheckId(p), phase |-> "none",
            conn |-> ConnectionName(p), infolder |-> UseFolder(p),
            tmp |-> FALSE, payload |-> MyInfoText(p)]}
    /\ pc' = [pc EXCEPT ![p] = IF IsPrimary(p) THEN "x_import" ELSE "x_check"]
    /\ UNCHANGED <<setting, phase, connected, partnerInfo, sessions, dirs,
                   entered, left, runs, kills, tries, locked>>

(* ImportInfo of the partner's Info (lines 298-304): wait for the file,  *)
(* load it into a new Info, remove it.  Every info file holds a text      *)
(* written by Save, so the error of Load (line 191) is not reached.       *)
ImportInfo(p) ==
    /\ pc[p] = "x_import"
    /\ \E f \in InfoFileNamed(p, PartnerCheckId(p)) :
          /\ partnerInfo' = [partnerInfo EXCEPT ![p] = Lookup(LoadedInfo, f.payload)]
          /\ files' = files \ {f}
    /\ pc' = [pc EXCEPT ![p] = IF IsPrimary(p) THEN "x_check" ELSE "x_export"]
    /\ UNCHANGED <<setting, phase, connected, sessions, dirs, entered, left,
                   runs, kills, tries, locked>>

(* The checks of PerformCompatibilityCheck (lines 309-312); a mismatch   *)
(* is fatal, and Connect then returns with mIsConnected still set.        *)
(* Mutation: the check of primary_was_explicitly_specified dropped.      *)
(* partner_info.Get<T>(key) succeeds and returns v; a Get that fails is  *)
(* itself a fatal error.                                                  *)
PartnerHas(p, key, t, v) ==
    LET r == InfoIO!Get(partnerInfo[p], key, t) IN r.ok /\ r.val = v

CompatibleIgnoringExplicit(p) ==
    /\ PartnerHas(p, VersionMajorKey, "int", setting[p].version.major)
    /\ PartnerHas(p, VersionMinorKey, "int", setting[p].version.minor)

Compatible(p) ==
    /\ PartnerHas(p, VersionMajorKey, "int", setting[p].version.major)
    /\ PartnerHas(p, VersionMinorKey, "int", setting[p].version.minor)
    /\ PartnerHas(p, ExplicitKey, "bool", PrimaryWasExplicitlySpecified(p))

PerformCompatibilityCheck(p) ==
    /\ pc[p] = "x_check"
    /\ \/ /\ Compatible(p)
          /\ pc' = [pc EXCEPT ![p] = "connected"]
       \/ /\ ~Compatible(p)
          /\ Fail(p)
    /\ UNCHANGED <<setting, phase, connected, partnerInfo, sessions, files,
                   dirs, entered, left, runs, kills, tries, locked>>

(* Communication::Disconnect while connected (lines 85-92), and the sync  *)
(* that opens DisconnectDetail (line 146).                                *)
Disconnect(p) ==
    /\ pc[p] = "connected"
    /\ connected[p]
    /\ EnterSync(p, "disconnect")
    /\ UNCHANGED <<setting, connected, partnerInfo, sessions, files, dirs,
                   left, runs, kills, tries, locked>>

(* DisconnectDetail, primary: remove_all of the folder (lines 148-159),  *)
(* then Disconnect clears mIsConnected (lines 93-102).                    *)
(* Mutation: the remove_all of DisconnectDetail dropped.                  *)
RemoveFolderKeepingIt(p) ==
    /\ pc[p] = "d_rmdir"
    /\ connected' = [connected EXCEPT ![p] = FALSE]
    /\ pc' = [pc EXCEPT ![p] = AfterSession(p)]
    /\ UNCHANGED <<setting, phase, partnerInfo, sessions, files, dirs,
                   entered, left, runs, kills, tries, locked>>

RemoveFolder(p) ==
    /\ pc[p] = "d_rmdir"
    /\ RemoveAllFolder(p)
    /\ connected' = [connected EXCEPT ![p] = FALSE]
    /\ pc' = [pc EXCEPT ![p] = AfterSession(p)]
    /\ UNCHANGED <<setting, phase, partnerInfo, sessions, entered, left,
                   runs, kills, tries>>

-----------------------------------------------------------------------------
(* The environment: a supervisor kills a process; a new coupled run is    *)
(* started in the same working directory once both processes stopped.     *)

Kill(p) ==
    /\ pc[p] \notin Terminal
    /\ kills < MaxKills
    /\ kills' = kills + 1
    /\ pc' = [pc EXCEPT ![p] = "killed"]
    /\ UNCHANGED <<setting, phase, connected, partnerInfo, sessions, files,
                   dirs, entered, left, runs, tries, locked>>

Relaunch ==
    /\ \A p \in Peers : pc[p] \in Terminal
    /\ runs < MaxRuns
    /\ runs' = runs + 1
    /\ pc' = [p \in Peers |-> "idle"]
    /\ phase' = [p \in Peers |-> "none"]
    /\ connected' = [p \in Peers |-> FALSE]
    /\ partnerInfo' = [p \in Peers |-> NoInfo]
    /\ sessions' = [p \in Peers |-> 0]
    /\ entered' = [p \in Peers |-> 0]
    /\ left' = [p \in Peers |-> 0]
    /\ setting' \in SettingsSpace
    /\ tries' = [p \in Peers |-> 0]
    /\ UNCHANGED <<files, dirs, kills, locked>>

Step(p) ==
    \/ Connect(p)
    \/ RemoveStaleFolder(p)
    \/ CreateFolder(p)
    \/ WriteSyncFile(p)
    \/ MakeFileVisible(p)
    \/ WaitForPath(p)
    \/ RemovePath(p)
    \/ WaitUntilFileIsRemoved(p)
    \/ ExportInfo(p)
    \/ ImportInfo(p)
    \/ PerformCompatibilityCheck(p)
    \/ Disconnect(p)
    \/ RemoveFolder(p)

Next ==
    \/ \E p \in Peers : Step(p) \/ Kill(p)
    \/ Relaunch

(* Each process is a separate OS process that keeps polling while it is  *)
(* blocked, so every step that stays enabled is eventually taken.         *)
Fairness == \A p \in Peers : WF_vars(Step(p))

Spec == Init /\ [][Next]_vars /\ Fairness

-----------------------------------------------------------------------------
(* Properties                                                              *)

TypeOK ==
    /\ setting \in SettingsSpace
    /\ pc \in [Peers -> {"idle", "c_rmdir", "c_mkdir", "p_write", "p_rename",
                         "p_wait", "p_remove", "p_wait_own", "s_wait",
                         "s_remove", "s_write", "s_rename", "s_wait_own",
                         "x_export", "x_import", "x_check", "connected",
                         "d_rmdir"} \cup Terminal]
    /\ phase \in [Peers -> {"connect", "disconnect", "none"}]
    /\ connected \in [Peers -> BOOLEAN]
    /\ \A p \in Peers : /\ DOMAIN partnerInfo[p] \subseteq InfoKeys
                        /\ \A k \in DOMAIN partnerInfo[p] : partnerInfo[p][k] \in InfoIO!Entry
    /\ sessions \in [Peers -> 0..MaxSessions]
    /\ files \subseteq File
    /\ dirs \subseteq SUBSET Names
    /\ entered \in [Peers -> Nat] /\ left \in [Peers -> Nat]
    /\ runs \in 1..MaxRuns /\ kills \in 0..MaxKills
    /\ tries \in [Peers -> 0..RemoveTries] /\ locked \in 0..MaxLockedRemoves

(* ExchangeSyncFileWithPartner is a rendezvous: neither process returns   *)
(* from its k-th sync exchange before the partner process of the same run *)
(* has entered its k-th one (spec 4.2: "strict happens-before in both     *)
(* directions").                                                           *)
SyncRendezvous == \A p \in Peers : left[p] <= entered[Partner(p)]

(* PerformCompatibilityCheck: Connect only returns to a process whose     *)
(* partner has the same major and minor version and specified the primary *)
(* connection the same way (explicitly or automatically).                 *)
CompatibilityGate ==
    \A p \in Peers : pc[p] = "connected" =>
        /\ setting[Partner(p)].version = setting[p].version
        /\ PrimaryWasExplicitlySpecified(Partner(p)) = PrimaryWasExplicitlySpecified(p)

(* Spec 8: "peers with identical versions and identical explicit-role   *)
(* settings succeed".  When the two processes have the same version and   *)
(* chose the primary the same way, each eventually returns from Connect   *)
(* connected: the Info each exports is written by Info::Save, read back   *)
(* by Info::Load in the partner's ImportInfo, and every Get<int> and      *)
(* Get<bool> of PerformCompatibilityCheck finds its key with its type.     *)
CompatiblePeersConnect ==
    (\A p \in Peers : /\ setting[p].version = setting[Partner(p)].version
                      /\ PrimaryWasExplicitlySpecified(p) = PrimaryWasExplicitlySpecified(Partner(p)))
        => \A p \in Peers : <>(pc[p] = "connected")

(* Once both processes returned from their last Disconnect, no marker or  *)
(* info file and no communication folder is left (spec 8: the exchange    *)
(* "leaves no marker files behind"; the folder is deleted at disconnect). *)
NoLeftovers ==
    (\A p \in Peers : pc[p] = "done") => files = {} /\ dirs = {}

(* A Connect call returns, successfully or with a fatal error: no process *)
(* blocks forever in the connect handshake (spec 4.2, 7).                 *)
ConnectReturns ==
    \A p \in Peers : pc[p] = "idle" ~> pc[p] \in {"connected"} \cup Terminal

(* Both processes of a run reach the same end: both complete every        *)
(* session, or both stop with a fatal error.                              *)
SameOutcome ==
    \/ <>(\A p \in Peers : pc[p] = "done")
    \/ <>(\A p \in Peers : pc[p] = "failed")

(* A Connect that fails with a fatal error leaves the transport not       *)
(* connected (spec 7: fatal conditions "leave the transport in a          *)
(* well-defined not connected state").                                    *)
FailedNotConnected == \A p \in Peers : pc[p] = "failed" => ~connected[p]


(* The file-level exchange implements the abstract one of SyncBarrier:  *)
(* entering is the first step of ExchangeSyncFileWithPartner, leaving is  *)
(* the return of its last WaitUntilFileIsRemoved; every other step of the *)
(* processes leaves the barrier state alone; and a process inside an      *)
(* exchange its partner has entered eventually returns from it.           *)
Barrier == INSTANCE SyncBarrier WITH Procs <- Peers

SyncExchangeRefinesBarrier == Barrier!Spec

========================================================================
