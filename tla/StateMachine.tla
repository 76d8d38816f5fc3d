---------------------------- MODULE StateMachine ----------------------------
(***************************************************************************)
(* The transition table of the blockchain manager's state machine          *)
(* (core-blockchain/source/state-machine/machine.ts) as pure operators.    *)
(* The machine is hierarchical: the states below "syncWithNetwork" are     *)
(* written "sync.<name>" here and inherit their parent's transitions.      *)
(***************************************************************************)
EXTENDS Sequences

\* The leaf states of "syncWithNetwork".
SyncState == {"sync.syncing", "sync.downloadBlocks", "sync.downloadFinished",
              "sync.downloadPaused", "sync.processFinished", "sync.end",
              "sync.idle"}

State == SyncState \cup {"uninitialised", "init", "idle", "newBlock", "fork",
                         "stopped", "exit"}

Event == {"START", "STOP", "STARTED", "FAILURE", "NETWORKSTART", "SUCCESS",
          "FORK", "NEWBLOCK", "WAKEUP", "PROCESSFINISHED", "SYNCFINISHED",
          "TEST", "SYNCED", "NOTSYNCED", "PAUSED", "NETWORKHALTED",
          "DOWNLOADED", "NOBLOCK"}

\* The actions that index.ts implements: what setImmediate can be given.
ActionName == {"init", "checkLater", "blockchainReady", "stopped", "exitApp",
               "checkLastDownloadedBlockSynced", "downloadBlocks",
               "downloadFinished", "downloadPaused", "checkLastBlockSynced",
               "syncingComplete"}

(***************************************************************************)
(* The state an event leads to.  A child's own transitions come before     *)
(* its parent's; an event a state does not list changes nothing.           *)
(***************************************************************************)
Target(s, e) ==
  CASE e = "START" /\ s = "uninitialised"              -> "init"
    [] e = "STOP" /\ s \notin {"stopped", "exit"}      -> "stopped"
    [] e = "FAILURE" /\ s \in {"init", "fork"}         -> "exit"
    [] e = "NETWORKSTART" /\ s = "init"                -> "idle"
    [] \/ e = "STARTED" /\ s = "init"
       \/ e = "WAKEUP" /\ s = "idle"
       \/ e = "SUCCESS" /\ s = "fork"                  -> "sync.syncing"
    [] e = "FORK" /\ s \in SyncState \cup {"idle", "newBlock"} -> "fork"
    [] e = "NEWBLOCK" /\ s = "idle"                    -> "newBlock"
    [] \/ e = "PROCESSFINISHED" /\ s = "newBlock"
       \/ e \in {"SYNCFINISHED", "TEST"} /\ s \in SyncState -> "idle"
    [] e \in {"DOWNLOADED", "NOBLOCK"} /\ s = "sync.downloadBlocks"
                                                       -> "sync.syncing"
    [] \/ e = "PROCESSFINISHED" /\ s = "sync.downloadBlocks"
       \/ e = "SYNCED" /\ s = "sync.syncing"           -> "sync.downloadFinished"
    [] /\ e = "PROCESSFINISHED"
       /\ s \in {"sync.downloadFinished", "sync.downloadPaused"}
                                                       -> "sync.processFinished"
    [] \/ e = "NOTSYNCED" /\ s \in {"sync.syncing", "sync.processFinished"}
       \/ e = "DOWNLOADED" /\ s = "sync.idle"          -> "sync.downloadBlocks"
    [] \/ e = "SYNCED" /\ s = "sync.processFinished"
       \/ e = "NETWORKHALTED" /\ s = "sync.syncing"    -> "sync.end"
    [] e = "PAUSED" /\ s = "sync.syncing"              -> "sync.downloadPaused"
    [] OTHER                                           -> s

(***************************************************************************)
(* The onEntry actions of a state that resolve to an implementation.  The  *)
(* state "fork" names "startForkRecovery", which actions/index.ts does not *)
(* have: transition() logs the miss and queues nothing.                    *)
(***************************************************************************)
OnEntry(s) ==
  CASE s = "idle"                  -> <<"checkLater", "blockchainReady">>
    [] s = "init"                  -> <<"init">>
    [] s = "exit"                  -> <<"exitApp">>
    [] s = "stopped"               -> <<"stopped">>
    [] s = "sync.syncing"          -> <<"checkLastDownloadedBlockSynced">>
    [] s = "sync.downloadBlocks"   -> <<"downloadBlocks">>
    [] s = "sync.downloadFinished" -> <<"downloadFinished">>
    [] s = "sync.downloadPaused"   -> <<"downloadPaused">>
    [] s = "sync.processFinished"  -> <<"checkLastBlockSynced">>
    [] s = "sync.end"              -> <<"syncingComplete">>
    [] OTHER                       -> <<>>

\* The actions a transition queues: those of the state it enters, if any.
Entered(s, e) == IF Target(s, e) = s THEN <<>> ELSE OnEntry(Target(s, e))
=============================================================================
