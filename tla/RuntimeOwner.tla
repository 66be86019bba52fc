---------------------------- MODULE RuntimeOwner ----------------------------
(***************************************************************************)
(* The election of the shim that runs the Codex app-server of a CODEX_HOME *)
(* (runtime/codex-app-server-shim.cjs).  A shim attaches to the owner when *)
(* it can; otherwise it makes the owner directory, writes owner.json into  *)
(* it and starts the app-server.  A directory left behind is moved aside.  *)
(* The owner renews its record through an open file; when that fails it    *)
(* shuts down.  A shim whose owner is gone runs for owner itself.          *)
(*                                                                         *)
(* The shims are separate processes: each action is one file operation, or *)
(* a few on a file that no other shim can change in between.               *)
(***************************************************************************)
EXTENDS FiniteSets

CONSTANTS
  Shims,      \* processes; one that has stopped does not come back
  Before,     \* those of them that ran, and were killed as owners, before
  Dirs,       \* bound: identities of directories (inodes), used again when free
  NoDir,      \* nothing is at the owner path
  NoShim,     \* nobody
  CrashAt,    \* positions at which a shim may be killed, or exit with nothing to release
  OnTime      \* whether running owners renew, and write their first record, in time

Serving == {"owner", "closing"}
Positions ==
  Serving \cup {"new", "look", "acquire", "write", "fill", "removeAndReap", "removeAndFail",
                "reap", "rename", "wait", "lookLast", "starting", "client", "releasing",
                "stopped", "dead"}

ASSUME RuntimeOwnerAssumption ==
  /\ NoDir \notin Dirs /\ NoShim \notin Shims
  /\ Before \subseteq Shims
  /\ CrashAt \subseteq Positions \ {"new", "dead"}
  /\ OnTime \in BOOLEAN

VARIABLES
  pc,         \* where a shim is
  rejoining,  \* shims that lost their owner (runtimeOwnerMode "client-reconnecting")
  server,     \* the owner a client is attached to
  handle,     \* the directory whose owner.json a shim has open for writing
  dir,        \* the directory at the owner path
  rec,        \* owner.json of each directory
  old         \* directories not changed for RUNTIME_OWNER_LEASE_MS

vars == <<pc, rejoining, server, handle, dir, rec, old>>

(* text: there is no owner.json, one that does not parse, or a whole one.   *)
Records == [owner : Shims \cup {NoShim}, text : {"none", "torn", "whole"}, expired : BOOLEAN]
NoRecord == [owner |-> NoShim, text |-> "none", expired |-> FALSE]

Init ==
  /\ pc = [p \in Shims |-> IF p \in Before THEN "dead" ELSE "new"]
  /\ rejoining = {}
  /\ server = [p \in Shims |-> NoShim]
  /\ handle = [p \in Shims |-> NoDir]
  /\ old = {}
  /\ \/ dir = NoDir /\ rec = [d \in Dirs |-> NoRecord]
     \/ /\ dir \in Dirs
        /\ \E p \in Before, text \in {"torn", "whole"} :
             rec = [d \in Dirs |-> IF d # dir THEN NoRecord
                                   ELSE [owner |-> p, text |-> text, expired |-> FALSE]]

Goto(p, s) == pc' = [pc EXCEPT ![p] = s]
Alive(p) == pc[p] \notin {"new", "dead"}

-----------------------------------------------------------------------------
(* startRuntime and reconnectAsOwnerOrClient: attach, or run for owner.     *)

(* readRuntimeOwnerMetadata, canAttachToRuntimeOwner and the connection.    *)
Attachable(p) ==
  /\ dir # NoDir /\ rec[dir].text = "whole" /\ ~rec[dir].expired
  /\ rec[dir].owner # p /\ pc[rec[dir].owner] \in Serving

Start(p) ==
  /\ pc[p] = "new"
  /\ Goto(p, "look")
  /\ UNCHANGED <<rejoining, server, handle, dir, rec, old>>

Look(p) ==
  /\ \/ /\ pc[p] \in {"look", "lookLast"} /\ Attachable(p)
        /\ Goto(p, "client")
        /\ server' = [server EXCEPT ![p] = rec[dir].owner]
     \/ /\ pc[p] = "look" /\ ~Attachable(p)
        /\ Goto(p, "acquire")
        /\ UNCHANGED server
     \/ /\ pc[p] = "lookLast" /\ ~Attachable(p)
        /\ Goto(p, "stopped")
        /\ UNCHANGED server
  /\ UNCHANGED <<rejoining, handle, dir, rec, old>>

(* handleAttachedOwnerDisconnect                                            *)
Disconnected(p) ==
  /\ pc[p] = "client" /\ pc[server[p]] \notin Serving
  /\ Goto(p, "look")
  /\ server' = [server EXCEPT ![p] = NoShim]
  /\ rejoining' = rejoining \cup {p}
  /\ UNCHANGED <<handle, dir, rec, old>>

-----------------------------------------------------------------------------
(* acquireRuntimeOwner                                                      *)

(* A directory that is not at the path is gone once nobody has its file     *)
(* open.                                                                    *)
Opened == {handle[q] : q \in Shims}

MakeDir(p) ==
  /\ pc[p] = "acquire"
  /\ \/ /\ dir # NoDir
        /\ Goto(p, "reap")
        /\ UNCHANGED <<dir, rec, old>>
     \/ /\ dir = NoDir
        /\ dir' \in Dirs \ Opened
        /\ rec' = [d \in Dirs |-> IF d \in Opened THEN rec[d] ELSE NoRecord]
        /\ old' = {}
        /\ Goto(p, "write")
  /\ UNCHANGED <<rejoining, server, handle>>

(* Faulty: owner.json is created or overwritten.                            *)
CreateOverRecord(p) ==
  /\ pc[p] = "write"
  /\ \/ /\ dir = NoDir
        /\ Goto(p, "removeAndFail")
        /\ UNCHANGED <<rec, handle, old>>
     \/ /\ dir # NoDir
        /\ Goto(p, "fill")
        /\ rec' = [rec EXCEPT ![dir].text = "torn"]
        /\ handle' = [handle EXCEPT ![p] = dir]
        /\ old' = old \ {dir}
  /\ UNCHANGED <<rejoining, server, dir>>

(* The exclusive creation of owner.json, by path.                           *)
CreateRecord(p) ==
  /\ pc[p] = "write"
  /\ \/ /\ dir = NoDir
        /\ Goto(p, "removeAndFail")
        /\ UNCHANGED <<rec, handle, old>>
     \/ /\ dir # NoDir /\ rec[dir].text # "none"
        /\ Goto(p, "removeAndReap")
        /\ UNCHANGED <<rec, handle, old>>
     \/ /\ dir # NoDir /\ rec[dir].text = "none"
        /\ Goto(p, "fill")
        /\ rec' = [rec EXCEPT ![dir].text = "torn"]
        /\ handle' = [handle EXCEPT ![p] = dir]
        /\ old' = old \ {dir}
  /\ UNCHANGED <<rejoining, server, dir>>

(* Its contents reach the open file.                                        *)
FillRecord(p) ==
  /\ pc[p] = "fill"
  /\ rec' = [rec EXCEPT ![handle[p]] = [owner |-> p, text |-> "whole", expired |-> FALSE]]
  /\ handle' = [handle EXCEPT ![p] = NoDir]
  /\ Goto(p, "starting")
  /\ UNCHANGED <<rejoining, server, dir, old>>

(* After a failed creation whatever is at the path is removed; a failure    *)
(* other than EEXIST ends the shim.                                         *)
RemoveDir(p) ==
  /\ pc[p] \in {"removeAndReap", "removeAndFail"}
  /\ dir' = NoDir
  /\ Goto(p, IF pc[p] = "removeAndReap" THEN "reap" ELSE "stopped")
  /\ UNCHANGED <<rejoining, server, handle, rec, old>>

(* Faulty: a record that does not parse is never stale.                     *)
StaleWhole(d) == rec[d].text = "whole" /\ (rec[d].expired \/ ~Alive(rec[d].owner))

(* reapStaleRuntimeOwner up to its verdict.  When there is no owner.json it *)
(* takes the directory for gone.                                            *)
Stale(d) ==
  \/ rec[d].text = "torn" /\ d \in old
  \/ rec[d].text = "whole" /\ (rec[d].expired \/ ~Alive(rec[d].owner))
ReadRecord(p) ==
  /\ pc[p] = "reap"
  /\ Goto(p, IF dir = NoDir \/ rec[dir].text = "none" THEN "acquire"
             ELSE IF Stale(dir) THEN "rename" ELSE "wait")
  /\ UNCHANGED <<rejoining, server, handle, dir, rec, old>>

(* renameStaleRuntimeOwner                                                  *)
MoveAside(p) ==
  /\ pc[p] = "rename"
  /\ dir' = NoDir
  /\ Goto(p, "acquire")
  /\ UNCHANGED <<rejoining, server, handle, rec, old>>

TryAgain(p) ==
  /\ pc[p] = "wait"
  /\ Goto(p, "acquire")
  /\ UNCHANGED <<rejoining, server, handle, dir, rec, old>>

(* The deadline of acquireRuntimeOwner is over.                             *)
GiveUp(p) ==
  /\ pc[p] = "wait"
  /\ Goto(p, IF p \in rejoining THEN "look" ELSE "lookLast")
  /\ UNCHANGED <<rejoining, server, handle, dir, rec, old>>

-----------------------------------------------------------------------------
(* The owner.                                                               *)

(* startOwnedRuntime: the app-server runs and clients may attach, by a      *)
(* socket in the directory.                                                 *)
Launch(p) ==
  /\ pc[p] = "starting"
  /\ Goto(p, "owner")
  /\ rejoining' = rejoining \ {p}
  /\ old' = old \ {dir}
  /\ UNCHANGED <<server, handle, dir, rec>>

HoldsPath(p) == dir # NoDir /\ rec[dir].owner = p

(* Faulty: a lost lease is only logged.                                     *)
RenewalIgnored(p) == UNCHANGED pc
(* requestShutdown before there is a child ends the process.                *)
RenewalFails(p) == Goto(p, IF pc[p] = "starting" THEN "stopped" ELSE "closing")

(* renewRuntimeOwner: up to the truncation of the file it has opened, and   *)
(* the shutdown when the record is not its own or cannot be read.           *)
RenewBegin(p) ==
  /\ pc[p] \in Serving \cup {"starting"} /\ handle[p] = NoDir
  /\ \/ /\ HoldsPath(p) /\ rec[dir].text = "whole" /\ ~rec[dir].expired
        /\ handle' = [handle EXCEPT ![p] = dir]
        /\ rec' = [rec EXCEPT ![dir].text = "torn"]
        /\ UNCHANGED pc
     \/ /\ ~(HoldsPath(p) /\ rec[dir].text = "whole" /\ ~rec[dir].expired)
        /\ RenewalFails(p)
        /\ UNCHANGED <<handle, rec>>
  /\ UNCHANGED <<rejoining, server, dir, old>>

RenewEnd(p) ==
  /\ pc[p] \notin {"fill", "dead"} /\ handle[p] # NoDir
  /\ rec' = [rec EXCEPT ![handle[p]] = [owner |-> p, text |-> "whole", expired |-> FALSE]]
  /\ handle' = [handle EXCEPT ![p] = NoDir]
  /\ UNCHANGED <<pc, rejoining, server, dir, old>>

(* requestShutdown: stdin has ended, or a signal came.                      *)
Shutdown(p) ==
  /\ pc[p] = "owner"
  /\ Goto(p, "closing")
  /\ UNCHANGED <<rejoining, server, handle, dir, rec, old>>

(* The app-server has exited, or has crashed, or could not be started:      *)
(* releaseRuntimeOwner reads the record, ...                                *)
ChildExits(p) ==
  /\ pc[p] \in Serving \cup {"starting"}
  /\ Goto(p, IF HoldsPath(p) /\ rec[dir].text = "whole" THEN "releasing" ELSE "stopped")
  /\ UNCHANGED <<rejoining, server, handle, dir, rec, old>>

(* ... and removes what is at the path.                                     *)
Release(p) ==
  /\ pc[p] = "releasing"
  /\ dir' = NoDir
  /\ Goto(p, "stopped")
  /\ UNCHANGED <<rejoining, server, handle, rec, old>>

-----------------------------------------------------------------------------
(* The environment (external).                                              *)

Crash(p) ==
  /\ pc[p] \in CrashAt
  /\ Goto(p, "dead")
  /\ handle' = [handle EXCEPT ![p] = NoDir]
  /\ server' = [server EXCEPT ![p] = NoShim]
  /\ rejoining' = rejoining \ {p}
  /\ UNCHANGED <<dir, rec, old>>

Expire(d) == rec' = [rec EXCEPT ![d].expired = TRUE]
(* Time passes for a record nobody renews, ...                              *)
RecordExpires(d) ==
  /\ dir = d /\ rec[d].text = "whole" /\ ~rec[d].expired
  /\ pc[rec[d].owner] \notin Serving \cup {"starting"}
  /\ Expire(d)
  /\ UNCHANGED <<pc, rejoining, server, handle, dir, old>>
(* ... for a record whose owner is late, ...                                *)
RenewalLate(d) ==
  /\ ~OnTime /\ dir = d /\ rec[d].text = "whole" /\ ~rec[d].expired
  /\ pc[rec[d].owner] \in Serving \cup {"starting"}
  /\ Expire(d)
  /\ UNCHANGED <<pc, rejoining, server, handle, dir, old>>
(* ... and for the directory.                                               *)
DirAges(d) ==
  /\ dir = d /\ d \notin old
  /\ OnTime => \A p \in Shims : pc[p] \notin {"write", "fill"}
  /\ old' = old \cup {d}
  /\ UNCHANGED <<pc, rejoining, server, handle, dir, rec>>

-----------------------------------------------------------------------------
ShimStep(p) ==
  \/ Look(p) \/ Disconnected(p) \/ MakeDir(p) \/ CreateRecord(p) \/ FillRecord(p)
  \/ RemoveDir(p) \/ ReadRecord(p) \/ MoveAside(p) \/ TryAgain(p) \/ Launch(p)
  \/ Release(p)

Next ==
  \/ \E p \in Shims :
       \/ Start(p) \/ ShimStep(p) \/ GiveUp(p) \/ RenewBegin(p) \/ RenewEnd(p)
       \/ Shutdown(p) \/ ChildExits(p) \/ Crash(p)
  \/ \E d \in Dirs : RecordExpires(d) \/ RenewalLate(d) \/ DirAges(d)

Spec == Init /\ [][Next]_vars

(* Every shim that runs goes on with what it does; its timers for renewal     *)
(* and for the deadline fire; the app-server of a shim that shuts down is      *)
(* killed in the end; time passes.                                           *)
Running == Shims \ Before
Renew(p) == RenewBegin(p) \/ RenewEnd(p)
ChildKilled(p) == pc[p] = "closing" /\ ChildExits(p)
FairSpec ==
  /\ Spec
  /\ \A p \in Running :
       WF_vars(ShimStep(p)) /\ SF_vars(GiveUp(p)) /\ WF_vars(Renew(p)) /\ WF_vars(ChildKilled(p))
  /\ \A d \in Dirs : WF_vars(RecordExpires(d)) /\ WF_vars(DirAges(d))

-----------------------------------------------------------------------------
(* Every variable has its type; exactly the clients have a connection, and  *)
(* a shim that writes its first record has it open.                         *)
TypeOK ==
  /\ pc \in [Shims -> Positions]
  /\ rejoining \subseteq Shims
  /\ server \in [Shims -> Shims \cup {NoShim}]
  /\ handle \in [Shims -> Dirs \cup {NoDir}]
  /\ dir \in Dirs \cup {NoDir}
  /\ rec \in [Dirs -> Records]
  /\ old \subseteq Dirs
  /\ \A p \in Shims :
       /\ server[p] # NoShim <=> pc[p] = "client"
       /\ pc[p] = "fill" => handle[p] # NoDir

(* A record never changes hands: whatever another shim has moved aside,     *)
(* removed or made anew between two of its operations, no shim writes into  *)
(* the record of another, and so never prolongs or takes over its lease.    *)
RecordKeepsOwner ==
  [][\A d \in Dirs : rec[d].owner # NoShim =>
       rec'[d].owner \in {rec[d].owner, NoShim}]_vars

(* A shim whose record is no longer at the path stops its app-server.       *)
LostOwnerStops == \A p \in Running : pc[p] \in Serving /\ ~HoldsPath(p) ~> pc[p] \notin Serving

(* Nobody runs for owner for ever.                                          *)
EveryoneSettles ==
  \A p \in Running : pc[p] = "look" ~> pc[p] \in {"owner", "client", "stopped", "dead"}

(* docs/HOT_SWITCH.md:156: only one shim owner starts an app-server for one *)
(* CODEX_HOME.                                                              *)
OneAppServer == \A p, q \in Shims : pc[p] \in Serving /\ pc[q] \in Serving => p = q
=============================================================================
