----------------------------- MODULE FileLease -----------------------------
(***************************************************************************)
(* The lease directories with which the extension hosts and the daemon      *)
(* exclude each other (src/storage/accountsWriteCoordinator.ts): a lock is a *)
(* directory, its holder the token in the directory's owner.json.  Each     *)
(* caller makes one call of tryAcquireSharedFileLease, works, renews and     *)
(* releases.  A directory keeps its identity when its path is taken by       *)
(* another one, so that an open file is still the old one.                   *)
(***************************************************************************)
EXTENDS Naturals, FiniteSets

CONSTANTS
  Callers,   \* calls of tryAcquireSharedFileLease
  Remote,    \* those made on another machine, whose pid means nothing here
  LockDirs,  \* identities of directories
  NoLock, NoCaller

ASSUME FileLeaseAssumption ==
  Remote \subseteq Callers /\ NoLock \notin LockDirs /\ NoCaller \notin Callers

VARIABLES
  lockPath,   \* the directory at the path of the lock
  lockDir,    \* contents of each directory
  lpc,        \* where each caller stands
  lockFile,   \* the directory whose owner.json a caller has open
  leaseLost,  \* callers whose renewal was refused
  foundStale  \* somebody has once found a lease to be stale

leaseVars == <<lockPath, lockDir, lpc, lockFile, leaseLost, foundStale>>

LeasePositions ==
  {"make", "open", "fill", "undo", "judge", "rename", "wait", "have", "remove",
   "done", "none", "dead"}

(* An owner.json is missing, torn (created or truncated, not yet written) or *)
(* whole; its time has passed or not.  The time of a directory is that of    *)
(* its last new entry.                                                       *)
LockContents ==
  [owner: Callers \cup {NoCaller}, text: {"none", "torn", "whole"},
   expired: BOOLEAN, aged: BOOLEAN]

EmptyLock == [owner |-> NoCaller, text |-> "none", expired |-> FALSE, aged |-> FALSE]

LeaseInit ==
  /\ lockPath = NoLock
  /\ lockDir = [d \in LockDirs |-> EmptyLock]
  /\ lpc = [c \in Callers |-> "make"]
  /\ lockFile = [c \in Callers |-> NoLock]
  /\ leaseLost = {}
  /\ foundStale = FALSE

LeaseGoto(c, position) == lpc' = [lpc EXCEPT ![c] = position]

(* Faulty: mkdir takes a directory that exists for its own.                   *)
FaultyMakeLock(c) ==
  /\ lpc[c] = "make"
  /\ \E d \in LockDirs :
       /\ lockPath # NoLock => d = lockPath
       /\ lockPath = NoLock => \A o \in Callers : lockFile[o] # d
       /\ lockPath' = d
       /\ lockDir' = IF lockPath = NoLock THEN [lockDir EXCEPT ![d] = EmptyLock] ELSE lockDir
       /\ LeaseGoto(c, "open")
  /\ UNCHANGED <<lockFile, leaseLost, foundStale>>

(* mkdir, the first step of every attempt, and again after each reap.        *)
MakeLock(c) ==
  /\ lpc[c] = "make"
  /\ IF lockPath # NoLock
       THEN LeaseGoto(c, "judge") /\ UNCHANGED <<lockPath, lockDir>>
       ELSE \E d \in LockDirs :
              /\ \A o \in Callers : lockFile[o] # d
              /\ lockPath' = d
              /\ lockDir' = [lockDir EXCEPT ![d] = EmptyLock]
              /\ LeaseGoto(c, "open")
  /\ UNCHANGED <<lockFile, leaseLost, foundStale>>

(* writeFile opens owner.json by its path, whatever directory is there now.  *)
OpenOwnerFile(c) ==
  /\ lpc[c] = "open"
  /\ IF lockPath = NoLock
       THEN LeaseGoto(c, "undo") /\ UNCHANGED <<lockDir, lockFile>>
       ELSE /\ lockDir' = [lockDir EXCEPT ![lockPath] =
                             [EmptyLock EXCEPT !.text = "torn",
                                !.aged = lockDir[lockPath].aged /\ lockDir[lockPath].text # "none"]]
            /\ lockFile' = [lockFile EXCEPT ![c] = lockPath]
            /\ LeaseGoto(c, "fill")
  /\ UNCHANGED <<lockPath, leaseLost, foundStale>>

Written(c, d) ==
  lockDir' = [lockDir EXCEPT ![d] = [@ EXCEPT !.owner = c, !.text = "whole", !.expired = FALSE]]

FillOwnerFile(c) ==
  /\ lpc[c] = "fill"
  /\ Written(c, lockFile[c])
  /\ lockFile' = [lockFile EXCEPT ![c] = NoLock]
  /\ LeaseGoto(c, "have")
  /\ UNCHANGED <<lockPath, leaseLost, foundStale>>

(* The rm of a failed write, and of a release, is by path as well.           *)
RemoveLock(c) ==
  /\ lpc[c] \in {"undo", "remove"}
  /\ lockPath' = NoLock
  /\ LeaseGoto(c, "done")
  /\ UNCHANGED <<lockDir, lockFile, leaseLost, foundStale>>

(* isExpiredOrDeadLeaseOwner, and without a readable owner the directory's   *)
(* age.                                                                      *)
StaleLease(c, d) ==
  LET r == lockDir[d] IN
  IF r.text = "whole"
    THEN \/ r.expired
         \/ lpc[r.owner] = "dead" /\ (c \in Remote <=> r.owner \in Remote)
    ELSE r.aged

JudgeLease(c) ==
  /\ lpc[c] = "judge"
  /\ LET stale == lockPath # NoLock /\ StaleLease(c, lockPath) IN
     /\ LeaseGoto(c, IF lockPath = NoLock THEN "make" ELSE IF stale THEN "rename" ELSE "wait")
     /\ foundStale' = (foundStale \/ stale)
  /\ UNCHANGED <<lockPath, lockDir, lockFile, leaseLost>>

(* The directory renamed is the one there now, not the one judged.           *)
RenameStale(c) ==
  /\ lpc[c] = "rename"
  /\ lockPath' = NoLock
  /\ LeaseGoto(c, "make")
  /\ UNCHANGED <<lockDir, lockFile, leaseLost, foundStale>>

(* Before the deadline a caller tries again, after it it has no lease.       *)
WaitForLease(c) ==
  /\ lpc[c] = "wait"
  /\ LeaseGoto(c, "make")
  /\ UNCHANGED <<lockPath, lockDir, lockFile, leaseLost, foundStale>>

LeaseDeadline(c) ==
  /\ lpc[c] = "wait"
  /\ LeaseGoto(c, "none")
  /\ UNCHANGED <<lockPath, lockDir, lockFile, leaseLost, foundStale>>

(* renewSharedFileLease opens, checks and truncates the file, and writes it. *)
RenewLease(c) ==
  /\ lpc[c] = "have" /\ lockFile[c] = NoLock /\ c \notin leaseLost
  /\ IF lockPath # NoLock /\ lockDir[lockPath].text = "whole"
          /\ lockDir[lockPath].owner = c /\ ~lockDir[lockPath].expired
       THEN /\ lockDir' = [lockDir EXCEPT ![lockPath].text = "torn"]
            /\ lockFile' = [lockFile EXCEPT ![c] = lockPath]
            /\ UNCHANGED leaseLost
       ELSE leaseLost' = leaseLost \cup {c} /\ UNCHANGED <<lockDir, lockFile>>
  /\ UNCHANGED <<lockPath, lpc, foundStale>>

RenewWrite(c) ==
  /\ lpc[c] \in {"have", "remove", "done"} /\ lockFile[c] # NoLock
  /\ Written(c, lockFile[c])
  /\ lockFile' = [lockFile EXCEPT ![c] = NoLock]
  /\ UNCHANGED <<lockPath, lpc, leaseLost, foundStale>>

(* releaseSharedFileLease; a renewal may still be under way.                 *)
ReleaseLease(c) ==
  /\ lpc[c] = "have"
  /\ LeaseGoto(c, IF lockPath # NoLock /\ lockDir[lockPath].text = "whole"
                       /\ lockDir[lockPath].owner = c
                    THEN "remove" ELSE "done")
  /\ UNCHANGED <<lockPath, lockDir, lockFile, leaseLost, foundStale>>

CallerDies(c) ==
  /\ lpc[c] \notin {"done", "none", "dead"}
  /\ LeaseGoto(c, "dead")
  /\ lockFile' = [lockFile EXCEPT ![c] = NoLock]
  /\ UNCHANGED <<lockPath, lockDir, leaseLost, foundStale>>

(* Time passes.  A holder that works on for too long is not spared.          *)
LeaseTime ==
  /\ lockPath # NoLock
  /\ \/ /\ lockDir[lockPath].text = "whole" /\ ~lockDir[lockPath].expired
        /\ lockDir' = [lockDir EXCEPT ![lockPath].expired = TRUE]
     \/ /\ ~lockDir[lockPath].aged
        /\ lockDir' = [lockDir EXCEPT ![lockPath].aged = TRUE]
  /\ UNCHANGED <<lockPath, lpc, lockFile, leaseLost, foundStale>>

CallerStep(c) ==
  \/ MakeLock(c) \/ OpenOwnerFile(c) \/ FillOwnerFile(c) \/ RemoveLock(c)
  \/ JudgeLease(c) \/ RenameStale(c) \/ WaitForLease(c) \/ LeaseDeadline(c)
  \/ RenewWrite(c) \/ ReleaseLease(c)

LeaseNext ==
  \/ \E c \in Callers : CallerStep(c) \/ RenewLease(c) \/ CallerDies(c)
  \/ LeaseTime

LeaseSpec == LeaseInit /\ [][LeaseNext]_leaseVars

-----------------------------------------------------------------------------

LeaseTypeOK ==
  /\ lockPath \in LockDirs \cup {NoLock}
  /\ lockDir \in [LockDirs -> LockContents]
  /\ lpc \in [Callers -> LeasePositions]
  /\ lockFile \in [Callers -> LockDirs \cup {NoLock}]
  /\ leaseLost \subseteq Callers
  /\ foundStale \in BOOLEAN

(* As long as nobody has found a lease stale, at most one caller works under *)
(* it, whoever dies, releases, renews or fails to write at any point: mkdir  *)
(* admits one, and the rm by path reaches only one's own directory.          *)
HoldsLease(c) == lpc[c] = "have"
LeaseExclusive ==
  ~foundStale => \A c, o \in Callers : HoldsLease(c) /\ HoldsLease(o) => c = o
=============================================================================
