---------------------------- MODULE ImportInbox ----------------------------
(***************************************************************************)
(* The inbox of accounts to be imported                                     *)
(* (src/presentation/workbench/localImportInbox.ts).  A job is a file that   *)
(* its producer leaves as <id>.json; a host takes the lease of the inbox,     *)
(* renames one to <id>.processing, imports its accounts, writes the result    *)
(* and removes the file.  The lease runs for two minutes and is never        *)
(* renewed, so that a slow import may go on beside that of another host.      *)
(* A rename keeps the time of a file: it tells the age of the job, not how    *)
(* long it has been processed.                                              *)
(***************************************************************************)
EXTENDS Naturals, FiniteSets

CONSTANTS
  InboxHosts, NoImporter,
  ImportJobs,      \* ids of jobs, in the order of their names
  MaxInboxDeaths,  \* bound: deaths of hosts
  MaxLostResults   \* bound: results that cannot be written

ASSUME ImportInboxAssumption ==
  /\ NoImporter \notin InboxHosts /\ ImportJobs \subseteq Nat \ {0}
  /\ MaxInboxDeaths \in Nat /\ MaxLostResults \in Nat

VARIABLES
  jobFile,      \* under which name the file of each job is there
  oldJobs,      \* jobs whose file is older than STALE_PROCESSING_MS
  results,      \* jobs with a result file, whatever it says
  importer,     \* the holder of the lease
  leaseOver,    \* the holder's time is over
  inbox,        \* where each host stands, and with which job
  inboxDeaths,
  lostResults   \* jobs one of whose results could not be written

inboxVars == <<jobFile, oldJobs, results, importer, leaseOver, inbox, inboxDeaths, lostResults>>

Hosts == [at: {"rest", "requeue", "claim", "import", "result", "unlink", "release", "dead"},
          job: ImportJobs \cup {0}]
AtRest == [at |-> "rest", job |-> 0]

InboxInit ==
  /\ jobFile = [j \in ImportJobs |-> "none"]
  /\ results = {} /\ oldJobs = {} /\ lostResults = {} /\ inboxDeaths = 0
  /\ importer = NoImporter /\ leaseOver = FALSE
  /\ inbox = [h \in InboxHosts |-> AtRest]

InboxGoto(h, position) == inbox' = [inbox EXCEPT ![h].at = position]
HasJob(name) == {j \in ImportJobs : jobFile[j] = name}

(* enqueueLocalImportJob.                                                    *)
EnqueueJob ==
  /\ \E j \in HasJob("none") : jobFile' = [jobFile EXCEPT ![j] = "json"]
  /\ UNCHANGED <<oldJobs, results, importer, leaseOver, inbox, inboxDeaths, lostResults>>

(* processPendingJobs, one call at a time in each host, takes the lease or    *)
(* returns at once.                                                          *)
TakeInbox(h) ==
  /\ inbox[h].at = "rest"
  /\ leaseOver \/ importer \in {NoImporter} \cup {o \in InboxHosts : inbox[o].at = "dead"}
  /\ importer' = h /\ leaseOver' = FALSE
  /\ InboxGoto(h, "requeue")
  /\ UNCHANGED <<jobFile, oldJobs, results, inboxDeaths, lostResults>>

(* Faulty: the comparison with the cutoff is the wrong way round.             *)
FaultyStaleJobs == HasJob("processing") \ oldJobs

(* requeueStaleProcessingJobs.                                               *)
StaleJobs == HasJob("processing") \cap oldJobs
RequeueStale(h) ==
  /\ inbox[h].at = "requeue"
  /\ jobFile' = [j \in ImportJobs |-> IF j \in StaleJobs THEN "json" ELSE jobFile[j]]
  /\ InboxGoto(h, "claim")
  /\ UNCHANGED <<oldJobs, results, importer, leaseOver, inboxDeaths, lostResults>>

(* claimNextJob: the first job without a result; those before it that have    *)
(* one are removed.                                                          *)
ClaimNext(h) ==
  /\ inbox[h].at = "claim"
  /\ LET waiting == HasJob("json")
         open == waiting \ results
         first == {j \in open : \A o \in open : j <= o}
         passed == {j \in waiting \cap results : \A f \in first : j < f}
     IN /\ jobFile' = [j \in ImportJobs |-> IF j \in first THEN "processing"
                                            ELSE IF j \in passed THEN "gone" ELSE jobFile[j]]
        /\ IF first = {} THEN InboxGoto(h, "release")
           ELSE \E j \in first : inbox' = [inbox EXCEPT ![h].at = "import", ![h].job = j]
  /\ UNCHANGED <<oldJobs, results, importer, leaseOver, inboxDeaths, lostResults>>

(* The accounts are imported, or the file can no longer be read; in   *)
(* both cases there is a result.                                             *)
ImportAccounts(h) ==
  /\ inbox[h].at = "import"
  /\ InboxGoto(h, "result")
  /\ UNCHANGED <<jobFile, oldJobs, results, importer, leaseOver, inboxDeaths, lostResults>>

WriteImportResult(h) ==
  /\ inbox[h].at = "result"
  /\ \/ results' = results \cup {inbox[h].job} /\ UNCHANGED lostResults
     \/ /\ Cardinality(lostResults) < MaxLostResults
        /\ lostResults' = lostResults \cup {inbox[h].job}
        /\ UNCHANGED results
  /\ InboxGoto(h, "unlink")
  /\ UNCHANGED <<jobFile, oldJobs, importer, leaseOver, inboxDeaths>>

(* The file is removed by its name, whoever processes it now, also when the   *)
(* result could not be written.                                              *)
RemoveJob(h) ==
  /\ inbox[h].at = "unlink"
  /\ jobFile' = [jobFile EXCEPT ![inbox[h].job] = IF @ = "processing" THEN "gone" ELSE @]
  /\ InboxGoto(h, "release")
  /\ UNCHANGED <<oldJobs, results, importer, leaseOver, inboxDeaths, lostResults>>

ReleaseInbox(h) ==
  /\ inbox[h].at = "release"
  /\ importer' = IF importer = h THEN NoImporter ELSE importer
  /\ leaseOver' = (leaseOver /\ importer # h)
  /\ inbox' = [inbox EXCEPT ![h] = AtRest]
  /\ UNCHANGED <<jobFile, oldJobs, results, inboxDeaths, lostResults>>

InboxStep(h) ==
  \/ TakeInbox(h) \/ RequeueStale(h) \/ ClaimNext(h) \/ ImportAccounts(h)
  \/ WriteImportResult(h) \/ RemoveJob(h) \/ ReleaseInbox(h)

(* A window is closed or killed; another one may be opened.                   *)
ImporterDies(h) ==
  /\ inbox[h].at # "dead" /\ inboxDeaths < MaxInboxDeaths
  /\ inboxDeaths' = inboxDeaths + 1
  /\ inbox' = [inbox EXCEPT ![h] = [AtRest EXCEPT !.at = "dead"]]
  /\ UNCHANGED <<jobFile, oldJobs, results, importer, leaseOver, lostResults>>

WindowOpens(h) ==
  /\ inbox[h].at = "dead"
  /\ inbox' = [inbox EXCEPT ![h] = AtRest]
  /\ importer' = IF importer = h THEN NoImporter ELSE importer
  /\ leaseOver' = (leaseOver /\ importer # h)
  /\ UNCHANGED <<jobFile, oldJobs, results, inboxDeaths, lostResults>>

(* Time: a job gets old, a lease ends under its holder.                       *)
JobAges ==
  /\ \E j \in (HasJob("json") \cup HasJob("processing")) \ oldJobs : oldJobs' = oldJobs \cup {j}
  /\ UNCHANGED <<jobFile, results, importer, leaseOver, inbox, inboxDeaths, lostResults>>

InboxLeaseEnds ==
  /\ importer # NoImporter /\ ~leaseOver /\ leaseOver' = TRUE
  /\ UNCHANGED <<jobFile, oldJobs, results, importer, inbox, inboxDeaths, lostResults>>

InboxNext ==
  \/ EnqueueJob \/ JobAges \/ InboxLeaseEnds
  \/ \E h \in InboxHosts : InboxStep(h) \/ ImporterDies(h) \/ WindowOpens(h)

InboxSpec == InboxInit /\ [][InboxNext]_inboxVars

(* Every window polls and imports, files get older, and a window is opened    *)
(* again some time.  No host is promised the lease when another polls as well. *)
InboxFairness ==
  /\ \A h \in InboxHosts : WF_inboxVars(InboxStep(h)) /\ WF_inboxVars(WindowOpens(h))
  /\ WF_inboxVars(JobAges)

-----------------------------------------------------------------------------

InboxTypeOK ==
  /\ jobFile \in [ImportJobs -> {"none", "json", "processing", "gone"}]
  /\ results \subseteq ImportJobs
  /\ oldJobs \subseteq ImportJobs /\ lostResults \subseteq ImportJobs
  /\ importer \in InboxHosts \cup {NoImporter} /\ leaseOver \in BOOLEAN
  /\ inbox \in [InboxHosts -> Hosts] /\ inboxDeaths \in 0..MaxInboxDeaths

(* Every job comes to an end: its file, which holds credentials, is removed   *)
(* and its producer can read a result, although hosts may die between any two *)
(* steps and two may process one job when the lease has run out.  Only a      *)
(* result that cannot be written is lost with the job (line 202).             *)
Answered(j) == j \in results \/ j \in lostResults
EveryJobAnswered ==
  \A j \in ImportJobs : jobFile[j] = "json" ~> jobFile[j] = "gone" /\ Answered(j)
=============================================================================
