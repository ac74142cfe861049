------------------------------ MODULE AuditLog ------------------------------
(***************************************************************************)
(* The audit log (managers/audit/log.go): goroutines enqueue entries, one  *)
(* consumer writes them to the day's file, and Close, deferred in main,    *)
(* asks the consumer to finish.                                            *)
(*                                                                         *)
(* The queue between them is the LossyQueue that AtomicQueue implements,   *)
(* under F_DROPFULL: its worker accepts or drops what its channel holds.   *)
(* The log has its default flags: a write error panics.  A panic ends the  *)
(* process.  Only main calls Log.Panic, whose deferred Close then runs, so *)
(* that is one more reason for Close to start.                             *)
(***************************************************************************)
EXTENDS LossyQueue, Integers, Functions

CONSTANTS Clients,      \* goroutines that log
          ChannelSize,  \* buffer of the queue's channel
          MaxEntries,   \* bound on the entries, the one of Close aside
          MaxMigrations \* bound on the changes of date

ASSUME RoomAssumption == ChannelSize \in Nat \ {0}

VARIABLES
  active,    \* Log.active
  qopen,     \* the queue is not closed
  epc,       \* where each client is
  cpc,       \* where the consumer is
  entry,     \* the entry it popped
  warns,     \* warnings it has still to enqueue about the new file
  days,      \* migrations so far
  lpc,       \* where Close is
  file,      \* entries written, in order
  spent,     \* entries begun, which MaxEntries bounds
  \* history, read by the properties only
  due        \* entries accepted and not written when Close set active

clientVars == <<epc, spent>>
consumerVars == <<cpc, entry, warns, days, file>>
closeVars == <<active, qopen, lpc, due>>
logVars == <<queueVars, clientVars, consumerVars, closeVars>>

\* Mutant of LogInit: the queue is made with F_BLOCKFULL.
LogInitBlocking ==
  /\ QInit /\ blocks
  /\ active = TRUE /\ qopen = TRUE
  /\ epc = [c \in Clients |-> "idle"]
  /\ cpc = "top" /\ entry = 0 /\ warns = 0 /\ days = 0 /\ file = <<>>
  /\ lpc = "none" /\ due = {} /\ spent = 0

LogInit ==
  /\ QInit /\ ~blocks
  /\ active = TRUE /\ qopen = TRUE
  /\ epc = [c \in Clients |-> "idle"]
  /\ cpc = "top" /\ entry = 0 /\ warns = 0 /\ days = 0 /\ file = <<>>
  /\ lpc = "none" /\ due = {} /\ spent = 0
\* A panic outside main ends the process and every goroutine in it.
Crash ==
  /\ epc' = [c \in Clients |-> "gone"] /\ cpc' = "gone" /\ lpc' = "gone"
  /\ qopen' = FALSE

Crashed == cpc = "gone"
crashKeeps == <<queueVars, spent, entry, warns, days, file, active, due>>
-----------------------------------------------------------------------------
(***************************************************************************)
(* Push: entries are numbered in the order in which the channel takes them *)
(***************************************************************************)
PutEntry ==
  /\ Len(inbox) < ChannelSize
  /\ Put(1 + Len(inbox) + Len(items) + Len(taken) + dropped)

\* enqueue looks at active; a closed log prints the entry and drops it.
Enqueue(c) ==
  /\ epc[c] = "idle" /\ active /\ spent < MaxEntries
  /\ spent' = spent + 1 /\ epc' = [epc EXCEPT ![c] = "push"]
  /\ UNCHANGED <<queueVars, consumerVars, closeVars>>

\* enqueue pushes.
PushEntry(c) ==
  /\ epc[c] = "push" /\ qopen /\ PutEntry
  /\ epc' = [epc EXCEPT ![c] = "idle"]
  /\ UNCHANGED <<spent, consumerVars, closeVars>>

\* On a queue closed since, the push fails ("enqueue called on closed queue", a
\* panic) or the channel, which nobody reads any more, takes the entry.
PushLate(c) ==
  /\ epc[c] = "push" /\ ~qopen
  /\ \/ Crash
     \/ epc' = [epc EXCEPT ![c] = "idle"] /\ UNCHANGED <<cpc, lpc, qopen>>
  /\ UNCHANGED crashKeeps

\* The worker of the queue, as long as the queue is open.
QueueWorker ==
  /\ qopen /\ (Accept \/ Refuse)
  /\ UNCHANGED <<clientVars, consumerVars, closeVars>>
-----------------------------------------------------------------------------
(***************************************************************************)
(* runConsumer                                                             *)
(***************************************************************************)
\* Mutant of LoopTop: a closed log is not asked for what it still holds.
LoopTopHasty ==
  /\ cpc = "top"
  /\ cpc' = IF qopen /\ active THEN "await" ELSE "ending"
  /\ UNCHANGED <<queueVars, clientVars, entry, warns, days, file, closeVars>>

LoopTop ==
  /\ cpc = "top"
  /\ cpc' = IF ~qopen THEN "ending" ELSE IF active THEN "await" ELSE "empty"
  /\ UNCHANGED <<queueVars, clientVars, entry, warns, days, file, closeVars>>

LoopEmpty ==
  /\ cpc = "empty" /\ cpc' = IF items = <<>> THEN "ending" ELSE "await"
  /\ UNCHANGED <<queueVars, clientVars, entry, warns, days, file, closeVars>>

\* Await sleeps while the queue is empty; it is not closed before the consumer
\* has ended.  The consumer alone pops.
AwaitPop ==
  /\ cpc = "await" /\ items # <<>>
  /\ entry' = Head(items) /\ TakeFirst /\ cpc' = "write"
  /\ UNCHANGED <<clientVars, warns, days, file, closeVars>>

\* tryMigrate on a new date: two warnings, or three if the old file does not
\* close, go to the queue that the consumer itself reads.
Migrate ==
  /\ cpc = "write" /\ days < MaxMigrations /\ spent + 3 <= MaxEntries
  /\ days' = days + 1 /\ warns' \in {2, 3} /\ spent' = spent + warns' /\ cpc' = "migrate"
  /\ UNCHANGED <<queueVars, epc, entry, file, closeVars>>

\* Mutant of MigrateWarn: the entry that brought the new date is not written.
MigrateReturn ==
  /\ cpc = "migrate"
  /\ IF active THEN PutEntry ELSE UNCHANGED queueVars
  /\ warns' = warns - 1 /\ cpc' = IF warns = 1 THEN "top" ELSE "migrate"
  /\ UNCHANGED <<clientVars, entry, days, file, closeVars>>

MigrateWarn ==
  /\ cpc = "migrate"
  /\ IF active THEN PutEntry ELSE UNCHANGED queueVars
  /\ warns' = warns - 1 /\ cpc' = IF warns = 1 THEN "written" ELSE "migrate"
  /\ UNCHANGED <<clientVars, entry, days, file, closeVars>>

\* The write of doAdd or doWarn.
WriteEntry ==
  /\ cpc \in {"write", "written"}
  /\ file' = Append(file, entry) /\ entry' = 0 /\ cpc' = "top"
  /\ UNCHANGED <<queueVars, clientVars, warns, days, closeVars>>

\* handleError panics in the consumer, or, once active is unset, waits for a
\* promise nobody keeps.
WriteError ==
  /\ cpc \in {"write", "written"}
  /\ IF active THEN Crash ELSE cpc' = "stuck" /\ UNCHANGED <<epc, lpc, qopen>>
  /\ UNCHANGED crashKeeps

Consumer ==
  \/ LoopTop \/ LoopEmpty \/ AwaitPop \/ Migrate \/ MigrateWarn
  \/ WriteEntry \/ WriteError
-----------------------------------------------------------------------------
(***************************************************************************)
(* Log.Close, called once, by main                                         *)
(***************************************************************************)
StartClose ==
  /\ lpc = "none" /\ lpc' = "add"
  /\ UNCHANGED <<queueVars, clientVars, consumerVars, active, qopen, due>>

AddClosing ==
  /\ lpc = "add" /\ PutEntry /\ lpc' = "off"
  /\ UNCHANGED <<clientVars, consumerVars, active, qopen, due>>

Deactivate ==
  /\ lpc = "off" /\ active' = FALSE /\ lpc' = "wait"
  /\ due' = Range(items) \cup (IF entry = 0 THEN {} ELSE {entry})
  /\ UNCHANGED <<queueVars, clientVars, consumerVars, qopen>>

\* The consumer says that it is done; the queue and the file are closed.
Finish ==
  /\ lpc = "wait" /\ cpc = "ending"
  /\ lpc' = "closed" /\ cpc' = "done" /\ qopen' = FALSE
  /\ UNCHANGED <<queueVars, clientVars, entry, warns, days, file, active, due>>

\* After ten seconds, by which a consumer that can go on has.
Timeout ==
  /\ lpc = "wait" /\ lpc' = "timedout"
  /\ cpc = "stuck" \/ (cpc = "await" /\ items = <<>> /\ inbox = <<>>)
  /\ UNCHANGED <<queueVars, clientVars, consumerVars, active, qopen, due>>

CloseStep == AddClosing \/ Deactivate \/ Finish

LogNext ==
  \/ QueueWorker \/ Consumer \/ StartClose \/ CloseStep \/ Timeout
  \/ \E c \in Clients : Enqueue(c) \/ PushEntry(c) \/ PushLate(c)

\* Goroutines run and time passes.  Writes need not fail, nobody has to log or to
\* close.
LogFairness ==
  /\ WF_logVars(QueueWorker) /\ WF_logVars(Consumer)
  /\ WF_logVars(CloseStep) /\ WF_logVars(Timeout)
  /\ \A c \in Clients : WF_logVars(PushEntry(c) \/ PushLate(c))

LogSpec == LogInit /\ [][LogNext]_logVars /\ LogFairness
-----------------------------------------------------------------------------
LogTypeOK ==
  /\ active \in BOOLEAN /\ qopen \in BOOLEAN
  /\ epc \in [Clients -> {"idle", "push", "gone"}]
  /\ cpc \in {"top", "empty", "await", "write", "migrate", "written", "stuck", "ending", "done",
            "gone"}
  /\ warns \in 0 .. 3 /\ (cpc = "migrate" => warns > 0)
  /\ days \in 0 .. MaxMigrations
  /\ lpc \in {"none", "add", "off", "wait", "closed", "timedout", "gone"}
  /\ Range(file) \subseteq Values /\ due \subseteq Values
  /\ Len(inbox) <= ChannelSize /\ Len(items) <= Size

\* A Close that returned no error left nothing behind: whatever the queue had
\* accepted when the log was closed is in the file.
CloseFlushes == lpc = "closed" => due \subseteq Range(file)

\* Nobody who logs waits for the file, neither a client, nor the consumer when it
\* announces a new file to itself, nor Close for its last entry: the queue drops
\* instead.  And Close comes to an end: the consumer empties the queue and stops,
\* or Close does not wait for it any longer.
NobodyWaits ==
  /\ \A c \in Clients : epc[c] = "push" ~> epc[c] # "push" \/ Crashed
  /\ cpc = "migrate" ~> cpc # "migrate" \/ Crashed
  /\ lpc = "add" ~> lpc = "wait" \/ Crashed
  /\ lpc = "wait" ~> lpc \in {"closed", "timedout"} \/ Crashed

\* An entry the queue accepted is written, unless the consumer is stuck or ended.
AcceptedIsWritten ==
  \A n \in Values :
    n \in Range(items) ~> n \in Range(file) \/ Crashed \/ cpc \in {"stuck", "ending", "done"}
=============================================================================
