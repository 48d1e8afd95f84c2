----------------------------- MODULE CommandBus -----------------------------
(***************************************************************************)
(* The control commands that carry a configuration to one client, and the  *)
(* receipts that come back.  The server creates a command, offers it on    *)
(* the control socket or to the client's poll, and records its delivery;   *)
(* the client pulls the snapshot, writes it and reports; receipts it       *)
(* cannot send wait in a spool on its disk.  Whoever opens the page makes  *)
(* the server sweep overdue commands and reconcile the delivery it shows.  *)
(*                                                                         *)
(* Time is reduced to what it allows: a command passes its expiry, and one *)
(* that is SENT may pass the window for its acknowledgement.               *)
(***************************************************************************)
EXTENDS Integers, Sequences, FiniteSets, Functions

CONSTANTS
  Commands,     \* numbered as they are created
  Ref,          \* the snapshot a command refers to; a repeated sync takes the same
  Carried,      \* bound: the commands of a deployment that has the control gateway
  MaxFaults     \* bound: broken connections, failed requests, crashes of the client,
                \* in a deployment with the gateway

ASSUME BusAssumption ==
  /\ Commands \subseteq Nat \ {0} /\ DOMAIN Ref = Commands
  /\ Carried \subseteq Commands
  /\ MaxFaults \in Nat

VARIABLES
  command,      \* ReliabilityCommand.status
  expired,      \* commands past expiresAt
  notify,       \* where notifyClientSync is for a command
  delivery,     \* ReliabilityConfigDelivery.status, by the command of the row
  rows,         \* the rows in the order of their creation
  shown,        \* the row that a view is about to reconcile
  gateway,      \* the deployment has the control gateway (control-server.js)
  link,         \* the control socket is up
  frames,       \* commands on the socket
  poll,         \* the client's poll and the command it will bring
  receipts,     \* receipts on their way, and how far the server got with them
  alive,        \* the client's process
  job,          \* handleCommand and executeAction, by command
  handled,      \* handledCommands
  wrote,        \* the snapshots the client ever wrote to its configuration
  spool,        \* the receipts on the client's disk
  flush,        \* a flushSpool under way
  faults

serverVars == <<command, expired, notify, delivery, rows, shown>>
wireVars == <<gateway, link, frames, poll, receipts>>
clientVars == <<alive, job, handled, wrote, spool, flush>>
vars == <<serverVars, wireVars, clientVars, faults>>

-----------------------------------------------------------------------------
TERMINAL == {"SUCCEEDED", "FAILED", "EXPIRED", "DELIVERY_FAILED"}
Undone == {"CREATED", "SENT", "RECEIVED", "RUNNING"}
Undelivered == {"DELIVERY_FAILED", "EXPIRED"}

NoCommand == 0
NoJob == [at |-> "none", via |-> "post", waits |-> FALSE]
NoPoll == [at |-> "idle", of |-> NoCommand]
NoFlush == [on |-> FALSE, entries |-> <<>>, i |-> 1, remaining |-> <<>>]

Init ==
  /\ command = [c \in Commands |-> "none"] /\ expired = {}
  /\ notify = [c \in Commands |-> "idle"]
  /\ delivery = [c \in Commands |-> "none"] /\ rows = <<>> /\ shown = NoCommand
  /\ gateway \in BOOLEAN /\ link = FALSE /\ frames = {} /\ poll = NoPoll /\ receipts = {}
  /\ alive = TRUE /\ job = [c \in Commands |-> NoJob] /\ handled = {}
  /\ wrote = {} /\ spool = <<>> /\ flush = NoFlush /\ faults = 0

Become(c, from, to) == command' = IF command[c] \in from THEN [command EXCEPT ![c] = to] ELSE command

\* updateMany over the rows of a snapshot
\* Mutant: the row is created when there is none.
DeliverUpserting(ref, from, to) ==
  delivery' = [c \in Commands |-> IF Ref[c] = ref /\ delivery[c] \in from THEN to ELSE delivery[c]]
Deliver(ref, from, to) ==
  delivery' = [c \in Commands |->
    IF c \in Range(rows) /\ Ref[c] = ref /\ delivery[c] \in from THEN to ELSE delivery[c]]
AnyRow == {delivery[c] : c \in Commands}

Fault == gateway /\ faults < MaxFaults /\ faults' = faults + 1

Latest == IF rows = <<>> THEN NoCommand ELSE rows[Len(rows)]

-----------------------------------------------------------------------------
(* The server notifies the client                                          *)

Issued(c) == (gateway => c \in Carried) /\ \A d \in Commands : d < c => notify[d] # "idle"

Create(c) ==
  /\ notify[c] = "idle" /\ alive /\ Issued(c)
  /\ command' = [command EXCEPT ![c] = "CREATED"]
  /\ notify' = [notify EXCEPT ![c] = "dispatch"]
  /\ UNCHANGED <<expired, delivery, rows, shown, wireVars, clientVars, faults>>

\* Neither a socket nor a fresh heartbeat: the row alone says so.
NotifyOffline(c) ==
  /\ notify[c] = "idle" /\ ~alive /\ ~link /\ Issued(c)
  /\ notify' = [notify EXCEPT ![c] = "done"]
  /\ delivery' = [delivery EXCEPT ![c] = "notify_failed"] /\ rows' = Append(rows, c)
  /\ UNCHANGED <<command, expired, shown, wireVars, clientVars, faults>>

\* dispatchCommand: whether the frame went out, and whether the server learns of it.
Dispatch(c) ==
  /\ notify[c] = "dispatch"
  /\ \/ ~link /\ notify' = [notify EXCEPT ![c] = "record"] /\ UNCHANGED <<frames, faults>>
     \/ /\ link /\ frames' = frames \cup {c}
        /\ \/ notify' = [notify EXCEPT ![c] = "mark"] /\ UNCHANGED faults
           \/ /\ Fault
              /\ notify' = [notify EXCEPT ![c] = "record"]
  /\ UNCHANGED <<command, expired, delivery, rows, shown, gateway, link, poll, receipts, clientVars>>

MarkSent(c) ==
  /\ notify[c] = "mark"
  /\ Become(c, {"CREATED"}, "SENT")
  /\ notify' = [notify EXCEPT ![c] = "record"]
  /\ UNCHANGED <<expired, delivery, rows, shown, wireVars, clientVars, faults>>

Record(c) ==
  /\ notify[c] = "record"
  /\ notify' = [notify EXCEPT ![c] = "done"]
  /\ delivery' = [delivery EXCEPT ![c] = "sync_notified"] /\ rows' = Append(rows, c)
  /\ UNCHANGED <<command, expired, shown, wireVars, clientVars, faults>>

-----------------------------------------------------------------------------
(* The page: sweepUnackedCommands, then reconcileDelivery                  *)

Expires(c) ==
  /\ command[c] \in Undone /\ c \notin expired
  /\ expired' = expired \cup {c}
  /\ UNCHANGED <<command, notify, delivery, rows, shown, wireVars, clientVars, faults>>

\* Mutant: a command the client once acknowledged is left to it.
SweptUnacknowledged == {"CREATED"}
Swept == {"CREATED", "RECEIVED", "RUNNING"}

\* late: the commands whose sentAt is before the acknowledgement window.
Sweep(late) ==
  /\ command' = [c \in Commands |->
       CASE c \in late /\ command[c] = "SENT" -> "DELIVERY_FAILED"
         [] c \in expired /\ command[c] \in Swept -> "EXPIRED"
         [] OTHER -> command[c]]
  /\ UNCHANGED <<expired, notify, delivery, rows, shown, wireVars, clientVars, faults>>

\* Mutant: only a missing acknowledgement is a failure to notify.
MustReconcileUnacknowledged(c) ==
  c # NoCommand /\ delivery[c] = "sync_notified" /\ command[c] = "DELIVERY_FAILED"
MustReconcile(c) ==
  c # NoCommand /\ delivery[c] = "sync_notified" /\ command[c] \in Undelivered

ViewReads ==
  /\ shown = NoCommand /\ MustReconcile(Latest) /\ shown' = Latest
  /\ UNCHANGED <<command, expired, notify, delivery, rows, wireVars, clientVars, faults>>

ViewWrites ==
  /\ shown # NoCommand /\ shown' = NoCommand
  /\ delivery' = [delivery EXCEPT ![shown] = "notify_failed"]
  /\ UNCHANGED <<command, expired, notify, rows, wireVars, clientVars, faults>>

-----------------------------------------------------------------------------
(* The server takes a receipt: applyCommandStatus, handleCommandStatus     *)

\* A receipt goes on, or has its answer; nobody waits for one from the socket.
Waited(r) == r.via \in {"post", "spool"}
Proceed(r, at) ==
  receipts' = (receipts \ {r}) \cup
    (IF at \in {"ok", "gone"} /\ ~Waited(r) THEN {} ELSE {[r EXCEPT !.at = at]})
Answered(r) == r.at \in {"ok", "gone"}
Confirm(r) == IF r.says \in {"SUCCEEDED", "FAILED"} THEN "mark" ELSE "ok"

\* What the row says now decides the way; the row may change before the next step.
LookUp(r) ==
  /\ r \in receipts /\ r.at = "sent"
  /\ Proceed(r, CASE command[r.of] \in TERMINAL -> Confirm(r)
               [] command[r.of] \notin TERMINAL /\ r.of \in expired -> "expire"
               [] OTHER -> "apply")
  /\ UNCHANGED <<serverVars, gateway, link, frames, poll, clientVars, faults>>

\* Only the receipt that expires the command is refused.
Expire(r) ==
  /\ r \in receipts /\ r.at = "expire"
  /\ Become(r.of, Undone, "EXPIRED")
  /\ Proceed(r, IF command[r.of] \in Undone THEN "gone" ELSE Confirm(r))
  /\ UNCHANGED <<expired, notify, delivery, rows, shown, gateway, link, frames, poll, clientVars, faults>>

\* Mutant: the snapshot was not terminal, so the row need not be asked again.
AllowedAnyway(says) == Undone \cup TERMINAL
Allowed(says) == IF says = "RECEIVED" THEN Undone \ {"RUNNING"} ELSE Undone

Apply(r) ==
  /\ r \in receipts /\ r.at = "apply"
  /\ Become(r.of, Allowed(r.says), r.says)
  /\ Proceed(r, Confirm(r))
  /\ UNCHANGED <<expired, notify, delivery, rows, shown, gateway, link, frames, poll, clientVars, faults>>

\* Whether or not the status was applied; executeAction calls every failure one of the pull.
Mark(r) ==
  /\ r \in receipts /\ r.at = "mark"
  /\ Deliver(Ref[r.of], AnyRow, IF r.says = "SUCCEEDED" THEN "written" ELSE "pull_failed")
  /\ Proceed(r, "ok")
  /\ UNCHANGED <<command, expired, notify, rows, shown, gateway, link, frames, poll, clientVars, faults>>

-----------------------------------------------------------------------------
(* The channels                                                            *)

Connect ==
  /\ alive /\ gateway /\ ~link /\ link' = TRUE
  /\ UNCHANGED <<serverVars, gateway, frames, poll, receipts, clientVars, faults>>

\* What is on the socket is lost, and the client's jobs turn to requests.
Cut ==
  /\ link' = FALSE /\ frames' = {}
  /\ receipts' = {r \in receipts : r.via # "socket" \/ r.at # "sent"}
OffSocket(j) == IF j.via = "socket" THEN [j EXCEPT !.via = "post"] ELSE j

Disconnect ==
  /\ link /\ Fault
  /\ Cut
  /\ job' = [c \in Commands |-> OffSocket(job[c])]
  /\ UNCHANGED <<serverVars, gateway, poll, alive, handled, wrote, spool, flush>>

\* The loop waits for the command that the last poll brought.
Poll ==
  /\ alive /\ ~link /\ poll.at = "idle"
  /\ \A c \in Commands : job[c].via = "poll" => job[c].at \in {"none", "done"}
  /\ poll' = [poll EXCEPT !.at = "waits"]
  /\ UNCHANGED <<serverVars, gateway, link, frames, receipts, clientVars, faults>>

\* claimNextCommand reads a row, and marks it SENT in a step of its own.
Claim(c) ==
  /\ poll.at = "waits" /\ command[c] = "CREATED" /\ c \notin expired
  /\ poll' = [at |-> "marks", of |-> c]
  /\ UNCHANGED <<serverVars, gateway, link, frames, receipts, clientVars, faults>>

ClaimMarks ==
  /\ poll.at = "marks"
  /\ Become(poll.of, {"CREATED"}, "SENT")
  /\ poll' = [poll EXCEPT !.at = "brings"]
  /\ UNCHANGED <<expired, notify, delivery, rows, shown, gateway, link, frames, receipts, clientVars, faults>>

PollEnds ==
  /\ poll.at \in {"waits", "brings"}
  /\ IF poll.at = "brings" THEN Fault ELSE UNCHANGED faults
  /\ poll' = NoPoll
  /\ UNCHANGED <<serverVars, gateway, link, frames, receipts, clientVars>>

-----------------------------------------------------------------------------
(* The client: handleCommand, executeAction, applyConfigSnapshot           *)

Tells == [received |-> "RECEIVED", running |-> "RUNNING", succeeded |-> "SUCCEEDED", failed |-> "FAILED"]
After == [received |-> "running", running |-> "pull", succeeded |-> "done", failed |-> "done"]
Goes(c, at) == job' = [job EXCEPT ![c].at = at, ![c].waits = FALSE]

\* Mutant: a command is remembered once its execution is over.
RecallsDone(c) == c \in handled /\ job[c].at = "done"
Recalls(c) == c \in handled

Handle(c, via) ==
  /\ handled' = handled \cup {c}
  /\ job' = IF Recalls(c) THEN job ELSE [job EXCEPT ![c] = [at |-> "received", via |-> via, waits |-> FALSE]]

FrameArrives(c) ==
  /\ c \in frames /\ frames' = frames \ {c}
  /\ Handle(c, "socket")
  /\ UNCHANGED <<serverVars, gateway, link, poll, receipts, alive, wrote, spool, flush, faults>>

PollArrives ==
  /\ poll.at = "brings" /\ poll' = NoPoll
  /\ Handle(poll.of, "poll")
  /\ UNCHANGED <<serverVars, gateway, link, frames, receipts, alive, wrote, spool, flush, faults>>

Receipt(c, via) == [of |-> c, says |-> Tells[job[c].at], via |-> via, at |-> "sent"]

\* A receipt on the socket is not waited for; a request is.
Send(c) ==
  /\ job[c].at \in DOMAIN Tells /\ ~job[c].waits
  /\ IF job[c].via = "socket"
     THEN receipts' = receipts \cup {Receipt(c, "socket")} /\ Goes(c, After[job[c].at])
     ELSE receipts' = receipts \cup {Receipt(c, "post")} /\ job' = [job EXCEPT ![c].waits = TRUE]
  /\ UNCHANGED <<serverVars, gateway, link, frames, poll, alive, handled, wrote, spool, flush, faults>>

SendAnswered(c) ==
  /\ job[c].waits
  /\ \E r \in receipts :
       /\ r.of = c /\ r.via = "post" /\ Answered(r)
       /\ receipts' = receipts \ {r}
  /\ Goes(c, After[job[c].at])
  /\ UNCHANGED <<serverVars, gateway, link, frames, poll, alive, handled, wrote, spool, flush, faults>>

\* A request that failed is spooled, whether or not the server has it.
Abandoned(r) ==
  \/ r.at = "sent" /\ receipts' = receipts \ {r}
  \/ receipts' = (receipts \ {r}) \cup (IF Answered(r) THEN {} ELSE {[r EXCEPT !.via = "orphan"]})

SendFails(c) ==
  /\ job[c].waits /\ Fault
  /\ \E r \in receipts : r.of = c /\ r.via = "post" /\ Abandoned(r)
  /\ spool' = Append(spool, [of |-> c, says |-> Tells[job[c].at]])
  /\ Goes(c, After[job[c].at])
  /\ UNCHANGED <<serverVars, gateway, link, frames, poll, alive, handled, wrote, flush>>

\* getConfigSnapshot hands the snapshot out and says so in the row.
Pull(c) ==
  /\ job[c].at = "pull"
  /\ Deliver(Ref[c], {"sync_notified", "notify_failed"}, "pulling")
  /\ Goes(c, "write")
  /\ UNCHANGED <<command, expired, notify, rows, shown, wireVars, alive, handled, wrote, spool, flush, faults>>

WriteFile(c) ==
  /\ job[c].at = "write"
  /\ wrote' = wrote \cup {Ref[c]}
  /\ Goes(c, "succeeded")
  /\ UNCHANGED <<serverVars, wireVars, alive, handled, spool, flush, faults>>

\* Pulling or writing fails.
ApplyFails(c) ==
  /\ job[c].at \in {"pull", "write"} /\ Fault
  /\ Goes(c, "failed")
  /\ UNCHANGED <<serverVars, wireVars, alive, handled, wrote, spool, flush>>

Crash ==
  /\ alive /\ Fault
  /\ alive' = FALSE /\ handled' = {} /\ flush' = NoFlush
  /\ job' = [c \in Commands |-> NoJob]
  /\ link' = FALSE /\ frames' = {} /\ poll' = NoPoll
  /\ receipts' = {[r EXCEPT !.via = "orphan"] :
                     r \in {r \in receipts : ~Answered(r) /\ (r.via # "socket" \/ r.at # "sent")}}
  /\ UNCHANGED <<serverVars, gateway, wrote, spool>>

Boot ==
  /\ ~alive /\ alive' = TRUE
  /\ UNCHANGED <<serverVars, wireVars, job, handled, wrote, spool, flush, faults>>

-----------------------------------------------------------------------------
(* flushSpool reads the spool, posts what it read, and writes what remains *)

FlushBegins ==
  /\ alive /\ ~flush.on /\ spool # <<>>
  /\ flush' = [NoFlush EXCEPT !.on = TRUE, !.entries = spool]
  /\ UNCHANGED <<serverVars, wireVars, alive, job, handled, wrote, spool, faults>>

Posted == {r \in receipts : r.via = "spool"}
FlushPosts ==
  /\ flush.on /\ flush.i <= Len(flush.entries) /\ Posted = {}
  /\ LET entry == flush.entries[flush.i] IN
       receipts' = receipts \cup {[of |-> entry.of, says |-> entry.says, via |-> "spool", at |-> "sent"]}
  /\ UNCHANGED <<serverVars, gateway, link, frames, poll, clientVars, faults>>

FlushAnswered ==
  /\ flush.on
  /\ \E r \in Posted : Answered(r) /\ receipts' = receipts \ {r}
  /\ flush' = [flush EXCEPT !.i = @ + 1]
  /\ UNCHANGED <<serverVars, gateway, link, frames, poll, alive, job, handled, wrote, spool, faults>>

\* The request is lost, or its answer: the server may have got it, and gets it again.
FlushFails ==
  /\ flush.on
  /\ \E r \in Posted : Abandoned(r)
  /\ flush' = [flush EXCEPT !.i = @ + 1, !.remaining = Append(@, flush.entries[flush.i])]
  /\ UNCHANGED <<serverVars, gateway, link, frames, poll, alive, job, handled, wrote, spool, faults>>

FlushEnds ==
  /\ flush.on /\ flush.i > Len(flush.entries)
  /\ spool' = flush.remaining /\ flush' = NoFlush
  /\ UNCHANGED <<serverVars, wireVars, alive, job, handled, wrote, faults>>

-----------------------------------------------------------------------------
(* RAS reports the version it loaded, of all that was ever there           *)

\* Mutant: the report is taken for the latest delivery.
LoadedUnversioned(ref, ok) == IF ok THEN "ras_loaded" ELSE "load_failed"
Loaded(ref, ok) == CASE Ref[Latest] # ref -> "version_mismatch"
                     [] Ref[Latest] = ref /\ ok -> "ras_loaded"
                     [] OTHER -> "load_failed"

recordConfigLoad(ref, ok) ==
  /\ rows # <<>>
  /\ IF ok THEN UNCHANGED faults ELSE Fault
  /\ delivery' = [delivery EXCEPT ![Latest] = Loaded(ref, ok)]
  /\ UNCHANGED <<command, expired, notify, rows, shown, wireVars, clientVars>>

\* The older way: RAS asks for its platform's configuration itself.
noteCapabilityIngestPull ==
  /\ \E c \in Commands : delivery[c] = "sync_notified"
  /\ delivery' = [c \in Commands |-> IF delivery[c] = "sync_notified" THEN "pulling" ELSE delivery[c]]
  /\ UNCHANGED <<command, expired, notify, rows, shown, wireVars, clientVars, faults>>

-----------------------------------------------------------------------------
Server ==
  \/ \E c \in Commands : Create(c) \/ NotifyOffline(c) \/ Dispatch(c) \/ MarkSent(c) \/ Record(c)
  \/ \E r \in receipts : LookUp(r) \/ Expire(r) \/ Apply(r) \/ Mark(r)
Page ==
  \/ \E late \in SUBSET Commands : Sweep(late)
  \/ ViewReads \/ ViewWrites
Channels ==
  \/ Connect \/ Disconnect \/ Poll \/ ClaimMarks \/ PollEnds
  \/ \E c \in Commands : Expires(c) \/ Claim(c)
Client ==
  \/ \E c \in Commands : \/ FrameArrives(c) \/ Send(c) \/ SendAnswered(c) \/ SendFails(c)
                         \/ Pull(c) \/ WriteFile(c) \/ ApplyFails(c)
  \/ PollArrives \/ Crash \/ Boot
  \/ FlushBegins \/ FlushPosts \/ FlushAnswered \/ FlushFails \/ FlushEnds
Ras == (\E ref \in wrote, ok \in BOOLEAN : recordConfigLoad(ref, ok)) \/ noteCapabilityIngestPull

Next == Server \/ Page \/ Channels \/ Client \/ Ras

Spec == Init /\ [][Next]_vars

\* Time passes, somebody keeps looking at the page, and the server goes on.
FairSpec ==
  /\ Spec
  /\ \A c \in Commands : WF_vars(Expires(c)) /\ WF_vars(MarkSent(c))
  /\ WF_vars(Sweep(Commands)) /\ WF_vars(ViewReads) /\ WF_vars(ViewWrites)

-----------------------------------------------------------------------------
(* Properties                                                              *)

Statuses == {"none"} \cup Undone \cup TERMINAL
DeliveryStatuses == {"none", "sync_notified", "pulling", "written", "ras_loaded", "notify_failed",
                     "pull_failed", "load_failed", "version_mismatch"}
Refs == Range(Ref)
Entries == [of : Commands, says : Range(Tells)]

\* Every variable stays in its domain, and a delivery has a status if and only
\* if its row was created: receipts and pulls that arrive before it create none.
TypeOK ==
  /\ command \in [Commands -> Statuses] /\ expired \subseteq Commands
  /\ notify \in [Commands -> {"idle", "dispatch", "mark", "record", "done"}]
  /\ delivery \in [Commands -> DeliveryStatuses] /\ rows \in Seq(Commands)
  /\ \A c \in Commands : delivery[c] # "none" <=> c \in Range(rows)
  /\ shown \in Commands \cup {NoCommand}
  /\ gateway \in BOOLEAN /\ link \in BOOLEAN /\ frames \subseteq Commands
  /\ poll \in [at : {"idle", "waits", "marks", "brings"}, of : Commands \cup {NoCommand}]
  /\ receipts \subseteq [of : Commands, says : Range(Tells), via : {"socket", "post", "orphan", "spool"},
                         at : {"sent", "expire", "apply", "mark", "ok", "gone"}]
  /\ alive \in BOOLEAN /\ handled \subseteq Commands
  /\ job \in [Commands -> [at : {"none", "pull", "write", "done"} \cup DOMAIN Tells,
                           via : {"socket", "post", "poll"}, waits : BOOLEAN]]
  /\ wrote \subseteq Refs
  /\ spool \in Seq(Entries)
  /\ flush \in [on : BOOLEAN, entries : Seq(Entries), i : Nat, remaining : Seq(Entries)]
  /\ faults \in 0..MaxFaults

\* The server calls a snapshot written or loaded only if the client once wrote
\* it: markDeliveryWritten and recordConfigLoad speak of rows by snapshot and by
\* latest, not by the command that did the work.
ConfirmedWasWritten ==
  \A c \in Commands : delivery[c] \in {"written", "ras_loaded"} => Ref[c] \in wrote

Rank == [none |-> 0, CREATED |-> 1, SENT |-> 2, RECEIVED |-> 3, RUNNING |-> 4,
         SUCCEEDED |-> 5, FAILED |-> 5, EXPIRED |-> 5, DELIVERY_FAILED |-> 5]

\* A command's status never goes back, and its end is final, in whatever order
\* receipts, sweeps and marks arrive, and although applyCommandStatus decides on
\* a row that it read before.
StatusMovesForward ==
  [][\A c \in Commands : /\ Rank[command'[c]] >= Rank[command[c]]
                         /\ command[c] \in TERMINAL => command'[c] = command[c]]_vars

\* A process of the client begins a command once, although the socket and the
\* poll may both bring it (handledCommands).
BegunOnce ==
  [][\A c \in Commands : job[c].at \notin {"none", "received"} => job'[c].at # "received"]_vars

\* Every command ends: a client that is gone leaves none of them undone for ever.
CommandsEnd == \A c \in Commands : command[c] \in Undone ~> command[c] \in TERMINAL

\* A page does not go on showing "notified" for a command that failed to arrive
\* (reconcileDelivery).
FailureShows ==
  \A c \in Commands :
    (Latest = c /\ delivery[c] = "sync_notified" /\ command[c] \in Undelivered)
      ~> (Latest # c \/ delivery[c] # "sync_notified")

\* A receipt in the spool is not dropped before it was posted.
SpooledIsPosted ==
  [][\A e \in Range(spool) : e \in Range(spool') \cup Range(flush.entries)]_vars
=============================================================================
