-------------------------- MODULE CommandBusProofs --------------------------
(***************************************************************************)
(* Theorems about CommandBus, for every number of commands, every way they *)
(* share snapshots, every bound on faults, with and without the gateway.   *)
(***************************************************************************)
EXTENDS CommandBus, SequenceTheorems, TLAPS

-----------------------------------------------------------------------------
(* The inductive invariant.  The types are split by the variables that a   *)
(* step leaves alone together.                                             *)

ServerFits ==
  /\ command \in [Commands -> Statuses] /\ expired \subseteq Commands
  /\ notify \in [Commands -> {"idle", "dispatch", "mark", "record", "done"}]
  /\ delivery \in [Commands -> DeliveryStatuses] /\ rows \in Seq(Commands)
  /\ \A c \in Commands : delivery[c] # "none" <=> c \in Range(rows)
  /\ shown \in Commands \cup {NoCommand}
  /\ shown # NoCommand => delivery[shown] # "none"
  /\ \A c \in Commands : notify[c] = "idle" => command[c] = "none"

ChannelFits ==
  /\ gateway \in BOOLEAN /\ link \in BOOLEAN /\ frames \subseteq Commands
  /\ poll \in [at : {"idle", "waits", "marks", "brings"}, of : Commands \cup {NoCommand}]
  /\ poll.at \in {"marks", "brings"} => poll.of \in Commands

Receipts == [of : Commands, says : Range(Tells), via : {"socket", "post", "orphan", "spool"},
             at : {"sent", "expire", "apply", "mark", "ok", "gone"}]
Jobs == [at : {"none", "pull", "write", "done"} \cup DOMAIN Tells,
         via : {"socket", "post", "poll"}, waits : BOOLEAN]

JobsFit ==
  /\ alive \in BOOLEAN /\ handled \subseteq Commands
  /\ job \in [Commands -> Jobs]
  /\ \A c \in Commands : /\ job[c].at # "none" => c \in handled
                         /\ job[c].waits => job[c].at \in DOMAIN Tells
  /\ wrote \subseteq Refs

SpoolFits ==
  /\ spool \in Seq(Entries)
  /\ flush \in [on : BOOLEAN, entries : Seq(Entries), i : Nat, remaining : Seq(Entries)]
  /\ flush.i >= 1

\* A flush has at most one receipt on its way, that of the entry it is at.
PostFits ==
  /\ Posted # {} => flush.on /\ flush.i <= Len(flush.entries)
  /\ \A r, s \in Posted : r = s

\* Whoever says that a command succeeded says it of a snapshot that was written.
Told(e) == e.says = "SUCCEEDED" => Ref[e.of] \in wrote
JobsTold == \A c \in Commands : job[c].at = "succeeded" => Ref[c] \in wrote
ReceiptsTold == \A r \in receipts : Told(r)
SpoolTold ==
  /\ \A k \in 1..Len(spool) : Told(spool[k])
  /\ \A k \in 1..Len(flush.entries) : Told(flush.entries[k])
  /\ \A k \in 1..Len(flush.remaining) : Told(flush.remaining[k])

Fits == /\ ServerFits /\ ChannelFits /\ receipts \subseteq Receipts /\ JobsFit /\ SpoolFits
        /\ faults \in 0..MaxFaults
SaidWasWritten == JobsTold /\ ReceiptsTold /\ SpoolTold /\ ConfirmedWasWritten

IInv == Fits /\ PostFits /\ SaidWasWritten

-----------------------------------------------------------------------------
(* Lemmas about the operators                                              *)

\* A row that is created joins the rows there are.
LEMMA RangeOfAppend ==
  ASSUME NEW S, NEW s \in Seq(S), NEW e \in S
  PROVE  /\ Append(s, e) \in Seq(S)
         /\ Range(Append(s, e)) = Range(s) \cup {e}
PROOF
  <1>1. Append(s, e) \in Seq(S)
    BY AppendProperties
  <1>2. Range(s) = {s[i] : i \in 1..Len(s)}
    BY RangeEquality
  <1>3. Range(Append(s, e)) = {Append(s, e)[i] : i \in 1..Len(Append(s, e))}
    BY <1>1, RangeEquality
  <1>4. /\ Len(Append(s, e)) = Len(s) + 1 /\ Len(s) \in Nat
        /\ \A i \in 1..Len(s) : Append(s, e)[i] = s[i]
        /\ Append(s, e)[Len(s) + 1] = e
    BY AppendProperties
  <1> QED BY <1>1, <1>2, <1>3, <1>4

\* The latest row is a row.
LEMMA LatestIsRow ==
  ASSUME ServerFits, rows # <<>>
  PROVE  Latest \in Commands /\ delivery[Latest] # "none"
PROOF
  <1>1. Len(rows) \in 1..Len(rows)
    BY DEF ServerFits
  <1>2. Latest = rows[Len(rows)] /\ Latest \in Commands
    BY <1>1 DEF Latest, ServerFits
  <1>3. Latest \in Range(rows)
    BY <1>1, <1>2, RangeEquality DEF ServerFits
  <1> QED BY <1>2, <1>3 DEF ServerFits

\* The words of the client.
LEMMA Words ==
  /\ DOMAIN Tells = {"received", "running", "succeeded", "failed"}
  /\ Range(Tells) = {"RECEIVED", "RUNNING", "SUCCEEDED", "FAILED"}
  /\ \A j \in DOMAIN Tells : /\ Tells[j] \in Range(Tells)
                             /\ Tells[j] = "SUCCEEDED" => j = "succeeded"
                             /\ After[j] \in {"running", "pull", "done"}
PROOF BY DEF Tells, After, Range

\* A receipt that goes on stays the receipt it was.
LEMMA ProceedKeeps ==
  ASSUME receipts \subseteq Receipts, NEW r \in receipts,
         NEW at \in {"expire", "apply", "mark", "ok", "gone"}, Proceed(r, at)
  PROVE  /\ receipts' \subseteq Receipts
         /\ \A s \in receipts' :
              \/ s \in receipts /\ s # r
              \/ s.of = r.of /\ s.says = r.says /\ s.via = r.via /\ s = [r EXCEPT !.at = at]
PROOF
  <1> DEFINE next == [r EXCEPT !.at = at]
  <1>1. next \in Receipts /\ next.of = r.of /\ next.says = r.says /\ next.via = r.via
    BY DEF Receipts
  <1>2. receipts' \subseteq (receipts \ {r}) \cup {next}
    BY DEF Proceed
  <1> QED BY <1>1, <1>2

\* A receipt that goes on leaves a flush with one, and true.
LEMMA ProceedFits ==
  ASSUME receipts \subseteq Receipts, NEW r \in receipts,
         NEW at \in {"expire", "apply", "mark", "ok", "gone"}, Proceed(r, at),
         UNCHANGED <<flush, wrote>>
  PROVE  /\ PostFits => PostFits'
         /\ ReceiptsTold => ReceiptsTold'
PROOF
  <1>1. \A s \in receipts' :
              \/ s \in receipts /\ s # r
              \/ s.of = r.of /\ s.says = r.says /\ s.via = r.via /\ s = [r EXCEPT !.at = at]
    BY ProceedKeeps
  <1>2. PostFits => PostFits'
    BY <1>1 DEF PostFits, Posted
  <1>3. ReceiptsTold => ReceiptsTold'
    BY <1>1 DEF ReceiptsTold, Told
  <1> QED BY <1>2, <1>3

-----------------------------------------------------------------------------
(* The server's rows                                                       *)

\* A conditional update changes the status of one command, and no new row's.
LEMMA BecomeTypes ==
  ASSUME NEW c, NEW from, NEW to \in Statuses, Become(c, from, to),
         command \in [Commands -> Statuses], "none" \notin from
  PROVE  /\ command' \in [Commands -> Statuses]
         /\ \A d \in Commands : \/ command'[d] = command[d]
                                 \/ (d = c /\ command[c] \in from /\ command'[d] = to)
PROOF BY DEF Become

\* Every step preserves what the server's rows are like.
LEMMA ServerFitsKept ==
  ASSUME IInv, Next
  PROVE  ServerFits'
PROOF
  <1> USE DEF IInv, Fits, ServerFits, NoCommand, serverVars
  <1>0. ASSUME UNCHANGED serverVars PROVE ServerFits'
    BY <1>0
  <1>1. ASSUME NEW c \in Commands, Create(c) \/ NotifyOffline(c) \/ Dispatch(c) \/ MarkSent(c) \/ Record(c)
        PROVE  ServerFits'
    <2>1. CASE Create(c)
      BY <2>1 DEF Create, Statuses, Undone
    <2>2. CASE NotifyOffline(c)
      BY <2>2, RangeOfAppend DEF NotifyOffline, DeliveryStatuses
    <2>3. CASE Dispatch(c)
      BY <2>3 DEF Dispatch
    <2>4. CASE MarkSent(c)
      BY <2>4, BecomeTypes DEF MarkSent, Statuses, Undone
    <2>5. CASE Record(c)
      BY <2>5, RangeOfAppend DEF Record, DeliveryStatuses
    <2> QED BY <1>1, <2>1, <2>2, <2>3, <2>4, <2>5
  <1>2. ASSUME NEW r \in receipts, LookUp(r) \/ Expire(r) \/ Apply(r) \/ Mark(r)
        PROVE  ServerFits'
    <2>0. r.of \in Commands /\ r.says \in Range(Tells)
      BY DEF Receipts
    <2>1. CASE LookUp(r)
      BY <1>0, <2>1 DEF LookUp
    <2>2. CASE Expire(r)
      BY <2>0, <2>2, BecomeTypes DEF Expire, Statuses, Undone, TERMINAL
    <2>3. CASE Apply(r)
      BY <2>0, <2>3, BecomeTypes, Words DEF Apply, Allowed, Statuses, Undone, TERMINAL
    <2>4. CASE Mark(r)
      BY <2>0, <2>4 DEF Mark, Deliver, AnyRow, DeliveryStatuses
    <2> QED BY <1>2, <2>1, <2>2, <2>3, <2>4
  <1>3. CASE Page
    <2>1. ASSUME NEW late \in SUBSET Commands, Sweep(late) PROVE ServerFits'
      BY <2>1 DEF Sweep, Swept, Statuses, TERMINAL, Undone
    <2>2. CASE ViewReads
      <3>1. rows # <<>>
        BY <2>2 DEF ViewReads, MustReconcile, Latest
      <3> QED BY <2>2, <3>1, LatestIsRow DEF ViewReads
    <2>3. CASE ViewWrites
      BY <2>3 DEF ViewWrites, DeliveryStatuses
    <2> QED BY <1>3, <2>1, <2>2, <2>3 DEF Page
  <1>4. CASE Channels
    <2>1. ASSUME NEW c \in Commands, Expires(c) PROVE ServerFits'
      BY <2>1 DEF Expires
    <2>2. CASE ClaimMarks
      BY <2>2, BecomeTypes DEF ClaimMarks, Statuses, Undone
    <2> QED BY <1>0, <1>4, <2>1, <2>2 DEF Channels, Connect, Disconnect, Poll, PollEnds, Claim
  <1>5. CASE Client
    <2>1. ASSUME NEW c \in Commands, Pull(c) PROVE ServerFits'
      BY <2>1 DEF Pull, Deliver, DeliveryStatuses
    <2>2. ASSUME NEW c \in Commands, \/ FrameArrives(c) \/ Send(c) \/ SendAnswered(c) \/ SendFails(c)
                                     \/ WriteFile(c) \/ ApplyFails(c)
          PROVE  UNCHANGED serverVars
      BY <2>2 DEF FrameArrives, Send, SendAnswered, SendFails, WriteFile, ApplyFails
    <2>3. CASE \/ PollArrives \/ Crash \/ Boot
               \/ FlushBegins \/ FlushPosts \/ FlushAnswered \/ FlushFails \/ FlushEnds
      BY <1>0, <2>3 DEF PollArrives, Crash, Boot, FlushBegins, FlushPosts, FlushAnswered, FlushFails, FlushEnds
    <2> QED BY <1>0, <1>5, <2>1, <2>2, <2>3 DEF Client
  <1>6. CASE Ras
    <2>1. ASSUME NEW ref \in wrote, NEW ok \in BOOLEAN, recordConfigLoad(ref, ok) PROVE ServerFits'
      <3>1. Loaded(ref, ok) \in DeliveryStatuses \ {"none"}
        BY DEF Loaded, DeliveryStatuses
      <3>2. Latest \in Commands /\ delivery[Latest] # "none"
        BY <2>1, LatestIsRow DEF recordConfigLoad
      <3> QED BY <2>1, <3>1, <3>2 DEF recordConfigLoad
    <2>2. CASE noteCapabilityIngestPull
      BY <2>2 DEF noteCapabilityIngestPull, DeliveryStatuses
    <2> QED BY <1>6, <2>1, <2>2 DEF Ras
  <1> QED BY <1>1, <1>2, <1>3, <1>4, <1>5, <1>6 DEF Next, Server

-----------------------------------------------------------------------------
(* The channels                                                            *)

\* Every step preserves what the channels are like.
LEMMA ChannelFitsKept ==
  ASSUME IInv, Next
  PROVE  ChannelFits'
PROOF
  <1> USE DEF IInv, Fits, ChannelFits, NoCommand, NoPoll, wireVars
  <1>0. ASSUME UNCHANGED <<gateway, link, frames, poll>> PROVE ChannelFits'
    BY <1>0
  <1>1. CASE Server
    <2>1. ASSUME NEW c \in Commands, Dispatch(c) PROVE ChannelFits'
      BY <2>1 DEF Dispatch
    <2> QED BY <1>0, <1>1, <2>1 DEF Server, Create, NotifyOffline, MarkSent, Record, LookUp, Expire, Apply, Mark
  <1>2. CASE Page
    BY <1>0, <1>2 DEF Page, Sweep, ViewReads, ViewWrites
  <1>3. CASE Channels
    <2>1. CASE Connect
      BY <2>1 DEF Connect
    <2>2. CASE Disconnect
      BY <2>2 DEF Disconnect, Cut
    <2>3. CASE Poll
      BY <2>3 DEF Poll
    <2>4. CASE ClaimMarks
      BY <2>4 DEF ClaimMarks
    <2>5. CASE PollEnds
      BY <2>5 DEF PollEnds
    <2>6. ASSUME NEW c \in Commands, Claim(c) PROVE ChannelFits'
      BY <2>6 DEF Claim
    <2> QED BY <1>0, <1>3, <2>1, <2>2, <2>3, <2>4, <2>5, <2>6 DEF Channels, Expires
  <1>4. CASE Client
    <2>1. ASSUME NEW c \in Commands, FrameArrives(c) PROVE ChannelFits'
      BY <2>1 DEF FrameArrives
    <2>2. CASE PollArrives
      BY <2>2 DEF PollArrives
    <2>3. CASE Crash
      BY <2>3 DEF Crash
    <2>4. ASSUME NEW c \in Commands, \/ Send(c) \/ SendAnswered(c) \/ SendFails(c) \/ Pull(c)
                                     \/ WriteFile(c) \/ ApplyFails(c)
          PROVE  ChannelFits'
      BY <1>0, <2>4 DEF Send, SendAnswered, SendFails, Pull, WriteFile, ApplyFails
    <2>5. CASE Boot \/ FlushBegins \/ FlushPosts \/ FlushAnswered \/ FlushFails \/ FlushEnds
      BY <1>0, <2>5 DEF Boot, FlushBegins, FlushPosts, FlushAnswered, FlushFails, FlushEnds
    <2> QED BY <1>4, <2>1, <2>2, <2>3, <2>4, <2>5 DEF Client
  <1>5. CASE Ras
    BY <1>0, <1>5 DEF Ras, recordConfigLoad, noteCapabilityIngestPull
  <1> QED BY <1>1, <1>2, <1>3, <1>4, <1>5 DEF Next

-----------------------------------------------------------------------------
(* The jobs of the client                                                  *)

\* A job that goes on says nothing new of what was written.
LEMMA GoesFits ==
  ASSUME JobsFit, NEW c \in Commands, NEW at \in {"none", "pull", "write", "done"} \cup DOMAIN Tells,
         Goes(c, at)
  PROVE  /\ job' \in [Commands -> Jobs]
         /\ \A d \in Commands : d # c => job'[d] = job[d]
         /\ job'[c].at = at /\ ~job'[c].waits
PROOF
  <1> DEFINE next == [[job[c] EXCEPT !.at = at] EXCEPT !.waits = FALSE]
  <1>1. job[c] \in Jobs
    BY DEF JobsFit
  <1>2. next \in Jobs /\ next.at = at /\ ~next.waits
    BY <1>1 DEF Jobs
  <1>3. job' = [job EXCEPT ![c] = next]
    BY DEF Goes, JobsFit
  <1> QED BY <1>2, <1>3 DEF JobsFit

\* A command that arrives is remembered, and begun if it was not.
LEMMA HandleFits ==
  ASSUME JobsFit, NEW c \in Commands, NEW via \in {"socket", "poll"}, Handle(c, via)
  PROVE  /\ job' \in [Commands -> Jobs] /\ handled' \subseteq Commands
         /\ \A d \in Commands : job'[d].at # "none" => d \in handled'
         /\ \A d \in Commands : \/ job'[d] = job[d]
                                \/ (job[d].at = "none" /\ job'[d].at = "received" /\ ~job'[d].waits)
PROOF
  <1> DEFINE first == [at |-> "received", via |-> via, waits |-> FALSE]
  <1>1. first \in Jobs /\ first.at = "received" /\ ~first.waits
    BY Words DEF Jobs
  <1>2. job' = job \/ (c \notin handled /\ job' = [job EXCEPT ![c] = first])
    BY DEF Handle, Recalls
  <1> QED BY <1>1, <1>2 DEF Handle, JobsFit

\* Every step preserves what the jobs are like, and what a job that succeeded wrote.
LEMMA JobsFitKept ==
  ASSUME IInv, Next
  PROVE  JobsFit' /\ JobsTold'
PROOF
  <1> USE DEF IInv, Fits, SaidWasWritten, clientVars
  <1>0. ASSUME UNCHANGED <<alive, job, handled, wrote>> PROVE JobsFit' /\ JobsTold'
    BY <1>0 DEF JobsFit, JobsTold
  <1>1. CASE Server
    BY <1>0, <1>1 DEF Server, Create, NotifyOffline, Dispatch, MarkSent, Record, LookUp, Expire, Apply, Mark
  <1>2. CASE Page
    BY <1>0, <1>2 DEF Page, Sweep, ViewReads, ViewWrites
  <1>3. CASE Channels
    <2>1. CASE Disconnect
      <3>1. \A c \in Commands : OffSocket(job[c]) \in Jobs /\ OffSocket(job[c]).at = job[c].at
                             /\ OffSocket(job[c]).waits = job[c].waits
        BY DEF OffSocket, Jobs, JobsFit
      <3> QED BY <2>1, <3>1 DEF Disconnect, JobsFit, JobsTold
    <2> QED BY <1>0, <1>3, <2>1 DEF Channels, Connect, Poll, ClaimMarks, PollEnds, Expires, Claim
  <1>4. ASSUME NEW c \in Commands,
               Send(c) \/ SendAnswered(c) \/ SendFails(c) \/ Pull(c) \/ WriteFile(c) \/ ApplyFails(c)
        PROVE  JobsFit' /\ JobsTold'
    <2>0. job[c] \in Jobs
      BY DEF JobsFit
    <2>1. CASE Send(c)
      <3>1. CASE job[c].via = "socket"
        <4>1. job[c].at \in DOMAIN Tells /\ job[c].at # "none" /\ Goes(c, After[job[c].at])
          BY <2>1, <3>1, Words DEF Send
        <4>2. After[job[c].at] \in {"running", "pull", "done"}
          BY <4>1, Words
        <4> QED BY <2>1, <4>1, <4>2, GoesFits, Words DEF Send, JobsFit, JobsTold
      <3>2. CASE job[c].via # "socket"
        <4> DEFINE next == [job[c] EXCEPT !.waits = TRUE]
        <4>1. next \in Jobs /\ next.at = job[c].at
          BY <2>0 DEF Jobs
        <4>2. job' = [job EXCEPT ![c] = next]
          BY <2>1, <3>2 DEF Send, JobsFit
        <4> QED BY <2>1, <4>1, <4>2, Words DEF Send, JobsFit, JobsTold
      <3> QED BY <3>1, <3>2
    <2>2. CASE SendAnswered(c) \/ SendFails(c)
      <3>1. job[c].at \in DOMAIN Tells
        BY <2>2 DEF SendAnswered, SendFails, JobsFit
      <3>2. After[job[c].at] \in {"running", "pull", "done"}
        BY <3>1, Words
      <3> QED BY <2>2, <3>1, <3>2, GoesFits, Words DEF SendAnswered, SendFails, JobsFit, JobsTold
    <2>3. CASE Pull(c)
      BY <2>3, GoesFits DEF Pull, JobsFit, JobsTold
    <2>4. CASE WriteFile(c)
      <3>1. Ref[c] \in Refs
        BY BusAssumption DEF Refs, Range
      <3> QED BY <2>4, <3>1, GoesFits, Words DEF WriteFile, JobsFit, JobsTold
    <2>5. CASE ApplyFails(c)
      BY <2>5, GoesFits, Words DEF ApplyFails, JobsFit, JobsTold
    <2> QED BY <1>4, <2>1, <2>2, <2>3, <2>4, <2>5
  <1>5. CASE Client
    <2>1. ASSUME NEW c \in Commands, FrameArrives(c) PROVE JobsFit' /\ JobsTold'
      BY <2>1, HandleFits DEF FrameArrives, JobsFit, JobsTold
    <2>2. CASE PollArrives
      <3>1. poll.of \in Commands
        BY <2>2 DEF PollArrives, ChannelFits
      <3> QED BY <2>2, <3>1, HandleFits DEF PollArrives, JobsFit, JobsTold
    <2>3. CASE Crash
      BY <2>3 DEF Crash, JobsFit, JobsTold, NoJob, Jobs
    <2>4. CASE Boot
      BY <2>4 DEF Boot, JobsFit, JobsTold
    <2> QED BY <1>0, <1>4, <1>5, <2>1, <2>2, <2>3, <2>4
            DEF Client, FlushBegins, FlushPosts, FlushAnswered, FlushFails, FlushEnds
  <1>6. CASE Ras
    BY <1>0, <1>6 DEF Ras, recordConfigLoad, noteCapabilityIngestPull
  <1> QED BY <1>1, <1>2, <1>3, <1>5, <1>6 DEF Next

\* What was written stays written.
LEMMA WroteGrows ==
  ASSUME Next
  PROVE  wrote \subseteq wrote'
PROOF
  <1> USE DEF clientVars
  <1>1. CASE Server \/ Page
    BY <1>1 DEF Server, Page, Create, NotifyOffline, Dispatch, MarkSent, Record, LookUp, Expire, Apply, Mark,
       Sweep, ViewReads, ViewWrites
  <1>2. CASE Channels
    BY <1>2 DEF Channels, Connect, Disconnect, Poll, ClaimMarks, PollEnds, Expires, Claim
  <1>3. CASE Client
    BY <1>3 DEF Client, FrameArrives, Send, SendAnswered, SendFails, Pull, WriteFile, ApplyFails, PollArrives,
       Crash, Boot, FlushBegins, FlushPosts, FlushAnswered, FlushFails, FlushEnds
  <1>4. CASE Ras
    BY <1>4 DEF Ras, recordConfigLoad, noteCapabilityIngestPull
  <1> QED BY <1>1, <1>2, <1>3, <1>4 DEF Next

-----------------------------------------------------------------------------
(* The spool and its flush                                                 *)

\* The entries that a flush reads and leaves were in the spool.
LEMMA AppendTold ==
  ASSUME NEW s \in Seq(Entries), NEW e \in Entries, Told(e),
         \A k \in 1..Len(s) : Told(s[k])
  PROVE  /\ Append(s, e) \in Seq(Entries)
         /\ \A k \in 1..Len(Append(s, e)) : Told(Append(s, e)[k])
PROOF
  <1>1. /\ Append(s, e) \in Seq(Entries) /\ Len(s) \in Nat
        /\ Len(Append(s, e)) = Len(s) + 1
        /\ \A i \in 1..Len(s) : Append(s, e)[i] = s[i]
        /\ Append(s, e)[Len(s) + 1] = e
    BY AppendProperties
  <1>2. ASSUME NEW k \in 1..Len(Append(s, e)) PROVE Told(Append(s, e)[k])
    <2>1. CASE k = Len(s) + 1
      BY <1>1, <2>1
    <2>2. CASE k # Len(s) + 1
      <3>1. k \in 1..Len(s)
        BY <1>1, <2>2
      <3> QED BY <1>1, <3>1
    <2> QED BY <2>1, <2>2
  <1> QED BY <1>1, <1>2

\* What a job tells, a job that succeeded tells of what it wrote.
LEMMA JobTells ==
  ASSUME JobsFit, JobsTold, NEW c \in Commands, job[c].at \in DOMAIN Tells
  PROVE  /\ Tells[job[c].at] \in Range(Tells)
         /\ Tells[job[c].at] = "SUCCEEDED" => Ref[c] \in wrote
PROOF BY Words DEF JobsTold

SpoolKept == SpoolFits /\ SpoolTold

\* Every step preserves what the spool and its flush hold.
LEMMA SpoolFitsKept ==
  ASSUME IInv, Next
  PROVE  SpoolKept'
PROOF
  <1> USE DEF IInv, Fits, SaidWasWritten, clientVars
  <1>0. wrote \subseteq wrote'
    BY WroteGrows
  <1>1. ASSUME UNCHANGED <<spool, flush>> PROVE SpoolKept'
    BY <1>0, <1>1 DEF SpoolKept, SpoolFits, SpoolTold, Told
  <1>2. CASE Server \/ Page
    BY <1>1, <1>2 DEF Server, Page, Create, NotifyOffline, Dispatch, MarkSent, Record, LookUp, Expire, Apply, Mark,
       Sweep, ViewReads, ViewWrites
  <1>3. CASE Channels
    BY <1>1, <1>3 DEF Channels, Connect, Disconnect, Poll, ClaimMarks, PollEnds, Expires, Claim
  <1>4. CASE Client
    <2>1. ASSUME NEW c \in Commands, SendFails(c) PROVE SpoolKept'
      <3> DEFINE e == [of |-> c, says |-> Tells[job[c].at]]
      <3>1. job[c].at \in DOMAIN Tells
        BY <2>1 DEF SendFails, JobsFit
      <3>2. e \in Entries /\ Told(e)
        BY <3>1, JobTells DEF Entries, Told
      <3>3. spool' = Append(spool, e) /\ UNCHANGED <<wrote, flush>>
        BY <2>1 DEF SendFails
      <3> HIDE DEF e
      <3>4. Append(spool, e) \in Seq(Entries) /\ \A k \in 1..Len(Append(spool, e)) : Told(Append(spool, e)[k])
        BY <3>2, AppendTold DEF SpoolFits, SpoolTold
      <3> QED BY <3>3, <3>4 DEF SpoolKept, SpoolFits, SpoolTold, Told
    <2>2. CASE Crash
      BY <2>2 DEF Crash, NoFlush, SpoolKept, SpoolFits, SpoolTold, Told
    <2>3. CASE FlushBegins
      <3>1. /\ flush' = [on |-> TRUE, entries |-> spool, i |-> 1, remaining |-> <<>>]
            /\ UNCHANGED <<spool, wrote>>
        BY <2>3 DEF FlushBegins, NoFlush
      <3>2. SpoolFits'
        BY <3>1 DEF SpoolFits
      <3> QED BY <3>1, <3>2 DEF SpoolKept, SpoolTold, Told
    <2>4. CASE FlushAnswered
      BY <2>4 DEF FlushAnswered, SpoolKept, SpoolFits, SpoolTold, Told
    <2>5. CASE FlushFails
      <3>1. flush.i \in 1..Len(flush.entries)
        BY <2>5 DEF FlushFails, PostFits, SpoolFits
      <3> DEFINE e == flush.entries[flush.i]
      <3>2. e \in Entries /\ Told(e)
        BY <3>1 DEF SpoolFits, SpoolTold
      <3> HIDE DEF e
      <3> DEFINE left == Append(flush.remaining, e)
      <3>3. /\ left \in Seq(Entries)
            /\ \A k \in 1..Len(left) : Told(left[k])
        BY <3>2, AppendTold DEF SpoolFits, SpoolTold
      <3>4. UNCHANGED <<wrote, spool>>
        BY <2>5 DEF FlushFails
      <3>5. flush' = [on |-> flush.on, entries |-> flush.entries, i |-> flush.i + 1, remaining |-> left]
        BY <2>5 DEF FlushFails, SpoolFits, e
      <3> HIDE DEF left
      <3>6. SpoolFits'
        BY <3>3, <3>4, <3>5 DEF SpoolFits
      <3>7. flush'.entries = flush.entries /\ flush'.remaining = left /\ UNCHANGED <<spool, wrote>>
        BY <3>4, <3>5
      <3>8. \A k \in 1..Len(left) : left[k].says = "SUCCEEDED" => Ref[left[k].of] \in wrote'
        BY <3>3, <3>4 DEF Told
      <3>9. SpoolTold'
        BY <3>7, <3>8 DEF SpoolTold, Told
      <3> QED BY <3>6, <3>9 DEF SpoolKept
    <2>6. CASE FlushEnds
      BY <2>6 DEF FlushEnds, NoFlush, SpoolKept, SpoolFits, SpoolTold, Told
    <2> QED BY <1>1, <1>4, <2>1, <2>2, <2>3, <2>4, <2>5, <2>6
            DEF Client, FrameArrives, Send, SendAnswered, Pull, WriteFile, ApplyFails, PollArrives, Boot, FlushPosts
  <1>5. CASE Ras
    BY <1>1, <1>5 DEF Ras, recordConfigLoad, noteCapabilityIngestPull
  <1> QED BY <1>2, <1>3, <1>4, <1>5 DEF Next

-----------------------------------------------------------------------------
(* The receipts                                                            *)

ReceiptsKept == receipts \subseteq Receipts /\ PostFits /\ ReceiptsTold

\* Every step preserves what the receipts are like.
LEMMA ReceiptsFitKept ==
  ASSUME IInv, Next
  PROVE  ReceiptsKept'
PROOF
  <1> USE DEF IInv, Fits, SaidWasWritten, clientVars, wireVars
  <1>0. wrote \subseteq wrote'
    BY WroteGrows
  <1>1. ASSUME UNCHANGED <<receipts, flush>> PROVE ReceiptsKept'
    BY <1>0, <1>1 DEF ReceiptsKept, PostFits, Posted, ReceiptsTold, Told
  <1>2. ASSUME NEW r \in receipts, LookUp(r) \/ Expire(r) \/ Apply(r) \/ Mark(r)
        PROVE  ReceiptsKept'
    <2>1. \E at \in {"expire", "apply", "mark", "ok", "gone"} : Proceed(r, at)
      BY <1>2 DEF LookUp, Expire, Apply, Mark, Confirm
    <2>2. UNCHANGED <<flush, wrote>>
      BY <1>2 DEF LookUp, Expire, Apply, Mark
    <2> QED BY <2>1, <2>2, ProceedKeeps, ProceedFits DEF ReceiptsKept
  <1>3. CASE Server
    BY <1>1, <1>2, <1>3 DEF Server, Create, NotifyOffline, Dispatch, MarkSent, Record
  <1>4. CASE Page
    BY <1>1, <1>4 DEF Page, Sweep, ViewReads, ViewWrites
  <1>5. ASSUME receipts' \subseteq receipts, UNCHANGED <<flush>> PROVE ReceiptsKept'
    BY <1>0, <1>5 DEF ReceiptsKept, PostFits, Posted, ReceiptsTold, Told
  <1>6. CASE Channels
    <2>1. CASE Disconnect
      BY <1>5, <2>1 DEF Disconnect, Cut
    <2> QED BY <1>1, <1>6, <2>1 DEF Channels, Connect, Poll, ClaimMarks, PollEnds, Expires, Claim
  <1>7. ASSUME NEW c \in Commands, Send(c) PROVE ReceiptsKept'
    <2>1. PICK via \in {"socket", "post"} : receipts' = receipts \cup {Receipt(c, via)}
      BY <1>7 DEF Send
    <2>2. job[c].at \in DOMAIN Tells
      BY <1>7 DEF Send
    <2>3. Receipt(c, via) \in Receipts /\ Receipt(c, via).via # "spool" /\ Told(Receipt(c, via))
      BY <2>2, JobTells DEF Receipt, Receipts, Told
    <2>4. UNCHANGED <<flush, wrote>>
      BY <1>7 DEF Send
    <2> QED BY <2>1, <2>3, <2>4 DEF ReceiptsKept, PostFits, Posted, ReceiptsTold, Told
  <1>8. ASSUME NEW c \in Commands, SendFails(c) PROVE ReceiptsKept'
    <2>1. PICK r \in receipts : r.via = "post" /\ Abandoned(r)
      BY <1>8 DEF SendFails
    <2> DEFINE orphan == [r EXCEPT !.via = "orphan"]
    <2>2. orphan \in Receipts /\ orphan.via # "spool" /\ orphan.of = r.of /\ orphan.says = r.says
      BY DEF Receipts
    <2>3. receipts' \subseteq receipts \cup {orphan}
      BY <2>1 DEF Abandoned
    <2>4. UNCHANGED <<flush, wrote>>
      BY <1>8 DEF SendFails
    <2> HIDE DEF orphan
    <2> QED BY <2>2, <2>3, <2>4 DEF ReceiptsKept, PostFits, Posted, ReceiptsTold, Told
  <1>9. CASE Crash
    <2>1. \A s \in receipts' : \E r \in receipts : s = [r EXCEPT !.via = "orphan"]
      BY <1>9 DEF Crash
    <2>2. ASSUME NEW s \in receipts'
          PROVE  s \in Receipts /\ s.via # "spool" /\ Told(s)
      <3>1. PICK r \in receipts : s = [r EXCEPT !.via = "orphan"]
        BY <2>1
      <3>2. s \in Receipts /\ s.via = "orphan" /\ s.of = r.of /\ s.says = r.says
        BY <3>1 DEF Receipts
      <3> QED BY <3>2 DEF ReceiptsTold, Told
    <2>3. UNCHANGED wrote
      BY <1>9 DEF Crash
    <2> QED BY <2>2, <2>3 DEF ReceiptsKept, PostFits, Posted, ReceiptsTold, Told
  <1>10. CASE FlushPosts
    <2>1. flush.i \in 1..Len(flush.entries)
      BY <1>10 DEF FlushPosts, SpoolFits
    <2> DEFINE e == flush.entries[flush.i]
               r == [of |-> e.of, says |-> e.says, via |-> "spool", at |-> "sent"]
    <2>2. e \in Entries /\ Told(e)
      BY <2>1 DEF SpoolFits, SpoolTold
    <2>3. r \in Receipts /\ Told(r)
      BY <2>2 DEF Entries, Receipts, Told
    <2>4. /\ receipts' = receipts \cup {r} /\ UNCHANGED <<flush, wrote>>
          /\ flush.on /\ flush.i <= Len(flush.entries) /\ Posted = {}
      BY <1>10 DEF FlushPosts
    <2> HIDE DEF r
    <2> QED BY <2>3, <2>4 DEF ReceiptsKept, PostFits, Posted, ReceiptsTold, Told
  <1>11. CASE FlushBegins \/ FlushAnswered \/ FlushEnds
    <2>1. receipts' \subseteq receipts /\ UNCHANGED wrote
      BY <1>11 DEF FlushBegins, FlushAnswered, FlushEnds
    <2>2. Posted' = {}
      <3>1. CASE FlushBegins \/ FlushEnds
        BY <3>1 DEF FlushBegins, FlushEnds, PostFits, Posted, SpoolFits, NoFlush
      <3>2. CASE FlushAnswered
        BY <3>2 DEF FlushAnswered, PostFits, Posted
      <3> QED BY <1>11, <3>1, <3>2
    <2> QED BY <2>1, <2>2 DEF ReceiptsKept, PostFits, ReceiptsTold, Told
  <1>12. CASE FlushFails
    <2>1. PICK r \in Posted : Abandoned(r)
      BY <1>12 DEF FlushFails
    <2> DEFINE orphan == [r EXCEPT !.via = "orphan"]
    <2>2. r \in Receipts /\ Told(r)
      BY <2>1 DEF Posted, ReceiptsTold
    <2>3. orphan \in Receipts /\ orphan.via # "spool" /\ orphan.of = r.of /\ orphan.says = r.says
      BY <2>2 DEF Receipts
    <2>4. receipts' \subseteq (receipts \ {r}) \cup {orphan}
      BY <2>1 DEF Abandoned
    <2>5. UNCHANGED wrote
      BY <1>12 DEF FlushFails
    <2> HIDE DEF orphan
    <2>6. Posted' = {}
      BY <2>1, <2>3, <2>4 DEF PostFits, Posted
    <2> QED BY <2>2, <2>3, <2>4, <2>5, <2>6 DEF ReceiptsKept, PostFits, ReceiptsTold, Told
  <1>13. CASE Client
    <2>1. ASSUME NEW c \in Commands, SendAnswered(c) PROVE ReceiptsKept'
      BY <1>5, <2>1 DEF SendAnswered
    <2> QED BY <1>1, <1>7, <1>8, <1>9, <1>10, <1>11, <1>12, <1>13, <2>1
            DEF Client, FrameArrives, Pull, WriteFile, ApplyFails, PollArrives, Boot
  <1>14. CASE Ras
    BY <1>1, <1>14 DEF Ras, recordConfigLoad, noteCapabilityIngestPull
  <1> QED BY <1>3, <1>4, <1>6, <1>13, <1>14 DEF Next

-----------------------------------------------------------------------------
(* Confirmed deliveries, and the bound on faults                           *)

\* Who sets a delivery to written or loaded knows of a snapshot that was written.
LEMMA ConfirmedKept ==
  ASSUME IInv, Next
  PROVE  ConfirmedWasWritten'
PROOF
  <1> USE DEF IInv, Fits, SaidWasWritten, ConfirmedWasWritten, serverVars, clientVars
  <1>0. wrote \subseteq wrote'
    BY WroteGrows
  <1>1. ASSUME UNCHANGED delivery PROVE ConfirmedWasWritten'
    BY <1>0, <1>1
  <1>2. ASSUME NEW c \in Commands, NotifyOffline(c) \/ Record(c) PROVE ConfirmedWasWritten'
    BY <1>2 DEF NotifyOffline, Record, ServerFits
  <1>3. ASSUME NEW r \in receipts, Mark(r) PROVE ConfirmedWasWritten'
    BY <1>3 DEF Mark, Deliver, AnyRow, ReceiptsTold, Told
  <1>4. CASE Server
    BY <1>1, <1>2, <1>3, <1>4 DEF Server, Create, Dispatch, MarkSent, LookUp, Expire, Apply
  <1>5. CASE Page
    <2>1. CASE ViewWrites
      BY <2>1 DEF ViewWrites, ServerFits
    <2> QED BY <1>1, <1>5, <2>1 DEF Page, Sweep, ViewReads
  <1>6. CASE Channels
    BY <1>1, <1>6 DEF Channels, Connect, Disconnect, Poll, ClaimMarks, PollEnds, Expires, Claim
  <1>7. CASE Client
    <2>1. ASSUME NEW c \in Commands, Pull(c) PROVE ConfirmedWasWritten'
      BY <2>1 DEF Pull, Deliver
    <2> QED BY <1>1, <1>7, <2>1 DEF Client, FrameArrives, Send, SendAnswered, SendFails, WriteFile, ApplyFails,
           PollArrives, Crash, Boot, FlushBegins, FlushPosts, FlushAnswered, FlushFails, FlushEnds
  <1>8. CASE Ras
    <2>1. ASSUME NEW ref \in wrote, NEW ok \in BOOLEAN, recordConfigLoad(ref, ok) PROVE ConfirmedWasWritten'
      <3>1. Loaded(ref, ok) \in {"written", "ras_loaded"} => Ref[Latest] = ref
        BY DEF Loaded
      <3>2. delivery' = [delivery EXCEPT ![Latest] = Loaded(ref, ok)] /\ UNCHANGED wrote
        BY <2>1 DEF recordConfigLoad
      <3> QED BY <3>1, <3>2 DEF ServerFits
    <2>2. CASE noteCapabilityIngestPull
      BY <2>2 DEF noteCapabilityIngestPull, ServerFits
    <2> QED BY <1>8, <2>1, <2>2 DEF Ras
  <1> QED BY <1>4, <1>5, <1>6, <1>7, <1>8 DEF Next

\* Faults stay within their bound.
LEMMA FaultsKept ==
  ASSUME faults \in 0..MaxFaults, Next
  PROVE  faults' \in 0..MaxFaults
PROOF
  <1> USE BusAssumption
  <1>1. ASSUME UNCHANGED faults \/ Fault PROVE faults' \in 0..MaxFaults
    BY <1>1 DEF Fault
  <1>2. CASE Server
    BY <1>1, <1>2 DEF Server, Create, NotifyOffline, Dispatch, MarkSent, Record, LookUp, Expire, Apply, Mark
  <1>3. CASE Page
    BY <1>1, <1>3 DEF Page, Sweep, ViewReads, ViewWrites
  <1>4. CASE Channels
    BY <1>1, <1>4 DEF Channels, Connect, Disconnect, Poll, ClaimMarks, PollEnds, Expires, Claim
  <1>5. CASE Client
    BY <1>1, <1>5 DEF Client, FrameArrives, Send, SendAnswered, SendFails, Pull, WriteFile, ApplyFails, PollArrives,
       Crash, Boot, FlushBegins, FlushPosts, FlushAnswered, FlushFails, FlushEnds
  <1>6. CASE Ras
    BY <1>1, <1>6 DEF Ras, recordConfigLoad, noteCapabilityIngestPull
  <1> QED BY <1>2, <1>3, <1>4, <1>5, <1>6 DEF Next

-----------------------------------------------------------------------------
(* The theorems                                                            *)

\* The invariant holds at first.
LEMMA InitFits == Init => IInv
PROOF
  <1> SUFFICES ASSUME Init PROVE IInv
    OBVIOUS
  <1> USE DEF Init, NoCommand, NoPoll, NoFlush, NoJob
  <1>1. ServerFits
    BY DEF ServerFits, Statuses, DeliveryStatuses, Range
  <1>2. ChannelFits /\ JobsFit
    BY DEF ChannelFits, JobsFit, Jobs
  <1>3. SpoolFits /\ SpoolTold
    BY DEF SpoolFits, SpoolTold
  <1>4. PostFits /\ receipts \subseteq Receipts /\ ReceiptsTold
    BY DEF PostFits, Posted, ReceiptsTold
  <1>5. faults \in 0..MaxFaults
    BY BusAssumption
  <1>6. JobsTold /\ ConfirmedWasWritten
    BY DEF JobsTold, ConfirmedWasWritten
  <1> QED BY <1>1, <1>2, <1>3, <1>4, <1>5, <1>6 DEF IInv, Fits, SaidWasWritten

\* Every step preserves the invariant.
LEMMA NextFits == IInv /\ [Next]_vars => IInv'
PROOF
  <1>1. CASE UNCHANGED vars
    BY <1>1 DEF vars, serverVars, wireVars, clientVars, IInv, Fits, ServerFits, ChannelFits, JobsFit, SpoolFits, PostFits,
       Posted, SaidWasWritten, JobsTold, ReceiptsTold, SpoolTold, Told, ConfirmedWasWritten
  <1>2. ASSUME IInv, Next PROVE IInv'
    BY <1>2, ServerFitsKept, ChannelFitsKept, JobsFitKept, SpoolFitsKept, ReceiptsFitKept, ConfirmedKept, FaultsKept
       DEF IInv, Fits, SaidWasWritten, SpoolKept, ReceiptsKept
  <1> QED BY <1>1, <1>2

\* The inductive invariant holds of every reachable state.
THEOREM Invariance == Spec => []IInv
PROOF
  <1> QED BY InitFits, NextFits, PTL DEF Spec

\* Every variable stays in its domain, and a delivery has a status if and only
\* if its row was created.
THEOREM TypeCorrect == Spec => []TypeOK
PROOF
  <1>1. IInv => TypeOK
    BY DEF IInv, Fits, ServerFits, ChannelFits, JobsFit, SpoolFits, Receipts, Jobs, TypeOK
  <1> QED BY <1>1, Invariance, PTL

\* A snapshot is called written or loaded only if the client once wrote it,
\* whoever's receipt or report said so, and whatever was lost before.
THEOREM ConfirmedOnlyIfWritten == Spec => []ConfirmedWasWritten
PROOF
  <1>1. IInv => ConfirmedWasWritten
    BY DEF IInv, SaidWasWritten
  <1> QED BY <1>1, Invariance, PTL

Forward(c) == /\ Rank[command'[c]] >= Rank[command[c]]
              /\ command[c] \in TERMINAL => command'[c] = command[c]

\* No step takes a status back.
LEMMA ForwardStep ==
  ASSUME IInv, Next, NEW d \in Commands
  PROVE  Forward(d)
PROOF
  <1> USE DEF IInv, Fits, serverVars
  <1>0. command[d] \in Statuses
    BY DEF ServerFits
  <1>1. ASSUME UNCHANGED command PROVE Forward(d)
    BY <1>0, <1>1 DEF Forward, Rank, Statuses, Undone, TERMINAL
  <1>2. ASSUME NEW c \in Commands, Create(c) PROVE Forward(d)
    BY <1>0, <1>2 DEF Create, Forward, Rank, Statuses, Undone, TERMINAL, ServerFits
  <1>3. ASSUME NEW c, Become(c, {"CREATED"}, "SENT") PROVE Forward(d)
    BY <1>0, <1>3 DEF Become, Forward, Rank, Statuses, Undone, TERMINAL, ServerFits
  <1>4. ASSUME NEW r \in receipts, Expire(r) \/ Apply(r) PROVE Forward(d)
    <2>1. r.says \in {"RECEIVED", "RUNNING", "SUCCEEDED", "FAILED"}
      BY Words DEF Receipts
    <2>2. CASE Expire(r)
      BY <1>0, <2>2 DEF Expire, Become, Forward, Rank, Statuses, Undone, TERMINAL, ServerFits
    <2>3. CASE Apply(r)
      <3>1. command'[d] = command[d] \/ (command[d] \in Allowed(r.says) /\ command'[d] = r.says)
        BY <2>3 DEF Apply, Become, ServerFits
      <3> QED BY <1>0, <2>1, <3>1 DEF Allowed, Forward, Rank, Statuses, Undone, TERMINAL
    <2> QED BY <1>4, <2>2, <2>3
  <1>5. CASE Server
    BY <1>1, <1>2, <1>3, <1>4, <1>5 DEF Server, NotifyOffline, Dispatch, MarkSent, Record, LookUp, Mark
  <1>6. CASE Page
    <2>1. ASSUME NEW late \in SUBSET Commands, Sweep(late) PROVE Forward(d)
      <3>1. \/ command'[d] = command[d]
            \/ (command[d] = "SENT" /\ command'[d] = "DELIVERY_FAILED")
            \/ (command[d] \in Swept /\ command'[d] = "EXPIRED")
        BY <2>1 DEF Sweep
      <3> QED BY <1>0, <3>1 DEF Swept, Forward, Rank, Statuses, Undone, TERMINAL
    <2> QED BY <1>1, <1>6, <2>1 DEF Page, ViewReads, ViewWrites
  <1>7. CASE Channels
    BY <1>1, <1>3, <1>7 DEF Channels, Connect, Disconnect, Poll, ClaimMarks, PollEnds, Expires, Claim
  <1>8. CASE Client
    BY <1>1, <1>8 DEF Client, FrameArrives, Send, SendAnswered, SendFails, Pull, WriteFile, ApplyFails, PollArrives,
       Crash, Boot, FlushBegins, FlushPosts, FlushAnswered, FlushFails, FlushEnds
  <1>9. CASE Ras
    BY <1>1, <1>9 DEF Ras, recordConfigLoad, noteCapabilityIngestPull
  <1> QED BY <1>5, <1>6, <1>7, <1>8, <1>9 DEF Next

\* A command's status never goes back, and its end is final, whatever order
\* receipts, sweeps and marks arrive in.
THEOREM StatusForward == Spec => StatusMovesForward
PROOF
  <1>1. IInv /\ [Next]_vars => [\A c \in Commands : Forward(c)]_vars
    BY ForwardStep
  <1> QED BY <1>1, Invariance, PTL DEF Spec, StatusMovesForward, Forward

\* No step begins a command that is under way.
LEMMA BegunStep ==
  ASSUME IInv, Next, NEW d \in Commands, job[d].at \notin {"none", "received"}
  PROVE  job'[d].at # "received"
PROOF
  <1> USE DEF IInv, Fits, clientVars
  <1>1. CASE UNCHANGED job
    BY <1>1
  <1>2. ASSUME NEW c \in Commands,
               Send(c) \/ SendAnswered(c) \/ SendFails(c) \/ Pull(c) \/ WriteFile(c) \/ ApplyFails(c)
        PROVE  job'[d].at # "received"
    <2>1. CASE \E at \in {"running", "pull", "write", "succeeded", "failed", "done"} : Goes(c, at)
      BY <2>1, GoesFits, Words
    <2>2. CASE job' = [job EXCEPT ![c].waits = TRUE]
      BY <2>2 DEF JobsFit, Jobs
    <2>3. CASE Send(c)
      BY <2>1, <2>2, <2>3, Words DEF Send
    <2>4. CASE SendAnswered(c) \/ SendFails(c)
      BY <2>1, <2>4, Words DEF SendAnswered, SendFails, JobsFit
    <2> QED BY <1>2, <2>1, <2>3, <2>4 DEF Pull, WriteFile, ApplyFails
  <1>3. ASSUME NEW c \in Commands, FrameArrives(c) PROVE job'[d].at # "received"
    BY <1>3, HandleFits DEF FrameArrives
  <1>4. CASE PollArrives
    BY <1>4, HandleFits DEF PollArrives, ChannelFits
  <1>5. CASE Crash
    BY <1>5 DEF Crash, NoJob
  <1>6. CASE Disconnect
    BY <1>6 DEF Disconnect, OffSocket, JobsFit, Jobs
  <1>7. CASE Server \/ Page
    BY <1>1, <1>7 DEF Server, Page, Create, NotifyOffline, Dispatch, MarkSent, Record, LookUp, Expire, Apply, Mark,
       Sweep, ViewReads, ViewWrites
  <1>8. CASE Channels
    BY <1>1, <1>6, <1>8 DEF Channels, Connect, Poll, ClaimMarks, PollEnds, Expires, Claim
  <1>9. CASE Client
    BY <1>1, <1>2, <1>3, <1>4, <1>5, <1>9
       DEF Client, Boot, FlushBegins, FlushPosts, FlushAnswered, FlushFails, FlushEnds
  <1>10. CASE Ras
    BY <1>1, <1>10 DEF Ras, recordConfigLoad, noteCapabilityIngestPull
  <1> QED BY <1>7, <1>8, <1>9, <1>10 DEF Next

\* A process of the client begins a command once, although the socket and the
\* poll may both bring it.
THEOREM CommandBegunOnce == Spec => BegunOnce
PROOF
  <1>1. IInv /\ [Next]_vars
          => [\A c \in Commands : job[c].at \notin {"none", "received"} => job'[c].at # "received"]_vars
    BY BegunStep
  <1> QED BY <1>1, Invariance, PTL DEF Spec, BegunOnce
=============================================================================
