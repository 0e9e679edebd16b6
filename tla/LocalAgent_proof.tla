-------------------------- MODULE LocalAgent_proof --------------------------
(***************************************************************************)
(* Proofs about LocalAgent, for any number of turns, calls and events.     *)
(*                                                                         *)
(* The invariant gives every run a place in its turn: past, current or     *)
(* future.  A future run is untouched, a past one has nothing left to do,  *)
(* and only the current one may have events, calls and a process.  What    *)
(* is queued or on its way are different calls of the run that did not run *)
(* yet, so that each is counted once, when it starts.  The flags of the    *)
(* generator are shared by all turns: what depends on them is shown for    *)
(* users who start no turn beside a stopped one that still ends (Patient). *)
(***************************************************************************)
EXTENDS LocalAgent, FiniteSetTheorems, TLAPS

TurnType == [pc : {"idle", "preparing", "running", "over"},
             attempt : 0..3, resumed : BOOLEAN,
             continued : BOOLEAN, used : 0..MaxToolCalls, searches : 0..MaxToolCalls,
             exhausted : BOOLEAN, approved : BOOLEAN, stopped : BOOLEAN]

ViewType == [queue : Seq(Calls), executing : Calls \cup {None},
             stage : {"none", "running", "approved", "resolving"},
             activity : BOOLEAN, error : BOOLEAN, toolError : BOOLEAN,
             done : Ends \cup {"no"}, awaited : SUBSET Calls, settled : BOOLEAN]

HostType == [stage : {"none", "invoked", "active", "ending", "over"},
             reply : {"none", "started", "rejected", "handled"},
             bridged : BOOLEAN, cancelled : BOOLEAN,
             started : 0..MaxToolCalls, limit : 0..MaxToolCalls]

CallType == [run : Runs \cup {None}, ran : BOOLEAN, stage : {"none", "pending", "over"}]

Working(t) == turn[t].pc \in {"preparing", "running"}

\* A run that is no continuation is the first one of its turn or the fresh one
\* after it, so that a turn never has more than three.
TurnSound(rec) ==
  /\ rec.pc = "running" => /\ rec.resumed => rec.attempt = 1
                           /\ ~rec.continued => rec.attempt <= 2
  /\ rec.pc # "running" => ~rec.continued
  /\ rec.pc = "idle" => ~rec.stopped
  /\ rec.exhausted <=> rec.used = MaxToolCalls

\* Where a run stands in its turn.
Place(r) ==
  IF turn[r[1]].pc = "over" \/ (turn[r[1]].pc = "running" /\ r[2] < turn[r[1]].attempt)
  THEN "past"
  ELSE IF turn[r[1]].pc = "running" /\ r[2] = turn[r[1]].attempt
  THEN "current" ELSE "future"

\* The calls queued or at work in a view.
Work(v) == {v.queue[i] : i \in DOMAIN v.queue} \cup ({v.executing} \cap Calls)

\* The view v, the host's entry h and the events ch of a run at a place: the
\* end is the last event, and when it was received the host's run is over and
\* no call is left but those that are awaited.
RunSound(place, v, h, ch) ==
  /\ place = "future" => v = NoView /\ h = NoHost /\ ch = <<>>
  /\ place = "current" => ~v.settled
  /\ place = "past" => /\ ch = <<>> /\ Work(v) = {}
                       /\ h.stage \notin {"invoked", "active"}
                       /\ h.stage # "none" => v.settled
  /\ h.stage \in {"none", "invoked"} \/ h.reply = "rejected" =>
       ch = <<>> /\ v.queue = <<>> /\ v.executing = None /\ v.done = "no"
  /\ h.stage \in {"none", "invoked"} => h.reply = "none"
  /\ h.reply = "rejected" => h.stage = "over"
  /\ v.done # "no" => ch = <<>> /\ h.stage \in {"ending", "over"} /\ Work(v) \subseteq v.awaited
  /\ v.executing = None <=> v.stage = "none"
  /\ \A i \in DOMAIN ch : ch[i].type \in Ends =>
       i = Len(ch) /\ h.stage \in {"ending", "over"}

TurnsSound == \A t \in Turns : TurnSound(turn[t])
RunsSound == \A r \in Runs : RunSound(Place(r), view[r], host[r], channel[r])

\* A call that r made and that did not run yet; a queue holds different ones,
\* and so do the events, none of them both.
Mine(c, r, calls) ==
  calls[c].run = r /\ ~calls[c].ran /\ calls[c].stage # "none"

QueueSound(q, r, calls) ==
  /\ \A i \in DOMAIN q : Mine(q[i], r, calls)
  /\ \A i, j \in DOMAIN q : q[i] = q[j] => i = j

ChannelSound(ch, q, r, calls) ==
  \A i \in DOMAIN ch : ch[i].type = "toolRequest" =>
    /\ Mine(ch[i].callId, r, calls)
    /\ \A j \in DOMAIN ch : ch[i] = ch[j] => i = j
    /\ \A j \in DOMAIN q : ch[i].callId # q[j]

QueuesSound(r) == QueueSound(view[r].queue, r, call)
                    /\ ChannelSound(channel[r], view[r].queue, r, call)

CallsSound ==
  /\ \A r \in Runs : QueuesSound(r)
  /\ \A c \in Calls : call[c].stage = "none" => ~call[c].ran

\* Every call that ran and every search was counted.
Ran(t) == {c \in Calls : call[c].ran /\ call[c].run[1] = t}
BudgetSound == \A t \in Turns : Cardinality(Ran(t)) + turn[t].searches = turn[t].used

\* Only runs the host knows are cancelled or current.
Targets == \A r \in Runs :
  r \in cancels \/ r = currentRun => host[r].stage \notin {"none", "invoked"}

\* What needs users that wait for a stopped turn: the flags of the generator
\* are those of the one turn that works, and its started run is currentRun.
OneWorking == \A t, u \in Turns : Working(t) /\ Working(u) => t = u

FlagsSound == \A t \in Turns : Working(t) =>
  /\ turn[t].stopped => abortRequested
  /\ planApproved => turn[t].approved
  /\ turn[t].continued => turn[t].approved

ApprovalsSound == \A r \in Runs : view[r].stage = "approved" => turn[r[1]].approved

Followed == \A r \in Runs :
  host[r].reply = "handled" /\ host[r].stage = "active" => currentRun = r

PatientSound == OneWorking /\ FlagsSound /\ ApprovalsSound /\ Followed /\ StopReachesHost

IInv == TypeOK /\ TurnsSound /\ RunsSound /\ CallsSound /\ BudgetSound /\ Targets
          /\ (Patient => PatientSound)

-----------------------------------------------------------------------------
(* Frames.                                                                  *)

LEMMA Typed ==
  ASSUME TypeOK
  PROVE  /\ turn \in [Turns -> TurnType] /\ view \in [Runs -> ViewType]
         /\ host \in [Runs -> HostType] /\ call \in [Calls -> CallType]
         /\ channel \in [Runs -> Seq(Events)] /\ currentRun \in Runs \cup {None}
         /\ cancels \in SUBSET Runs
BY DEF TypeOK, TurnType, ViewType, HostType, CallType

LEMMA RunParts ==
  ASSUME NEW r \in Runs
  PROVE  r[1] \in Turns /\ r[2] \in 1..3 /\ r = <<r[1], r[2]>>
BY DEF Runs

LEMMA PlacesStay ==
  ASSUME \A t \in Turns : turn'[t].pc = turn[t].pc /\ turn'[t].attempt = turn[t].attempt
  PROVE  \A r \in Runs : Place(r)' = Place(r)
BY RunParts DEF Place

\* One run changes and every run keeps its place.
LEMMA RunsKeep ==
  ASSUME RunsSound, NEW r \in Runs, \A s \in Runs : Place(s)' = Place(s),
         \A s \in Runs \ {r} :
           view'[s] = view[s] /\ host'[s] = host[s] /\ channel'[s] = channel[s],
         RunSound(Place(r), view'[r], host'[r], channel'[r])
  PROVE  RunsSound'
<1>1. ASSUME NEW s \in Runs PROVE RunSound(Place(s), view'[s], host'[s], channel'[s])
  <2>1. CASE s = r
    BY <2>1
  <2>2. CASE s # r
    BY <2>2 DEF RunsSound
  <2> QED
    BY <2>1, <2>2
<1> QED
  BY <1>1 DEF RunsSound

LEMMA RunIsSound ==
  ASSUME RunsSound, NEW r \in Runs
  PROVE  RunSound(Place(r), view[r], host[r], channel[r])
BY DEF RunsSound

CallsGoOn == \A c \in Calls :
  /\ call'[c].ran = call[c].ran
  /\ call[c].stage # "none" => call'[c].run = call[c].run /\ call'[c].stage # "none"

LEMMA QueueTyped ==
  ASSUME TypeOK, NEW r \in Runs
  PROVE  /\ view[r].queue \in Seq(Calls) /\ channel[r] \in Seq(Events)
         /\ \A i \in DOMAIN view[r].queue : view[r].queue[i] \in Calls
         /\ \A i \in DOMAIN channel[r] :
              channel[r][i].type = "toolRequest" => channel[r][i].callId \in Calls
<1>1. view[r].queue \in Seq(Calls) /\ channel[r] \in Seq(Events)
  BY Typed DEF ViewType
<1> QED
  BY <1>1 DEF Events, Ends

\* What is queued is not touched by calls that remain what they are.
LEMMA QueuesStay ==
  ASSUME TypeOK, NEW r \in Runs, NEW calls, QueuesSound(r),
         \A c \in Calls : Mine(c, r, call) => Mine(c, r, calls)
  PROVE  /\ QueueSound(view[r].queue, r, calls)
         /\ ChannelSound(channel[r], view[r].queue, r, calls)
BY QueueTyped DEF QueuesSound, QueueSound, ChannelSound

LEMMA CallsSame ==
  ASSUME TypeOK, CallsSound, CallsGoOn, channel' = channel,
         \A r \in Runs : view'[r].queue = view[r].queue
  PROVE  CallsSound'
<1>1. ASSUME NEW r \in Runs PROVE QueuesSound(r)'
  <2>1. \A c \in Calls : Mine(c, r, call) => Mine(c, r, call')
    BY DEF CallsGoOn, Mine
  <2> QED
    BY <2>1, QueuesStay DEF QueuesSound, CallsSound
<1> QED
  BY <1>1 DEF CallsSound, CallsGoOn

LEMMA BudgetSame ==
  ASSUME BudgetSound, CallsSound, CallsGoOn,
         \A t \in Turns : turn'[t].used = turn[t].used /\ turn'[t].searches = turn[t].searches
  PROVE  BudgetSound'
<1>1. ASSUME NEW t \in Turns PROVE Ran(t)' = Ran(t)
  BY DEF Ran, CallsGoOn, CallsSound
<1> QED
  BY <1>1 DEF BudgetSound

\* cancel_pending only ends calls.
LEMMA CancelledCalls ==
  ASSUME TypeOK, NEW r \in Runs
  PROVE  /\ CancelPending(r) \in [Calls -> CallType]
         /\ \A c \in Calls :
              /\ CancelPending(r)[c].ran = call[c].ran
              /\ CancelPending(r)[c].run = call[c].run
              /\ call[c].stage # "none" => CancelPending(r)[c].stage # "none"
<1>1. ASSUME NEW c \in Calls
      PROVE  /\ CancelPending(r)[c] \in CallType
             /\ CancelPending(r)[c].ran = call[c].ran
             /\ CancelPending(r)[c].run = call[c].run
             /\ call[c].stage # "none" => CancelPending(r)[c].stage # "none"
  <2>1. call[c] \in CallType
    BY Typed
  <2> QED
    BY <2>1 DEF CancelPending, CallType
<1>2. CancelPending(r) = [c \in Calls |-> CancelPending(r)[c]]
  BY DEF CancelPending
<1> QED
  BY <1>1, <1>2

\* What is left to show of a step of the host or the CLI.
HostKept ==
  \A r \in Runs : host'[r].reply = "handled" /\ host'[r].stage = "active" =>
    /\ host[r].reply = "handled" /\ host[r].stage = "active"
    /\ r \in cancels \/ host[r].cancelled => r \in cancels' \/ host'[r].cancelled

LEMMA HostPatient ==
  ASSUME PatientSound, UNCHANGED webviewVars, HostKept
  PROVE  PatientSound'
<1> USE DEF webviewVars, generatorVars
<1>1. OneWorking' /\ FlagsSound' /\ ApprovalsSound'
  BY DEF PatientSound, OneWorking, FlagsSound, ApprovalsSound, Working
<1>2. Followed' /\ StopReachesHost'
  BY DEF PatientSound, Followed, StopReachesHost, HostKept
<1> QED
  BY <1>1, <1>2 DEF PatientSound

LEMMA TurnsSame ==
  ASSUME TurnsSound, turn' = turn
  PROVE  TurnsSound' /\ \A r \in Runs : Place(r)' = Place(r)
BY PlacesStay DEF TurnsSound

-----------------------------------------------------------------------------
(* The host and the CLI.                                                    *)

\* What a step of the host keeps besides the run it is about.
HostFrame(r) ==
  /\ UNCHANGED webviewVars
  /\ \A s \in Runs \ {r} : host'[s] = host[s] /\ channel'[s] = channel[s]

LEMMA HostRuns ==
  ASSUME RunsSound, NEW r \in Runs, HostFrame(r),
         RunSound(Place(r), view[r], host'[r], channel'[r])
  PROVE  RunsSound' /\ \A s \in Runs : Place(s)' = Place(s)
<1>1. turn' = turn /\ view' = view
  BY DEF HostFrame, webviewVars
<1>2. \A s \in Runs : Place(s)' = Place(s)
  BY <1>1 DEF Place
<1> QED
  BY <1>1, <1>2, RunsKeep DEF HostFrame

\* A step of the host that sends nothing.
LEMMA HostKeeps ==
  ASSUME IInv, NEW r \in Runs, HostFrame(r), channel' = channel, CallsGoOn,
         call' \in [Calls -> CallType], host' \in [Runs -> HostType],
         noise' = noise, cancels' \subseteq cancels,
         RunSound(Place(r), view[r], host'[r], channel[r]), HostKept,
         host'[r].stage \in {"none", "invoked"} => host'[r].stage = host[r].stage
  PROVE  IInv'
<1>1. UNCHANGED <<abortRequested, planApproved, currentRun, turn, view>>
  BY DEF HostFrame, webviewVars, generatorVars
<1>2. TypeOK'
  BY <1>1 DEF IInv, TypeOK, HostType, CallType
<1>3. TurnsSound' /\ BudgetSound'
  BY <1>1, BudgetSame DEF IInv, TurnsSound
<1>4. RunsSound'
  BY HostRuns DEF IInv
<1>5. CallsSound'
  BY <1>1, CallsSame DEF IInv
<1>6. Targets'
  BY <1>1 DEF IInv, Targets, HostFrame
<1>7. Patient => PatientSound'
  BY HostPatient DEF IInv, HostFrame
<1> QED
  BY <1>2, <1>3, <1>4, <1>5, <1>6, <1>7 DEF IInv

LEMMA HostMoves ==
  ASSUME NEW p, NEW v, NEW h, NEW g, NEW ch, RunSound(p, v, h, ch),
         h.stage # "none", g.reply = h.reply,
         \/ g.stage = h.stage
         \/ h.stage = "ending" /\ g.stage = "over"
  PROVE  RunSound(p, v, g, ch)
BY DEF RunSound, NoHost

LEMMA StartRunsKeeps ==
  ASSUME IInv, NEW r \in Runs, StartRuns(r)
  PROVE  IInv'
<1>1. host \in [Runs -> HostType] /\ call \in [Calls -> CallType]
  BY Typed DEF IInv
<1>2. /\ host' = [host EXCEPT ![r] = [host[r] EXCEPT !.stage = "active", !.bridged = TRUE,
                                                   !.reply = "started"]]
      /\ host[r].stage = "invoked"
      /\ UNCHANGED <<webviewVars, cancels, channel, call, noise>>
  BY DEF StartRuns
<1>3. host' \in [Runs -> HostType]
  BY <1>1, <1>2 DEF HostType
<1>4. /\ host'[r].stage = "active" /\ host'[r].reply = "started"
      /\ \A s \in Runs \ {r} : host'[s] = host[s]
  BY <1>1, <1>2 DEF HostType
<1>5. RunSound(Place(r), view[r], host'[r], channel[r])
  BY <1>1, <1>2, <1>4, RunIsSound DEF IInv, RunSound, NoHost
<1>6. HostFrame(r) /\ CallsGoOn
  BY <1>2, <1>4 DEF HostFrame, CallsGoOn
<1>7. HostKept
  BY <1>2, <1>4 DEF HostKept
<1> QED
  BY <1>1, <1>2, <1>3, <1>4, <1>5, <1>6, <1>7, HostKeeps

LEMMA StartFailsKeeps ==
  ASSUME IInv, NEW r \in Runs, StartFails(r)
  PROVE  IInv'
<1>1. host \in [Runs -> HostType] /\ call \in [Calls -> CallType]
  BY Typed DEF IInv
<1>2. /\ host' = [host EXCEPT ![r] = [host[r] EXCEPT !.stage = "over", !.reply = "rejected"]]
      /\ host[r].stage = "invoked"
      /\ UNCHANGED <<webviewVars, cancels, channel, call, noise>>
  BY DEF StartFails
<1>3. host' \in [Runs -> HostType]
  BY <1>1, <1>2 DEF HostType
<1>4. /\ host'[r].stage = "over" /\ host'[r].reply = "rejected"
      /\ \A s \in Runs \ {r} : host'[s] = host[s]
  BY <1>1, <1>2 DEF HostType
<1>5. RunSound(Place(r), view[r], host'[r], channel[r])
  BY <1>1, <1>2, <1>4, RunIsSound DEF IInv, RunSound, NoHost
<1>6. HostFrame(r) /\ CallsGoOn
  BY <1>2, <1>4 DEF HostFrame, CallsGoOn
<1>7. HostKept
  BY <1>2, <1>4 DEF HostKept
<1> QED
  BY <1>1, <1>2, <1>3, <1>4, <1>5, <1>6, <1>7, HostKeeps

LEMMA CliBreaksRulesKeeps ==
  ASSUME IInv, NEW r \in Runs, CliBreaksRules(r)
  PROVE  IInv'
<1>1. host \in [Runs -> HostType]
  BY Typed DEF IInv
<1>2. /\ host' = [host EXCEPT ![r] = [host[r] EXCEPT !.cancelled = TRUE]]
      /\ host[r].stage = "active" /\ call' = CancelPending(r)
      /\ UNCHANGED <<webviewVars, cancels, channel, noise>>
  BY DEF CliBreaksRules
<1>3. host' \in [Runs -> HostType]
  BY <1>1, <1>2 DEF HostType
<1>4. /\ host'[r].stage = "active" /\ host'[r].reply = host[r].reply /\ host'[r].cancelled
      /\ \A s \in Runs \ {r} : host'[s] = host[s]
  BY <1>1, <1>2 DEF HostType
<1>5. RunSound(Place(r), view[r], host'[r], channel[r])
  <2>1. RunSound(Place(r), view[r], host[r], channel[r])
    BY RunIsSound DEF IInv
  <2> QED
    BY <2>1, <1>2, <1>4, HostMoves
<1>6. HostFrame(r) /\ CallsGoOn /\ call' \in [Calls -> CallType]
  BY <1>2, <1>4, CancelledCalls DEF HostFrame, CallsGoOn, IInv
<1>7. HostKept
  BY <1>2, <1>4 DEF HostKept
<1> QED
  BY <1>2, <1>3, <1>4, <1>5, <1>6, <1>7, HostKeeps

LEMMA CancelRunsKeeps ==
  ASSUME IInv, NEW r \in Runs, CancelRuns(r)
  PROVE  IInv'
<1>1. host \in [Runs -> HostType]
  BY Typed DEF IInv
<1>2. /\ host' = [host EXCEPT ![r] = [host[r] EXCEPT !.cancelled = TRUE, !.bridged = FALSE]]
      /\ r \in cancels /\ cancels' = cancels \ {r} /\ call' = CancelPending(r)
      /\ UNCHANGED <<webviewVars, channel, noise>>
  BY DEF CancelRuns
<1>3. host' \in [Runs -> HostType]
  BY <1>1, <1>2 DEF HostType
<1>4. /\ host'[r].stage = host[r].stage /\ host'[r].reply = host[r].reply
      /\ host'[r].cancelled
      /\ \A s \in Runs \ {r} : host'[s] = host[s]
  BY <1>1, <1>2 DEF HostType
<1>5. host[r].stage \notin {"none", "invoked"}
  BY <1>2 DEF IInv, Targets
<1>6. RunSound(Place(r), view[r], host'[r], channel[r])
  <2>1. RunSound(Place(r), view[r], host[r], channel[r])
    BY RunIsSound DEF IInv
  <2> QED
    BY <2>1, <1>4, <1>5, HostMoves
<1>7. HostFrame(r) /\ CallsGoOn /\ call' \in [Calls -> CallType]
  BY <1>2, <1>4, CancelledCalls DEF HostFrame, CallsGoOn, IInv
<1>8. HostKept
  BY <1>2, <1>4 DEF HostKept
<1> QED
  BY <1>2, <1>3, <1>4, <1>6, <1>7, <1>8, HostKeeps

LEMMA RunUnregistersKeeps ==
  ASSUME IInv, NEW r \in Runs, RunUnregisters(r)
  PROVE  IInv'
<1>1. host \in [Runs -> HostType]
  BY Typed DEF IInv
<1>2. /\ host' = [host EXCEPT ![r] = [NoHost EXCEPT !.stage = "over", !.reply = host[r].reply]]
      /\ host[r].stage = "ending" /\ cancels' = cancels \ {r} /\ call' = CancelPending(r)
      /\ UNCHANGED <<webviewVars, channel, noise>>
  BY DEF RunUnregisters
<1>3. host' \in [Runs -> HostType]
  <2>1. 0 \in 0..MaxToolCalls
    BY LocalAgentAssumption
  <2>2. NoHost \in HostType
    BY <2>1 DEF NoHost, HostType
  <2>3. [NoHost EXCEPT !.stage = "over", !.reply = host[r].reply] \in HostType
    BY <1>1, <2>2 DEF HostType
  <2> QED
    BY <1>1, <1>2, <2>3
<1>4. /\ host'[r].stage = "over" /\ host'[r].reply = host[r].reply
      /\ \A s \in Runs \ {r} : host'[s] = host[s]
  BY <1>1, <1>2 DEF HostType, NoHost
<1>5. RunSound(Place(r), view[r], host'[r], channel[r])
  <2>1. RunSound(Place(r), view[r], host[r], channel[r])
    BY RunIsSound DEF IInv
  <2> QED
    BY <2>1, <1>2, <1>4, HostMoves
<1>6. HostFrame(r) /\ CallsGoOn /\ call' \in [Calls -> CallType]
  BY <1>2, <1>4, CancelledCalls DEF HostFrame, CallsGoOn, IInv
<1>7. HostKept
  BY <1>2, <1>4 DEF HostKept
<1> QED
  BY <1>2, <1>3, <1>4, <1>5, <1>6, <1>7, HostKeeps

\* A run that is active sends an event, with which it may end.
LEMMA EventSent ==
  ASSUME NEW p, NEW v, NEW h, NEW g, NEW ch \in Seq(Events), NEW e \in Events,
         RunSound(p, v, h, ch), h.stage = "active", g.reply = h.reply,
         g.stage = IF e.type \in Ends THEN "ending" ELSE "active"
  PROVE  RunSound(p, v, g, Append(ch, e))
<1>1. /\ p # "future" /\ p # "past" /\ h.reply # "rejected" /\ v.done = "no"
      /\ \A i \in 1..Len(ch) : ch[i].type \notin Ends
  BY DEF RunSound, NoHost
<1>2. /\ Len(Append(ch, e)) = Len(ch) + 1 /\ Len(ch) \in Nat
      /\ \A i \in 1..Len(ch) : Append(ch, e)[i] = ch[i]
      /\ Append(ch, e)[Len(ch) + 1] = e
      /\ DOMAIN Append(ch, e) = 1..(Len(ch) + 1)
  OBVIOUS
<1>3. \A i \in DOMAIN Append(ch, e) : Append(ch, e)[i].type \in Ends =>
        i = Len(Append(ch, e)) /\ e.type \in Ends
  <2>1. \A i \in 1..(Len(ch) + 1) : i \in 1..Len(ch) \/ i = Len(ch) + 1
    BY <1>2
  <2> QED
    BY <2>1, <1>1, <1>2
<1> QED
  BY <1>1, <1>3 DEF RunSound

\* The calls of the events on their way stay sound when an event joins them; a
\* tool call is a new one.
LEMMA JoinsChannel ==
  ASSUME NEW r, NEW calls, NEW ch \in Seq(Events), NEW q, NEW e \in Events,
         ChannelSound(ch, q, r, calls),
         e.type = "toolRequest" =>
           /\ Mine(e.callId, r, calls)
           /\ \A j \in DOMAIN ch : ch[j] # e
           /\ \A j \in DOMAIN q : q[j] # e.callId
  PROVE  ChannelSound(Append(ch, e), q, r, calls)
<1> DEFINE n == Len(ch)
           now == Append(ch, e)
<1>1. /\ n \in Nat /\ DOMAIN now = 1..(n + 1) /\ DOMAIN ch = 1..n
      /\ \A i \in 1..n : now[i] = ch[i]
      /\ now[n + 1] = e
  OBVIOUS
<1>2. \A i \in 1..(n + 1) : i \in 1..n \/ i = n + 1
  BY <1>1
<1>3. ASSUME NEW i \in 1..n, e = ch[i], ch[i].type = "toolRequest" PROVE FALSE
  BY <1>1, <1>3
<1> HIDE DEF n, now
<1>4. ASSUME NEW i \in 1..(n + 1), now[i].type = "toolRequest"
      PROVE  /\ Mine(now[i].callId, r, calls)
             /\ \A j \in 1..(n + 1) : now[i] = now[j] => i = j
             /\ \A j \in DOMAIN q : now[i].callId # q[j]
  <2>1. CASE i = n + 1
    BY <2>1, <1>1, <1>2, <1>3, <1>4
  <2>2. CASE i \in 1..n
    BY <2>2, <1>1, <1>2, <1>3, <1>4 DEF ChannelSound
  <2> QED
    BY <1>2, <2>1, <2>2
<1>5. ChannelSound(now, q, r, calls)
  BY <1>1, <1>4 DEF ChannelSound
<1> QED
  BY <1>5 DEF now

LEMMA EventJoins ==
  ASSUME TypeOK, CallsSound, NEW r \in Runs, NEW e \in Events, view' = view,
         channel' = [channel EXCEPT ![r] = Append(@, e)],
         \A c \in Calls, s \in Runs : Mine(c, s, call) => Mine(c, s, call'),
         \A c \in Calls : call'[c].stage = "none" => ~call'[c].ran,
         e.type = "toolRequest" => Mine(e.callId, r, call') /\ call[e.callId].stage = "none"
  PROVE  CallsSound'
<1>1. channel \in [Runs -> Seq(Events)]
  BY Typed
<1>2. ASSUME NEW s \in Runs
      PROVE  /\ QueueSound(view[s].queue, s, call')
             /\ ChannelSound(channel[s], view[s].queue, s, call')
  BY QueuesStay DEF CallsSound
<1>3. ASSUME NEW s \in Runs PROVE QueuesSound(s)'
  <2>1. CASE s # r
    BY <2>1, <1>1, <1>2 DEF QueuesSound
  <2>2. CASE s = r
    <3>1. channel'[r] = Append(channel[r], e) /\ channel[r] \in Seq(Events)
      BY <1>1
    <3>2. ASSUME e.type = "toolRequest"
          PROVE  /\ \A j \in DOMAIN channel[r] : channel[r][j] # e
                 /\ \A j \in DOMAIN view[r].queue : view[r].queue[j] # e.callId
      BY <3>2 DEF CallsSound, QueuesSound, QueueSound, ChannelSound, Mine
    <3>3. ChannelSound(channel'[r], view[r].queue, r, call')
      BY <1>2, <3>1, <3>2, JoinsChannel
    <3> QED
      BY <1>2, <2>2, <3>3 DEF QueuesSound
  <2> QED
    BY <2>1, <2>2
<1> QED
  BY <1>3 DEF CallsSound

\* A step of the host that sends an event.
LEMMA SendKeeps ==
  ASSUME IInv, NEW r \in Runs, NEW e \in Events, UNCHANGED webviewVars,
         cancels' = cancels, noise' \in 0..MaxNoise,
         channel' = [channel EXCEPT ![r] = Append(@, e)],
         NEW h \in HostType, host' = [host EXCEPT ![r] = h],
         host[r].stage = "active", h.reply = host[r].reply, h.cancelled = host[r].cancelled,
         h.stage = IF e.type \in Ends THEN "ending" ELSE "active",
         CallsGoOn, call' \in [Calls -> CallType],
         e.type = "toolRequest" => Mine(e.callId, r, call') /\ call[e.callId].stage = "none"
  PROVE  IInv'
<1>1. UNCHANGED <<abortRequested, planApproved, currentRun, turn, view>>
  BY DEF webviewVars, generatorVars
<1>2. /\ host \in [Runs -> HostType] /\ channel \in [Runs -> Seq(Events)]
      /\ channel[r] \in Seq(Events)
  BY Typed DEF IInv
<1>3. /\ host' \in [Runs -> HostType] /\ channel' \in [Runs -> Seq(Events)]
      /\ host'[r] = h /\ channel'[r] = Append(channel[r], e)
      /\ \A s \in Runs \ {r} : host'[s] = host[s] /\ channel'[s] = channel[s]
  BY <1>2
<1>4. TypeOK'
  BY <1>1, <1>3 DEF IInv, TypeOK, HostType, CallType
<1>5. TurnsSound' /\ BudgetSound'
  BY <1>1, BudgetSame DEF IInv, TurnsSound
<1>6. RunsSound'
  <2>1. RunSound(Place(r), view[r], host[r], channel[r])
    BY RunIsSound DEF IInv
  <2>2. RunSound(Place(r), view[r], host'[r], channel'[r])
    BY <1>2, <1>3, <2>1, EventSent
  <2> QED
    BY <1>3, <2>2, HostRuns DEF HostFrame, IInv
<1>7. CallsSound'
  <2>1. \A c \in Calls, s \in Runs : Mine(c, s, call) => Mine(c, s, call')
    BY DEF CallsGoOn, Mine
  <2>2. \A c \in Calls : call'[c].stage = "none" => ~call'[c].ran
    BY DEF CallsGoOn, CallsSound, IInv
  <2> QED
    BY <1>1, <2>1, <2>2, EventJoins DEF IInv
<1>8. Targets'
  BY <1>1, <1>3 DEF IInv, Targets
<1>9. Patient => PatientSound'
  <2>1. HostKept
    BY <1>3 DEF HostKept
  <2> QED
    BY <2>1, HostPatient DEF IInv
<1> QED
  BY <1>4, <1>5, <1>6, <1>7, <1>8, <1>9 DEF IInv

LEMMA CliEmitsKeeps ==
  ASSUME IInv, NEW r \in Runs, NEW k \in {"text", "search"}, CliEmits(r, k)
  PROVE  IInv'
<1> DEFINE e == Other(k)
           h == host[r]
<1>1. e \in Events /\ e.type = k /\ k \notin Ends /\ k # "toolRequest"
  BY DEF Other, Events, Ends
<1>2. /\ host \in [Runs -> HostType] /\ call \in [Calls -> CallType]
      /\ noise \in 0..MaxNoise
  BY Typed DEF IInv, TypeOK
<1>3. /\ UNCHANGED <<webviewVars, cancels, host, call>> /\ host[r].stage = "active"
      /\ noise' \in 0..MaxNoise
      /\ channel' = [channel EXCEPT ![r] = Append(@, e)]
  BY <1>2, LocalAgentAssumption DEF CliEmits, Send
<1>4. host' = [host EXCEPT ![r] = h] /\ h \in HostType
  BY <1>2, <1>3
<1>5. CallsGoOn /\ call' \in [Calls -> CallType]
  BY <1>2, <1>3 DEF CallsGoOn
<1>6. /\ UNCHANGED webviewVars /\ cancels' = cancels
      /\ h.stage = "active" /\ h.reply = host[r].reply /\ h.cancelled = host[r].cancelled
  BY <1>3
<1> HIDE DEF e, h
<1>7. h.stage = IF e.type \in Ends THEN "ending" ELSE "active"
  BY <1>1, <1>6
<1>8. e.type # "toolRequest"
  BY <1>1
<1> QED
  BY <1>1, <1>3, <1>4, <1>5, <1>6, <1>7, <1>8, SendKeeps

LEMMA RunEndsKeeps ==
  ASSUME IInv, NEW r \in Runs, NEW k \in Ends, RunEnds(r, k)
  PROVE  IInv'
<1>1. Other(k) \in Events /\ Other(k).type = k /\ k # "toolRequest"
  BY DEF Other, Events, Ends
<1>2. /\ host \in [Runs -> HostType] /\ call \in [Calls -> CallType]
      /\ noise \in 0..MaxNoise
  BY Typed DEF IInv, TypeOK
<1> DEFINE h == [host[r] EXCEPT !.stage = "ending"]
<1>3. /\ UNCHANGED <<webviewVars, cancels, call>> /\ host[r].stage = "active"
      /\ noise' \in 0..MaxNoise
      /\ channel' = [channel EXCEPT ![r] = Append(@, Other(k))]
      /\ host' = [host EXCEPT ![r] = h]
  BY <1>2 DEF RunEnds, Send
<1>4. /\ h \in HostType /\ h.stage = "ending" /\ h.reply = host[r].reply
      /\ h.cancelled = host[r].cancelled
  BY <1>2 DEF HostType
<1>5. CallsGoOn
  BY <1>3 DEF CallsGoOn
<1> HIDE DEF h
<1> QED
  BY <1>1, <1>2, <1>3, <1>4, <1>5, SendKeeps

\* A call of a tool; one beyond the budget cancels the run.
LEMMA CliCallsKeeps ==
  ASSUME IInv, NEW r \in Runs, NEW c \in Calls, CliCalls(r, c)
  PROVE  IInv'
<1>1. /\ host \in [Runs -> HostType] /\ call \in [Calls -> CallType]
      /\ noise \in 0..MaxNoise /\ ~call[c].ran
  BY Typed DEF IInv, TypeOK, CliCalls, CallsSound
<1>2. /\ UNCHANGED <<webviewVars, cancels, noise>> /\ call[c].stage = "none"
      /\ host[r].stage = "active"
  BY DEF CliCalls
<1>3. CASE host[r].started < host[r].limit
  <2> DEFINE h == [host[r] EXCEPT !.started = @ + 1]
  <2>1. /\ host' = [host EXCEPT ![r] = h]
        /\ call' = [call EXCEPT ![c] = [call[c] EXCEPT !.run = r, !.stage = "pending"]]
        /\ channel' = [channel EXCEPT ![r] = Append(@, ToolRequest(c))]
    BY <1>3 DEF CliCalls, Send
  <2>2. host[r] \in HostType /\ host[r].started + 1 \in 0..MaxToolCalls
    BY <1>1, <1>3, LocalAgentAssumption DEF HostType
  <2>3. /\ h \in HostType /\ h.stage = "active" /\ h.reply = host[r].reply
        /\ h.cancelled = host[r].cancelled
    BY <1>2, <2>2 DEF HostType
  <2>4. /\ ToolRequest(c) \in Events /\ ToolRequest(c).type = "toolRequest"
        /\ ToolRequest(c).callId = c /\ "toolRequest" \notin Ends
    BY DEF ToolRequest, Events, Ends
  <2>5. /\ call' \in [Calls -> CallType] /\ call'[c].run = r /\ call'[c].stage = "pending"
        /\ call'[c].ran = call[c].ran
        /\ \A d \in Calls \ {c} : call'[d] = call[d]
    BY <1>1, <2>1 DEF CallType
  <2>6. CallsGoOn /\ Mine(c, r, call')
    BY <1>1, <1>2, <2>5 DEF CallsGoOn, Mine
  <2> DEFINE e == ToolRequest(c)
  <2>7. /\ e \in Events /\ h.stage = IF e.type \in Ends THEN "ending" ELSE "active"
        /\ Mine(e.callId, r, call') /\ call[e.callId].stage = "none"
        /\ channel' = [channel EXCEPT ![r] = Append(@, e)]
        /\ noise' \in 0..MaxNoise /\ cancels' = cancels /\ UNCHANGED webviewVars
    BY <1>1, <1>2, <2>1, <2>3, <2>4, <2>6
  <2> HIDE DEF h, e
  <2> QED
    BY <1>2, <2>1, <2>3, <2>5, <2>6, <2>7, SendKeeps
<1>4. CASE ~(host[r].started < host[r].limit)
  <2> DEFINE rest == CancelPending(r)
  <2>1. /\ host' = [host EXCEPT ![r] = [host[r] EXCEPT !.cancelled = TRUE]]
        /\ call' = [rest EXCEPT ![c] = [rest[c] EXCEPT !.run = r, !.stage = "over"]]
        /\ UNCHANGED channel
    BY <1>4 DEF CliCalls
  <2>2. /\ rest \in [Calls -> CallType]
        /\ \A d \in Calls : /\ rest[d].ran = call[d].ran
                            /\ rest[d].run = call[d].run
                            /\ call[d].stage # "none" => rest[d].stage # "none"
    BY CancelledCalls DEF IInv
  <2> HIDE DEF rest
  <2>3. /\ call' \in [Calls -> CallType] /\ call'[c].stage = "over"
        /\ call'[c].ran = rest[c].ran
        /\ \A d \in Calls \ {c} : call'[d] = rest[d]
    BY <2>1, <2>2 DEF CallType
  <2>4. CallsGoOn
    BY <1>2, <2>2, <2>3 DEF CallsGoOn
  <2>5. host' \in [Runs -> HostType]
    BY <1>1, <2>1 DEF HostType
  <2>6. /\ host'[r].stage = "active" /\ host'[r].reply = host[r].reply /\ host'[r].cancelled
        /\ \A s \in Runs \ {r} : host'[s] = host[s]
    BY <1>1, <1>2, <2>1 DEF HostType
  <2>7. RunSound(Place(r), view[r], host'[r], channel[r])
    <3>1. RunSound(Place(r), view[r], host[r], channel[r])
      BY RunIsSound DEF IInv
    <3> QED
      BY <3>1, <1>2, <2>6, HostMoves
  <2>8. HostFrame(r) /\ HostKept
    BY <1>2, <2>1, <2>6 DEF HostFrame, HostKept
  <2> QED
    BY <1>2, <2>1, <2>3, <2>4, <2>5, <2>6, <2>7, <2>8, HostKeeps
<1> QED
  BY <1>3, <1>4

-----------------------------------------------------------------------------
(* The webview, while the turn stays where it is.                           *)

TurnsGoOn == \A t \in Turns :
  /\ turn'[t].pc = turn[t].pc /\ turn'[t].attempt = turn[t].attempt
  /\ turn'[t].continued = turn[t].continued /\ turn'[t].stopped = turn[t].stopped
  /\ turn[t].approved => turn'[t].approved

LEMMA NoPlaces ==
  ASSUME NEW S, NEW q \in Seq(S), \A i \in DOMAIN q : FALSE
  PROVE  q = <<>>
<1>1. DOMAIN q = 1..Len(q) /\ Len(q) \in Nat
  OBVIOUS
<1>2. Len(q) = 0
  <2>1. 1 \notin 1..Len(q)
    BY <1>1
  <2> QED
    BY <1>1, <2>1
<1> QED
  BY <1>2

\* Only the current run of a turn has anything to do.
LEMMA BusyIsCurrent ==
  ASSUME TypeOK, NEW r \in Runs, RunSound(Place(r), view[r], host[r], channel[r]),
         \/ channel[r] # <<>> \/ view[r].queue # <<>> \/ view[r].executing # None
         \/ view[r].stage # "none" \/ host[r].stage \in {"invoked", "active"}
  PROVE  Place(r) = "current"
<1>1. view[r].queue \in Seq(Calls) /\ view[r].executing \in Calls \cup {None}
  BY Typed DEF ViewType
<1>2. CASE Place(r) = "past"
  <2>1. Work(view[r]) = {}
    BY <1>2 DEF RunSound
  <2>2. view[r].queue = <<>>
    <3>1. \A i \in DOMAIN view[r].queue : view[r].queue[i] \in Work(view[r])
      BY DEF Work
    <3>2. \A i \in DOMAIN view[r].queue : FALSE
      BY <2>1, <3>1
    <3> QED
      BY <3>2, <1>1, NoPlaces
  <2>3. view[r].executing = None
    BY <2>1, <1>1 DEF Work
  <2> QED
    BY <2>2, <2>3, <1>2 DEF RunSound
<1>3. Place(r) # "future"
  BY DEF RunSound, NoView, NoHost
<1> QED
  BY <1>2, <1>3 DEF Place

LEMMA CurrentWorks ==
  ASSUME NEW r \in Runs, Place(r) = "current"
  PROVE  /\ Working(r[1]) /\ turn[r[1]].pc = "running" /\ turn[r[1]].attempt = r[2]
         /\ r[1] \in Turns /\ r = <<r[1], turn[r[1]].attempt>>
BY RunParts DEF Place, Working

LEMMA OneCurrent ==
  ASSUME OneWorking, NEW r \in Runs, NEW s \in Runs,
         Place(r) = "current", Place(s) = "current"
  PROVE  r = s
BY CurrentWorks DEF OneWorking

LEMMA WebviewPatient ==
  ASSUME TypeOK, RunsSound, PatientSound, NEW r \in Runs, NEW v,
         host' = host, view \in [Runs -> ViewType], view' = [view EXCEPT ![r] = v], TurnsGoOn,
         abortRequested => abortRequested',
         planApproved' => planApproved \/ view[r].stage = "approved",
         v.stage = "approved" => view[r].stage = "approved" \/ turn'[r[1]].approved,
         currentRun' = currentRun \/ (currentRun' = r /\ Place(r) = "current"),
         cancels \subseteq cancels'
  PROVE  PatientSound'
<1>1. OneWorking'
  BY DEF PatientSound, OneWorking, Working, TurnsGoOn
<1>2. ASSUME view[r].stage = "approved"
      PROVE  turn[r[1]].approved /\ \A t \in Turns : Working(t) => t = r[1]
  <2>1. Place(r) = "current"
    BY <1>2, RunIsSound, BusyIsCurrent
  <2> QED
    BY <1>2, <2>1, CurrentWorks DEF PatientSound, ApprovalsSound, OneWorking
<1>3. FlagsSound'
  BY <1>2 DEF PatientSound, FlagsSound, Working, TurnsGoOn
<1>4. ApprovalsSound'
  <2>1. ASSUME NEW s \in Runs, view'[s].stage = "approved" PROVE turn'[s[1]].approved
    BY <2>1, RunParts DEF PatientSound, ApprovalsSound, TurnsGoOn
  <2> QED
    BY <2>1 DEF ApprovalsSound
<1>5. Followed'
  <2>1. ASSUME NEW s \in Runs, host[s].reply = "handled", host[s].stage = "active"
        PROVE  currentRun' = s
    <3>1. Place(s) = "current"
      BY <2>1, RunIsSound, BusyIsCurrent
    <3> QED
      BY <2>1, <3>1, OneCurrent DEF PatientSound, Followed
  <2> QED
    BY <2>1 DEF Followed
<1>6. StopReachesHost'
  BY RunParts DEF PatientSound, StopReachesHost, TurnsGoOn
<1> QED
  BY <1>1, <1>3, <1>4, <1>5, <1>6 DEF PatientSound

\* A step of one run in the webview.
LEMMA WebviewKeeps ==
  ASSUME IInv, NEW r \in Runs, NEW v \in ViewType, view' = [view EXCEPT ![r] = v],
         host' = host, noise' = noise,
         channel' \in [Runs -> Seq(Events)], \A s \in Runs \ {r} : channel'[s] = channel[s],
         RunSound(Place(r), v, host[r], channel'[r]), CallsSound',
         call' \in [Calls -> CallType], turn' \in [Turns -> TurnType], TurnsSound',
         BudgetSound', TurnsGoOn,
         abortRequested' \in BOOLEAN, abortRequested => abortRequested',
         planApproved' \in BOOLEAN,
         planApproved' => planApproved \/ view[r].stage = "approved",
         v.stage = "approved" => view[r].stage = "approved" \/ turn'[r[1]].approved,
         currentRun' = currentRun \/ (currentRun' = r /\ Place(r) = "current"),
         cancels \subseteq cancels', cancels' \subseteq Runs,
         cancels' \subseteq cancels \cup {r, currentRun},
         host[r].stage \notin {"none", "invoked"}
  PROVE  IInv'
<1>1. /\ view \in [Runs -> ViewType] /\ view' \in [Runs -> ViewType]
      /\ view'[r] = v /\ \A s \in Runs \ {r} : view'[s] = view[s]
      /\ host \in [Runs -> HostType] /\ currentRun \in Runs \cup {None}
  BY Typed DEF IInv
<1>2. TypeOK'
  BY <1>1, SMTT(60) DEF IInv, TypeOK, TurnType, ViewType, CallType
<1>3. RunsSound'
  <2>1. \A s \in Runs : Place(s)' = Place(s)
    BY PlacesStay DEF TurnsGoOn
  <2> QED
    BY <1>1, <2>1, RunsKeep DEF IInv
<1>4. Targets'
  BY DEF IInv, Targets
<1>5. Patient => PatientSound'
  BY <1>1, WebviewPatient DEF IInv
<1> QED
  BY <1>2, <1>3, <1>4, <1>5 DEF IInv

LEMMA CancelsSome ==
  ASSUME TypeOK, NEW rs \in SUBSET (Runs \cup {None}), Cancel(rs)
  PROVE  /\ cancels \subseteq cancels' /\ cancels' \subseteq Runs
         /\ cancels' \subseteq cancels \cup rs
         /\ \A r \in rs \cap Runs : host[r].stage # "over" => r \in cancels'
BY LocalAgentAssumption, Typed DEF Cancel

LEMMA TurnsSameGoOn ==
  ASSUME IInv, turn' = turn
  PROVE  TurnsGoOn /\ TurnsSound' /\ turn' \in [Turns -> TurnType]
BY Typed DEF IInv, TurnsGoOn, TurnsSound

-----------------------------------------------------------------------------
(* Events.                                                                  *)

LEMMA FirstEvent ==
  ASSUME NEW ch \in Seq(Events), ch # <<>>
  PROVE  /\ Tail(ch) \in Seq(Events) /\ Len(ch) \in Nat \ {0} /\ Head(ch) = ch[1]
         /\ Head(ch) \in Events
         /\ DOMAIN ch = 1..Len(ch) /\ 1 \in DOMAIN ch
         /\ DOMAIN Tail(ch) = 1..(Len(ch) - 1) /\ Len(Tail(ch)) = Len(ch) - 1
         /\ \A i \in DOMAIN Tail(ch) : i + 1 \in DOMAIN ch /\ Tail(ch)[i] = ch[i + 1]
OBVIOUS

\* An event other than the last one is taken; what is at work stays there.
LEMMA EventTaken ==
  ASSUME NEW v, NEW w, NEW h, NEW ch \in Seq(Events), ch # <<>>,
         RunSound("current", v, h, ch),
         w.settled = v.settled, w.stage = v.stage, w.executing = v.executing, w.done = v.done
  PROVE  RunSound("current", w, h, Tail(ch))
<1>1. \A i \in DOMAIN Tail(ch) : Tail(ch)[i].type \in Ends =>
        i = Len(Tail(ch)) /\ h.stage \in {"ending", "over"}
  BY FirstEvent DEF RunSound
<1> QED
  BY <1>1 DEF RunSound

\* The end of a run is the last event of it.
LEMMA EndTaken ==
  ASSUME NEW v, NEW w, NEW h, NEW ch \in Seq(Events), ch # <<>>, Head(ch).type \in Ends,
         RunSound("current", v, h, ch),
         w.settled = v.settled, w.stage = v.stage, w.executing = v.executing,
         w.awaited = Work(v), w.queue = v.queue
  PROVE  RunSound("current", w, h, Tail(ch))
<1>1. 1 = Len(ch) /\ h.stage \in {"ending", "over"}
  BY FirstEvent DEF RunSound
<1>2. Tail(ch) = <<>>
  <2>1. Tail(ch) \in Seq(Events) /\ \A i \in DOMAIN Tail(ch) : FALSE
    BY <1>1, FirstEvent
  <2> QED
    BY <2>1, NoPlaces
<1>3. Work(w) = Work(v)
  BY DEF Work
<1> QED
  BY <1>1, <1>2, <1>3 DEF RunSound

LEMMA LeavesChannel ==
  ASSUME NEW r, NEW calls, NEW ch \in Seq(Events), ch # <<>>, NEW q,
         ChannelSound(ch, q, r, calls)
  PROVE  ChannelSound(Tail(ch), q, r, calls)
<1>1. ASSUME NEW i \in DOMAIN Tail(ch), Tail(ch)[i].type = "toolRequest"
      PROVE  /\ Mine(Tail(ch)[i].callId, r, calls)
             /\ \A j \in DOMAIN Tail(ch) : Tail(ch)[i] = Tail(ch)[j] => i = j
             /\ \A j \in DOMAIN q : Tail(ch)[i].callId # q[j]
  <2>1. i + 1 \in DOMAIN ch /\ Tail(ch)[i] = ch[i + 1]
    BY FirstEvent
  <2>2. /\ Mine(ch[i + 1].callId, r, calls)
        /\ \A j \in DOMAIN ch : ch[i + 1] = ch[j] => i + 1 = j
        /\ \A j \in DOMAIN q : ch[i + 1].callId # q[j]
    BY <1>1, <2>1 DEF ChannelSound
  <2>3. ASSUME NEW j \in DOMAIN Tail(ch), Tail(ch)[i] = Tail(ch)[j] PROVE i = j
    <3>1. j + 1 \in DOMAIN ch /\ Tail(ch)[j] = ch[j + 1]
      BY FirstEvent
    <3>2. i + 1 = j + 1
      BY <2>1, <2>2, <2>3, <3>1
    <3> QED
      BY <3>2, FirstEvent
  <2> QED
    BY <2>1, <2>2, <2>3
<1> QED
  BY <1>1 DEF ChannelSound

\* The calls, when an event of a run is taken that is no call or is dropped.
LEMMA EventLeaves ==
  ASSUME TypeOK, CallsSound, NEW r \in Runs, channel[r] # <<>>, call' = call,
         channel' = [channel EXCEPT ![r] = Tail(@)],
         \A s \in Runs : view'[s].queue = view[s].queue
  PROVE  CallsSound'
<1>1. channel \in [Runs -> Seq(Events)]
  BY Typed
<1>2. ASSUME NEW s \in Runs PROVE QueuesSound(s)'
  <2>1. QueuesSound(s)
    BY DEF CallsSound
  <2>2. CASE s # r
    BY <1>1, <2>1, <2>2 DEF QueuesSound
  <2>3. CASE s = r
    <3>1. channel'[r] = Tail(channel[r]) /\ channel[r] \in Seq(Events)
      BY <1>1
    <3>2. ChannelSound(channel'[r], view[r].queue, r, call)
      BY <3>1, <2>1, <2>3, LeavesChannel DEF QueuesSound
    <3> QED
      BY <3>2, <2>1, <2>3 DEF QueuesSound
  <2> QED
    BY <2>2, <2>3
<1> QED
  BY <1>2 DEF CallsSound

\* An event that is no call: what is left to show.
LEMMA EventKeeps ==
  ASSUME IInv, NEW r \in Runs, NEW e, Receive(r, e),
         NEW v \in ViewType, view' = [view EXCEPT ![r] = v], v.queue = view[r].queue,
         v.stage = view[r].stage,
         Place(r) = "current" /\ RunSound(Place(r), view[r], host[r], channel[r]) =>
           RunSound(Place(r), v, host[r], Tail(channel[r])),
         UNCHANGED <<planApproved, currentRun, host, call, noise>>,
         turn' \in [Turns -> TurnType], TurnsSound', BudgetSound', TurnsGoOn,
         abortRequested' \in BOOLEAN, abortRequested => abortRequested',
         cancels' = cancels \/ Cancel({currentRun})
  PROVE  IInv'
<1>1. /\ view \in [Runs -> ViewType] /\ channel \in [Runs -> Seq(Events)]
      /\ currentRun \in Runs \cup {None} /\ call \in [Calls -> CallType]
      /\ planApproved \in BOOLEAN /\ cancels \subseteq Runs /\ host \in [Runs -> HostType]
  BY Typed DEF IInv, TypeOK
<1>2. /\ channel[r] # <<>> /\ channel' = [channel EXCEPT ![r] = Tail(@)]
  BY DEF Receive
<1>3. RunSound(Place(r), view[r], host[r], channel[r])
  BY RunIsSound DEF IInv
<1>4. Place(r) = "current"
  BY <1>2, <1>3, BusyIsCurrent DEF IInv
<1>5. /\ channel' \in [Runs -> Seq(Events)] /\ channel'[r] = Tail(channel[r])
      /\ \A s \in Runs \ {r} : channel'[s] = channel[s]
  BY <1>1, <1>2, FirstEvent
<1>6. CallsSound'
  <2>1. \A s \in Runs : view'[s].queue = view[s].queue
    BY <1>1
  <2> QED
    BY <1>2, <2>1, EventLeaves DEF IInv
<1>7. /\ cancels \subseteq cancels' /\ cancels' \subseteq Runs
      /\ cancels' \subseteq cancels \cup {r, currentRun}
  BY <1>1, CancelsSome DEF IInv
<1>8. host[r].stage \notin {"none", "invoked"}
  BY <1>2, <1>3 DEF RunSound
<1>9. RunSound(Place(r), v, host[r], channel'[r])
  BY <1>3, <1>4, <1>5
<1> QED
  BY <1>1, <1>5, <1>6, <1>7, <1>8, <1>9, WebviewKeeps

LEMMA OnTextKeeps ==
  ASSUME IInv, NEW r \in Runs, OnText(r)
  PROVE  IInv'
<1> DEFINE v == [view[r] EXCEPT !.activity = TRUE]
<1>1. /\ view \in [Runs -> ViewType] /\ channel \in [Runs -> Seq(Events)]
      /\ abortRequested \in BOOLEAN
  BY Typed DEF IInv, TypeOK
<1>2. /\ Receive(r, Other("text")) /\ view' = [view EXCEPT ![r] = v]
      /\ UNCHANGED <<abortRequested, planApproved, currentRun, turn, cancels, host, call, noise>>
  BY DEF OnText, generatorVars
<1>3. /\ v \in ViewType /\ v.queue = view[r].queue /\ v.stage = view[r].stage
      /\ v.settled = view[r].settled /\ v.executing = view[r].executing
      /\ v.done = view[r].done
  BY <1>1 DEF ViewType
<1>4. channel[r] \in Seq(Events) /\ channel[r] # <<>>
  BY <1>1, <1>2 DEF Receive
<1> HIDE DEF v
<1>5. Place(r) = "current" /\ RunSound(Place(r), view[r], host[r], channel[r]) =>
        RunSound(Place(r), v, host[r], Tail(channel[r]))
  BY <1>3, <1>4, EventTaken
<1>6. CallsGoOn
  BY <1>2 DEF CallsGoOn
<1>7. turn' \in [Turns -> TurnType] /\ TurnsSound' /\ TurnsGoOn /\ BudgetSound'
  BY <1>2, <1>6, TurnsSameGoOn, BudgetSame DEF IInv
<1> QED
  BY <1>1, <1>2, <1>3, <1>5, <1>7, EventKeeps

LEMMA OnTextOverflowKeeps ==
  ASSUME IInv, NEW r \in Runs, OnTextOverflow(r)
  PROVE  IInv'
<1> DEFINE v == [view[r] EXCEPT !.error = TRUE]
<1>1. view \in [Runs -> ViewType] /\ channel \in [Runs -> Seq(Events)]
  BY Typed DEF IInv
<1>2. /\ Receive(r, Other("text")) /\ view' = [view EXCEPT ![r] = v]
      /\ abortRequested' = TRUE /\ Cancel({currentRun})
      /\ UNCHANGED <<planApproved, currentRun, turn, host, call, noise>>
  BY DEF OnTextOverflow
<1>3. /\ v \in ViewType /\ v.queue = view[r].queue /\ v.stage = view[r].stage
      /\ v.settled = view[r].settled /\ v.executing = view[r].executing
      /\ v.done = view[r].done
  BY <1>1 DEF ViewType
<1>4. channel[r] \in Seq(Events) /\ channel[r] # <<>>
  BY <1>1, <1>2 DEF Receive
<1> HIDE DEF v
<1>5. Place(r) = "current" /\ RunSound(Place(r), view[r], host[r], channel[r]) =>
        RunSound(Place(r), v, host[r], Tail(channel[r]))
  BY <1>3, <1>4, EventTaken
<1>6. CallsGoOn
  BY <1>2 DEF CallsGoOn
<1>7. turn' \in [Turns -> TurnType] /\ TurnsSound' /\ TurnsGoOn /\ BudgetSound'
  BY <1>2, <1>6, TurnsSameGoOn, BudgetSame DEF IInv
<1> QED
  BY <1>2, <1>3, <1>5, <1>7, EventKeeps

LEMMA OnDoneKeeps ==
  ASSUME IInv, NEW r \in Runs, NEW k \in Ends, OnDone(r, k)
  PROVE  IInv'
<1> DEFINE v == [view[r] EXCEPT !.done = k, !.awaited = Unfinished(r)]
<1>1. /\ view \in [Runs -> ViewType] /\ channel \in [Runs -> Seq(Events)]
      /\ abortRequested \in BOOLEAN
  BY Typed DEF IInv, TypeOK
<1>2. /\ Receive(r, Other(k)) /\ view' = [view EXCEPT ![r] = v]
      /\ UNCHANGED <<abortRequested, planApproved, currentRun, turn, cancels, host, call, noise>>
  BY DEF OnDone, generatorVars
<1>3. Unfinished(r) \in SUBSET Calls /\ Unfinished(r) = Work(view[r])
  BY QueueTyped DEF IInv, Unfinished, Work
<1>4. /\ v \in ViewType /\ v.queue = view[r].queue /\ v.stage = view[r].stage
      /\ v.settled = view[r].settled /\ v.executing = view[r].executing
      /\ v.done = k /\ v.awaited = Work(view[r])
  BY <1>1, <1>3 DEF ViewType
<1>5. channel[r] \in Seq(Events) /\ channel[r] # <<>> /\ Head(channel[r]).type \in Ends
  BY <1>1, <1>2 DEF Receive, Other
<1> HIDE DEF v
<1>6. Place(r) = "current" /\ RunSound(Place(r), view[r], host[r], channel[r]) =>
        RunSound(Place(r), v, host[r], Tail(channel[r]))
  BY <1>4, <1>5, EndTaken
<1>7. CallsGoOn
  BY <1>2 DEF CallsGoOn
<1>8. turn' \in [Turns -> TurnType] /\ TurnsSound' /\ TurnsGoOn /\ BudgetSound'
  BY <1>2, <1>7, TurnsSameGoOn, BudgetSame DEF IInv
<1> QED
  BY <1>1, <1>2, <1>4, <1>6, <1>8, EventKeeps

-----------------------------------------------------------------------------
(* The budget.                                                              *)

LEMMA RanIsFinite ==
  ASSUME NEW t
  PROVE  IsFiniteSet(Ran(t)) /\ Cardinality(Ran(t)) \in Nat
<1>1. IsFiniteSet(Calls)
  BY LocalAgentAssumption, FS_Interval DEF Calls
<1>2. Ran(t) \subseteq Calls
  BY DEF Ran
<1> QED
  BY <1>1, <1>2, FS_Subset, FS_CardinalityType

\* A turn whose counters change, and which is exhausted at its limit.
LEMMA TurnCounts ==
  ASSUME IInv, NEW t \in Turns, NEW used \in 0..MaxToolCalls,
         NEW searches \in 0..MaxToolCalls,
         turn' = [turn EXCEPT ![t] = [turn[t] EXCEPT !.used = used,
                                                     !.exhausted = (used = MaxToolCalls),
                                                     !.searches = searches]]
  PROVE  /\ turn' \in [Turns -> TurnType] /\ TurnsSound' /\ TurnsGoOn
         /\ turn'[t].used = used /\ turn'[t].searches = searches
         /\ \A u \in Turns \ {t} : turn'[u] = turn[u]
<1>1. turn \in [Turns -> TurnType]
  BY Typed DEF IInv
<1> DEFINE new == [turn[t] EXCEPT !.used = used, !.exhausted = (used = MaxToolCalls),
                                  !.searches = searches]
<1>2. /\ new \in TurnType /\ new.used = used /\ new.searches = searches
      /\ new.exhausted = (used = MaxToolCalls) /\ new.pc = turn[t].pc /\ new.attempt = turn[t].attempt
      /\ new.resumed = turn[t].resumed /\ new.continued = turn[t].continued
      /\ new.stopped = turn[t].stopped /\ new.approved = turn[t].approved
  BY <1>1 DEF TurnType
<1>3. turn' = [turn EXCEPT ![t] = new]
  OBVIOUS
<1> HIDE DEF new
<1>4. /\ turn' \in [Turns -> TurnType] /\ turn'[t] = new
      /\ \A u \in Turns \ {t} : turn'[u] = turn[u]
  BY <1>1, <1>2, <1>3
<1>5. TurnSound(new)
  BY <1>2 DEF IInv, TurnsSound, TurnSound
<1>6. TurnsSound'
  BY <1>4, <1>5 DEF IInv, TurnsSound
<1>7. TurnsGoOn
  <2>1. ASSUME NEW u \in Turns
        PROVE  /\ turn'[u].pc = turn[u].pc /\ turn'[u].attempt = turn[u].attempt
               /\ turn'[u].continued = turn[u].continued /\ turn'[u].stopped = turn[u].stopped
               /\ turn[u].approved => turn'[u].approved
    BY <1>2, <1>4
  <2> QED
    BY <2>1 DEF TurnsGoOn
<1> QED
  BY <1>2, <1>4, <1>6, <1>7

LEMMA Consumes ==
  ASSUME IInv, NEW t \in Turns, turn[t].used < MaxToolCalls, NEW n \in {0, 1},
         turn' = [turn EXCEPT ![t] = [turn[t] EXCEPT
           !.used = turn[t].used + 1, !.exhausted = turn[t].used + 1 >= MaxToolCalls,
           !.searches = turn[t].searches + n]]
  PROVE  /\ turn' \in [Turns -> TurnType] /\ TurnsSound' /\ TurnsGoOn
         /\ turn'[t].used = turn[t].used + 1 /\ turn'[t].searches = turn[t].searches + n
         /\ \A u \in Turns \ {t} : turn'[u] = turn[u]
<1> DEFINE used == turn[t].used + 1
           searches == turn[t].searches + n
<1>1. turn[t].used \in 0..MaxToolCalls /\ turn[t].searches \in 0..MaxToolCalls
  BY Typed DEF IInv, TurnType
<1>2. MaxToolCalls \in Nat
  BY LocalAgentAssumption
<1>3. Cardinality(Ran(t)) \in Nat /\ Cardinality(Ran(t)) + turn[t].searches = turn[t].used
  BY RanIsFinite DEF IInv, BudgetSound
<1>4. /\ used \in 0..MaxToolCalls /\ searches \in 0..MaxToolCalls
      /\ (used >= MaxToolCalls) = (used = MaxToolCalls)
  BY <1>1, <1>2, <1>3, SMTT(60)
<1>5. turn' = [turn EXCEPT ![t] = [turn[t] EXCEPT !.used = used,
                                                  !.exhausted = (used = MaxToolCalls),
                                                  !.searches = searches]]
  BY <1>4
<1> HIDE DEF used, searches
<1>6. /\ turn' \in [Turns -> TurnType] /\ TurnsSound' /\ TurnsGoOn
      /\ turn'[t].used = used /\ turn'[t].searches = searches
      /\ \A u \in Turns \ {t} : turn'[u] = turn[u]
  BY <1>4, <1>5, TurnCounts, ZenonT(60)
<1> QED
  BY <1>6 DEF used, searches

\* A search of the provider is counted like a tool; one too many cancels the run.
LEMMA OnNativeToolKeeps ==
  ASSUME IInv, NEW r \in Runs, OnNativeTool(r)
  PROVE  IInv'
<1> DEFINE v == [view[r] EXCEPT !.activity = TRUE]
           t == r[1]
<1>1. /\ view \in [Runs -> ViewType] /\ channel \in [Runs -> Seq(Events)]
      /\ abortRequested \in BOOLEAN /\ turn \in [Turns -> TurnType] /\ t \in Turns
  BY Typed, RunParts DEF IInv, TypeOK
<1>2. /\ Receive(r, Other("search")) /\ view' = [view EXCEPT ![r] = v]
      /\ UNCHANGED <<abortRequested, planApproved, currentRun, host, call, noise>>
  BY DEF OnNativeTool, generatorVars
<1>3. /\ v \in ViewType /\ v.queue = view[r].queue /\ v.stage = view[r].stage
      /\ v.settled = view[r].settled /\ v.executing = view[r].executing
      /\ v.done = view[r].done
  BY <1>1 DEF ViewType
<1>4. channel[r] \in Seq(Events) /\ channel[r] # <<>>
  BY <1>1, <1>2 DEF Receive
<1> HIDE DEF v
<1>5. Place(r) = "current" /\ RunSound(Place(r), view[r], host[r], channel[r]) =>
        RunSound(Place(r), v, host[r], Tail(channel[r]))
  BY <1>3, <1>4, EventTaken
<1>6. \A u : Ran(u)' = Ran(u)
  BY <1>2 DEF Ran
<1>7. CASE turn[t].used < MaxToolCalls
  <2>1. /\ cancels' = cancels
        /\ turn' = [turn EXCEPT ![t] = [turn[t] EXCEPT
             !.used = turn[t].used + 1, !.exhausted = turn[t].used + 1 >= MaxToolCalls,
             !.searches = turn[t].searches + 1]]
    BY <1>1, <1>7, SMTT(60) DEF OnNativeTool, Consume, TurnType
  <2> HIDE DEF t
  <2>2. /\ turn' \in [Turns -> TurnType] /\ TurnsSound' /\ TurnsGoOn
        /\ turn'[t].used = turn[t].used + 1 /\ turn'[t].searches = turn[t].searches + 1
        /\ \A u \in Turns \ {t} : turn'[u] = turn[u]
    BY <1>1, <1>7, <2>1, Consumes
  <2>3. BudgetSound'
    <3>1. ASSUME NEW u \in Turns
          PROVE  Cardinality(Ran(u)') + turn'[u].searches = turn'[u].used
      <4>1. /\ Cardinality(Ran(u)) \in Nat /\ turn[u].searches \in Nat /\ turn[u].used \in Nat
            /\ Cardinality(Ran(u)) + turn[u].searches = turn[u].used
        BY <1>1, RanIsFinite, LocalAgentAssumption DEF IInv, BudgetSound, TurnType
      <4> QED
        BY <1>6, <2>2, <4>1
    <3> QED
      BY <3>1 DEF BudgetSound
  <2> QED
    BY <1>1, <1>2, <1>3, <1>5, <2>1, <2>2, <2>3, EventKeeps
<1>8. CASE ~(turn[t].used < MaxToolCalls)
  <2>1. turn[t].used = MaxToolCalls /\ turn[t].searches \in 0..MaxToolCalls
    BY <1>1, <1>8, LocalAgentAssumption DEF TurnType
  <2>2. Cancel({currentRun})
    BY <1>8 DEF OnNativeTool
  <2>3. turn' = turn
    <3>1. turn[t].exhausted
      BY <1>1, <2>1 DEF IInv, TurnsSound, TurnSound
    <3>2. turn' = Consume(t)
      BY <1>8 DEF OnNativeTool
    <3>3. (turn[t].used + 1 >= MaxToolCalls) = TRUE
      BY <2>1, LocalAgentAssumption
    <3>4. turn[t].exhausted = TRUE
      BY <1>1, <3>1 DEF TurnType
    <3> HIDE DEF t
    <3>5. turn' = [turn EXCEPT ![t] = [turn[t] EXCEPT !.used = turn[t].used,
                                                     !.exhausted = turn[t].exhausted]]
      BY <1>8, <3>2, <3>3, <3>4 DEF Consume
    <3> QED
      BY <1>1, <3>5 DEF TurnType
  <2>4. CallsGoOn
    BY <1>2 DEF CallsGoOn
  <2>5. turn' \in [Turns -> TurnType] /\ TurnsSound' /\ TurnsGoOn /\ BudgetSound'
    BY <2>3, <2>4, TurnsSameGoOn, BudgetSame DEF IInv
  <2> QED
    BY <1>1, <1>2, <1>3, <1>5, <2>2, <2>5, EventKeeps
<1> QED
  BY <1>7, <1>8

-----------------------------------------------------------------------------
(* Tool calls in the webview.                                               *)

LEMMA QueueEnds ==
  ASSUME NEW q \in Seq(Calls), NEW c \in Calls
  PROVE  /\ Append(q, c) \in Seq(Calls) /\ Len(q) \in Nat
         /\ DOMAIN q = 1..Len(q) /\ DOMAIN Append(q, c) = 1..(Len(q) + 1)
         /\ \A i \in 1..(Len(q) + 1) : i \in DOMAIN q \/ i = Len(q) + 1
         /\ \A i \in DOMAIN q : Append(q, c)[i] = q[i] /\ i # Len(q) + 1
         /\ Append(q, c)[Len(q) + 1] = c
OBVIOUS

LEMMA QueueStarts ==
  ASSUME NEW q \in Seq(Calls), q # <<>>
  PROVE  /\ Tail(q) \in Seq(Calls) /\ Head(q) \in Calls /\ Head(q) = q[1] /\ 1 \in DOMAIN q
         /\ \A i \in DOMAIN Tail(q) : i + 1 \in DOMAIN q /\ Tail(q)[i] = q[i + 1] /\ i + 1 # 1
         /\ \A i, j \in DOMAIN Tail(q) : i + 1 = j + 1 => i = j
         /\ \A i \in DOMAIN q : i = 1 \/ (i - 1 \in DOMAIN Tail(q) /\ q[i] = Tail(q)[i - 1])
<1>1. /\ Len(q) \in Nat \ {0} /\ DOMAIN q = 1..Len(q)
      /\ Len(Tail(q)) = Len(q) - 1 /\ DOMAIN Tail(q) = 1..(Len(q) - 1)
      /\ Tail(q) \in Seq(Calls) /\ Head(q) = q[1]
      /\ \A i \in 1..(Len(q) - 1) : Tail(q)[i] = q[i + 1]
  OBVIOUS
<1>2. q[1] \in Calls
  BY <1>1
<1>3. \A i \in DOMAIN q : i = 1 \/ (i - 1 \in DOMAIN Tail(q) /\ q[i] = Tail(q)[i - 1])
  BY <1>1
<1> QED
  BY <1>1, <1>2, <1>3

LEMMA JoinsQueue ==
  ASSUME NEW r, NEW calls, NEW ch \in Seq(Events), ch # <<>>, NEW q \in Seq(Calls),
         NEW c \in Calls, Head(ch) = ToolRequest(c),
         QueueSound(q, r, calls), ChannelSound(ch, q, r, calls)
  PROVE  QueueSound(Append(q, c), r, calls) /\ ChannelSound(Tail(ch), Append(q, c), r, calls)
<1> DEFINE n == Len(q)
           now == Append(q, c)
<1>1. /\ DOMAIN now = 1..(n + 1) /\ \A i \in 1..(n + 1) : i \in DOMAIN q \/ i = n + 1
      /\ \A i \in DOMAIN q : now[i] = q[i] /\ i # n + 1
      /\ now[n + 1] = c
  BY QueueEnds
<1>2. 1 \in DOMAIN ch /\ ch[1].type = "toolRequest" /\ ch[1].callId = c
  BY FirstEvent DEF ToolRequest
<1>3. /\ Mine(c, r, calls) /\ \A j \in DOMAIN ch : ch[1] = ch[j] => 1 = j
      /\ \A j \in DOMAIN q : c # q[j]
  BY <1>2 DEF ChannelSound
<1>4. ASSUME NEW i \in DOMAIN Tail(ch), Tail(ch)[i].type = "toolRequest"
      PROVE  Tail(ch)[i].callId # c
  <2>1. i + 1 \in DOMAIN ch /\ Tail(ch)[i] = ch[i + 1] /\ i + 1 # 1 /\ ch[i + 1] \in Events
    BY FirstEvent
  <2>2. ch[i + 1] # ch[1]
    BY <1>3, <2>1
  <2>3. ASSUME ch[i + 1].callId = c PROVE ch[i + 1] = ToolRequest(c)
    BY <1>4, <2>1, <2>3 DEF Events, Ends, ToolRequest
  <2> QED
    BY <2>1, <2>2, <2>3, FirstEvent
<1> HIDE DEF n, now
<1>5. QueueSound(now, r, calls)
  BY <1>1, <1>3 DEF QueueSound
<1>6. ChannelSound(Tail(ch), now, r, calls)
  <2>1. ChannelSound(Tail(ch), q, r, calls)
    BY LeavesChannel
  <2> QED
    BY <2>1, <1>1, <1>4 DEF ChannelSound
<1> QED
  BY <1>5, <1>6 DEF now

LEMMA LeavesQueue ==
  ASSUME NEW r, NEW calls, NEW ch, NEW q \in Seq(Calls), q # <<>>,
         QueueSound(q, r, calls), ChannelSound(ch, q, r, calls)
  PROVE  /\ QueueSound(Tail(q), r, calls) /\ ChannelSound(ch, Tail(q), r, calls)
         /\ Mine(Head(q), r, calls)
         /\ \A i \in DOMAIN Tail(q) : Tail(q)[i] # Head(q)
         /\ \A i \in DOMAIN ch : ch[i].type = "toolRequest" => ch[i].callId # Head(q)
<1>1. QueueSound(Tail(q), r, calls)
  <2>1. \A i \in DOMAIN Tail(q) : Mine(Tail(q)[i], r, calls)
    BY QueueStarts DEF QueueSound
  <2>2. \A i, j \in DOMAIN Tail(q) : Tail(q)[i] = Tail(q)[j] => i = j
    BY QueueStarts DEF QueueSound
  <2> QED
    BY <2>1, <2>2 DEF QueueSound
<1>2. ChannelSound(ch, Tail(q), r, calls)
  BY QueueStarts DEF ChannelSound
<1>3. Mine(Head(q), r, calls) /\ \A i \in DOMAIN Tail(q) : Tail(q)[i] # Head(q)
  BY QueueStarts DEF QueueSound
<1>4. \A i \in DOMAIN ch : ch[i].type = "toolRequest" => ch[i].callId # Head(q)
  BY QueueStarts DEF ChannelSound
<1> QED
  BY <1>1, <1>2, <1>3, <1>4

\* A call reaches the queue of its run.
LEMMA OnToolRequestKeeps ==
  ASSUME IInv, NEW r \in Runs, NEW c \in Calls, OnToolRequest(r, c)
  PROVE  IInv'
<1> DEFINE v == [view[r] EXCEPT !.queue = Append(view[r].queue, c)]
<1>1. /\ view \in [Runs -> ViewType] /\ channel \in [Runs -> Seq(Events)]
      /\ abortRequested \in BOOLEAN /\ planApproved \in BOOLEAN
      /\ call \in [Calls -> CallType] /\ cancels \subseteq Runs
      /\ view[r].queue \in Seq(Calls) /\ channel[r] \in Seq(Events)
  BY Typed, QueueTyped DEF IInv, TypeOK
<1>2. /\ channel[r] # <<>> /\ Head(channel[r]) = ToolRequest(c)
      /\ channel' = [channel EXCEPT ![r] = Tail(@)]
      /\ view' = [view EXCEPT ![r] = v] /\ currentRun' = r
      /\ UNCHANGED <<abortRequested, planApproved, turn, cancels, host, call, noise>>
  BY <1>1 DEF OnToolRequest, Receive
<1>3. /\ v \in ViewType /\ v.queue = Append(view[r].queue, c) /\ v.stage = view[r].stage
      /\ v.settled = view[r].settled /\ v.executing = view[r].executing
      /\ v.done = view[r].done
  <2>1. Append(view[r].queue, c) \in Seq(Calls)
    BY <1>1, QueueEnds
  <2>2. view[r] \in ViewType
    BY <1>1
  <2> QED
    BY <2>1, <2>2 DEF ViewType
<1> HIDE DEF v
<1>4. RunSound(Place(r), view[r], host[r], channel[r])
  BY RunIsSound DEF IInv
<1>5. Place(r) = "current" /\ host[r].stage \notin {"none", "invoked"}
  <2>1. host[r].stage \notin {"none", "invoked"}
    BY <1>2, <1>4 DEF RunSound
  <2> QED
    BY <1>2, <1>4, <2>1, BusyIsCurrent DEF IInv
<1>6. /\ channel' \in [Runs -> Seq(Events)] /\ channel'[r] = Tail(channel[r])
      /\ \A s \in Runs \ {r} : channel'[s] = channel[s] /\ view'[s] = view[s]
      /\ view'[r] = v
  BY <1>1, <1>2, FirstEvent
<1>7. RunSound(Place(r), v, host[r], channel'[r])
  <2>1. RunSound("current", v, host[r], Tail(channel[r]))
    BY <1>1, <1>2, <1>3, <1>4, <1>5, EventTaken
  <2> QED
    BY <2>1, <1>5, <1>6
<1>8. CallsSound'
  <2>1. ASSUME NEW s \in Runs PROVE QueuesSound(s)'
    <3>1. QueuesSound(s)
      BY DEF IInv, CallsSound
    <3>2. CASE s # r
      BY <1>2, <1>6, <3>1, <3>2 DEF QueuesSound
    <3>3. CASE s = r
      <4>1. /\ QueueSound(Append(view[r].queue, c), r, call)
            /\ ChannelSound(Tail(channel[r]), Append(view[r].queue, c), r, call)
        BY <1>1, <1>2, <3>1, <3>3, JoinsQueue DEF QueuesSound
      <4>2. QueueSound(view'[r].queue, r, call')
        BY <1>2, <1>3, <1>6, <4>1
      <4>3. ChannelSound(channel'[r], view'[r].queue, r, call')
        BY <1>2, <1>3, <1>6, <4>1
      <4> QED
        BY <3>3, <4>2, <4>3 DEF QueuesSound
    <3> QED
      BY <3>2, <3>3
  <2> QED
    BY <1>2, <2>1 DEF IInv, CallsSound
<1>9. CallsGoOn
  BY <1>2 DEF CallsGoOn
<1>10. turn' \in [Turns -> TurnType] /\ TurnsSound' /\ TurnsGoOn /\ BudgetSound'
  BY <1>2, <1>9, TurnsSameGoOn, BudgetSame DEF IInv
<1> QED
  BY <1>1, <1>2, <1>3, <1>5, <1>6, <1>7, <1>8, <1>10, WebviewKeeps

\* A run that has a call to do is the current one, and it was started.
LEMMA RunWorks ==
  ASSUME IInv, NEW r \in Runs,
         view[r].queue # <<>> \/ view[r].executing # None \/ view[r].stage # "none"
  PROVE  /\ Place(r) = "current" /\ r[1] \in Turns
         /\ host[r].stage \notin {"none", "invoked"} /\ host[r].reply # "rejected"
         /\ RunSound("current", view[r], host[r], channel[r])
<1>1. RunSound(Place(r), view[r], host[r], channel[r])
  BY RunIsSound DEF IInv
<1>2. view[r].queue # <<>> \/ view[r].executing # None
  BY <1>1 DEF RunSound
<1>3. host[r].stage \notin {"none", "invoked"} /\ host[r].reply # "rejected"
  BY <1>1, <1>2 DEF RunSound
<1> QED
  BY <1>1, <1>3, BusyIsCurrent, RunParts DEF IInv

LEMMA WorkGoesOn ==
  ASSUME NEW v, NEW w, NEW h, NEW ch, RunSound("current", v, h, ch),
         h.stage \notin {"none", "invoked"}, h.reply # "rejected",
         w.settled = v.settled, w.done = v.done, w.awaited = v.awaited,
         Work(w) \subseteq Work(v), w.executing = None <=> w.stage = "none"
  PROVE  RunSound("current", w, h, ch)
BY DEF RunSound

\* A step of a tool call: what is left to show.
LEMMA ToolKeeps ==
  ASSUME IInv, NEW r \in Runs, NEW v \in ViewType, view' = [view EXCEPT ![r] = v],
         view[r].queue # <<>> \/ view[r].executing # None \/ view[r].stage # "none",
         v.settled = view[r].settled, v.done = view[r].done, v.awaited = view[r].awaited,
         Work(v) \subseteq Work(view[r]), v.executing = None <=> v.stage = "none",
         UNCHANGED <<abortRequested, currentRun, hostVars>>, CallsSound',
         call' \in [Calls -> CallType], turn' \in [Turns -> TurnType], TurnsSound',
         BudgetSound', TurnsGoOn, planApproved' \in BOOLEAN,
         planApproved' => planApproved \/ view[r].stage = "approved",
         v.stage = "approved" => view[r].stage = "approved" \/ turn'[r[1]].approved,
         cancels' = cancels \/ Cancel({r})
  PROVE  IInv'
<1>1. /\ abortRequested' = abortRequested /\ currentRun' = currentRun
      /\ host' = host /\ channel' = channel /\ noise' = noise
  BY DEF hostVars
<1>2. /\ channel \in [Runs -> Seq(Events)] /\ abortRequested \in BOOLEAN
      /\ cancels \subseteq Runs
  BY Typed DEF IInv, TypeOK
<1>3. /\ Place(r) = "current" /\ host[r].stage \notin {"none", "invoked"}
      /\ RunSound(Place(r), v, host[r], channel[r])
  BY RunWorks, WorkGoesOn
<1>4. /\ cancels \subseteq cancels' /\ cancels' \subseteq Runs
      /\ cancels' \subseteq cancels \cup {r, currentRun}
  <2>1. {r} \in SUBSET (Runs \cup {None})
    OBVIOUS
  <2> QED
    BY <1>2, <2>1, CancelsSome DEF IInv
<1>5. /\ RunSound(Place(r), v, host[r], channel'[r])
      /\ channel' \in [Runs -> Seq(Events)] /\ \A s \in Runs \ {r} : channel'[s] = channel[s]
      /\ abortRequested' \in BOOLEAN /\ (abortRequested => abortRequested')
      /\ host' = host /\ noise' = noise
  BY <1>1, <1>2, <1>3
<1> QED
  BY <1>1, <1>3, <1>4, <1>5, WebviewKeeps

LEMMA QueueShrinks ==
  ASSUME TypeOK, CallsSound, NEW r \in Runs, view[r].queue # <<>>, channel' = channel,
         view'[r].queue = Tail(view[r].queue),
         \A s \in Runs \ {r} : view'[s].queue = view[s].queue,
         NEW c, c = Head(view[r].queue),
         \/ call' = call
         \/ call' = [call EXCEPT ![c] = [call[c] EXCEPT !.ran = TRUE]]
  PROVE  CallsSound'
<1>1. /\ call \in [Calls -> CallType] /\ view[r].queue \in Seq(Calls) /\ c \in Calls
      /\ Tail(view[r].queue) \in Seq(Calls)
  BY Typed, QueueTyped, QueueStarts
<1>2. /\ QueueSound(Tail(view[r].queue), r, call)
      /\ ChannelSound(channel[r], Tail(view[r].queue), r, call)
      /\ Mine(c, r, call)
      /\ \A i \in DOMAIN Tail(view[r].queue) : Tail(view[r].queue)[i] # c
      /\ \A i \in DOMAIN channel[r] :
           channel[r][i].type = "toolRequest" => channel[r][i].callId # c
  <2> DEFINE q == view[r].queue
  <2>1. q \in Seq(Calls) /\ q # <<>> /\ c = Head(q)
    BY <1>1
  <2>2. QueueSound(q, r, call) /\ ChannelSound(channel[r], q, r, call)
    BY DEF CallsSound, QueuesSound
  <2> HIDE DEF q
  <2>3. /\ QueueSound(Tail(q), r, call) /\ ChannelSound(channel[r], Tail(q), r, call)
        /\ Mine(Head(q), r, call)
        /\ \A i \in DOMAIN Tail(q) : Tail(q)[i] # Head(q)
        /\ \A i \in DOMAIN channel[r] :
             channel[r][i].type = "toolRequest" => channel[r][i].callId # Head(q)
    <3>1. QueueSound(Tail(q), r, call) /\ ChannelSound(channel[r], Tail(q), r, call)
      BY <2>1, <2>2, LeavesQueue
    <3>2. Mine(Head(q), r, call)
      BY <2>1, <2>2, LeavesQueue
    <3>3. \A i \in DOMAIN Tail(q) : Tail(q)[i] # Head(q)
      BY <2>1, <2>2, LeavesQueue
    <3>4. \A i \in DOMAIN channel[r] :
             channel[r][i].type = "toolRequest" => channel[r][i].callId # Head(q)
      BY <2>1, <2>2, QueueStarts DEF ChannelSound
    <3> QED
      BY <3>1, <3>2, <3>3, <3>4
  <2> QED
    BY <2>1, <2>3 DEF q
<1>3. \A d \in Calls : /\ d # c => call'[d] = call[d]
                       /\ call'[d].run = call[d].run /\ call'[d].stage = call[d].stage
  BY <1>1 DEF CallType
<1>4. ASSUME NEW s \in Runs, NEW d \in Calls, Mine(d, s, call), s # r \/ d # c
      PROVE  Mine(d, s, call')
  BY <1>2, <1>3, <1>4 DEF Mine
<1>5. ASSUME NEW s \in Runs PROVE QueuesSound(s)'
  <2>1. CASE s # r
    <3>1. /\ QueueSound(view[s].queue, s, call')
          /\ ChannelSound(channel[s], view[s].queue, s, call')
      BY <1>4, <2>1, QueuesStay DEF CallsSound
    <3> QED
      BY <2>1, <3>1 DEF QueuesSound
  <2>2. CASE s = r
    <3> DEFINE q == Tail(view[r].queue)
    <3>1. \A i \in DOMAIN q : q[i] \in Calls
      BY <1>1
    <3>2. \A i \in DOMAIN channel[r] :
            channel[r][i].type = "toolRequest" => channel[r][i].callId \in Calls
      BY QueueTyped
    <3> HIDE DEF q
    <3>3. QueueSound(q, r, call')
      BY <1>2, <1>4, <3>1 DEF QueueSound, q
    <3>4. ChannelSound(channel[r], q, r, call')
      BY <1>2, <1>4, <3>2 DEF ChannelSound, q
    <3> QED
      BY <2>2, <3>3, <3>4 DEF QueuesSound, q
  <2> QED
    BY <2>1, <2>2
<1>6. ASSUME NEW d \in Calls, call'[d].stage = "none" PROVE ~call'[d].ran
  <2>1. call[d].stage = "none" /\ d # c
    BY <1>2, <1>3, <1>6 DEF Mine
  <2> QED
    BY <2>1, <1>3 DEF CallsSound
<1> QED
  BY <1>5, <1>6 DEF CallsSound

LEMMA TailWorks ==
  ASSUME NEW v, NEW w, v.queue \in Seq(Calls), v.queue # <<>>, w.queue = Tail(v.queue),
         w.executing = v.executing \/ w.executing = Head(v.queue)
  PROVE  Work(w) \subseteq Work(v)
<1>1. \A i \in DOMAIN w.queue : \E j \in DOMAIN v.queue : w.queue[i] = v.queue[j]
  BY QueueStarts
<1>2. Head(v.queue) \in {v.queue[i] : i \in DOMAIN v.queue}
  BY QueueStarts
<1> QED
  BY <1>1, <1>2 DEF Work

LEMMA ToolDroppedKeeps ==
  ASSUME IInv, NEW r \in Runs, ToolDropped(r)
  PROVE  IInv'
<1> DEFINE v == [view[r] EXCEPT !.queue = Tail(view[r].queue)]
<1>1. /\ view \in [Runs -> ViewType] /\ planApproved \in BOOLEAN
      /\ call \in [Calls -> CallType] /\ view[r].queue \in Seq(Calls)
  BY Typed, QueueTyped DEF IInv, TypeOK
<1>2. /\ view[r].queue # <<>> /\ view[r].executing = None
      /\ view' = [view EXCEPT ![r] = v] /\ Cancel({r})
      /\ UNCHANGED <<abortRequested, planApproved, currentRun, turn, hostVars, call>>
  BY <1>1 DEF ToolDropped, generatorVars
<1>3. Tail(view[r].queue) \in Seq(Calls)
  BY <1>1, <1>2, QueueStarts
<1>4. /\ v \in ViewType /\ v.queue = Tail(view[r].queue) /\ v.stage = view[r].stage
      /\ v.settled = view[r].settled /\ v.executing = view[r].executing
      /\ v.done = view[r].done /\ v.awaited = view[r].awaited
  BY <1>1, <1>3 DEF ViewType
<1> HIDE DEF v
<1>5. view'[r] = v /\ \A s \in Runs \ {r} : view'[s] = view[s]
  BY <1>1, <1>2
<1>6. Work(v) \subseteq Work(view[r]) /\ (v.executing = None <=> v.stage = "none")
  <2>1. RunSound("current", view[r], host[r], channel[r])
    BY <1>2, RunWorks
  <2>2. v.executing = None <=> v.stage = "none"
    BY <2>1, <1>4 DEF RunSound
  <2> QED
    BY <1>1, <1>2, <1>4, <2>2, TailWorks
<1>7. CallsSound'
  BY <1>2, <1>4, <1>5, QueueShrinks DEF IInv, hostVars
<1>8. CallsGoOn
  BY <1>2 DEF CallsGoOn
<1>9. turn' \in [Turns -> TurnType] /\ TurnsSound' /\ TurnsGoOn /\ BudgetSound'
  BY <1>2, <1>8, TurnsSameGoOn, BudgetSame DEF IInv
<1> QED
  BY <1>1, <1>2, <1>4, <1>6, <1>7, <1>9, ToolKeeps

\* A call that starts is counted, before it runs and only then.
LEMMA ToolStartsKeeps ==
  ASSUME IInv, NEW r \in Runs, ToolStarts(r)
  PROVE  IInv'
<1> DEFINE c == Head(view[r].queue)
           t == r[1]
           v == [view[r] EXCEPT !.queue = Tail(view[r].queue), !.executing = c,
                                !.stage = "running", !.activity = TRUE]
<1>1. /\ view \in [Runs -> ViewType] /\ planApproved \in BOOLEAN
      /\ call \in [Calls -> CallType] /\ view[r].queue \in Seq(Calls)
      /\ turn \in [Turns -> TurnType] /\ t \in Turns
  BY Typed, QueueTyped, RunParts DEF IInv, TypeOK
<1>2. /\ view[r].queue # <<>> /\ ~turn[t].exhausted
      /\ view' = [view EXCEPT ![r] = v]
      /\ turn' = Consume(t)
      /\ call' = [call EXCEPT ![c] = [call[c] EXCEPT !.ran = TRUE]]
      /\ UNCHANGED <<abortRequested, planApproved, currentRun, cancels, hostVars>>
  BY <1>1 DEF ToolStarts, generatorVars
<1>3. c \in Calls /\ Tail(view[r].queue) \in Seq(Calls)
  BY <1>1, <1>2, QueueStarts
<1>4. /\ v \in ViewType /\ v.queue = Tail(view[r].queue) /\ v.stage = "running"
      /\ v.settled = view[r].settled /\ v.executing = c
      /\ v.done = view[r].done /\ v.awaited = view[r].awaited
  BY <1>1, <1>3, ZenonT(60) DEF ViewType
<1> HIDE DEF v, t
<1>5. view'[r] = v /\ \A s \in Runs \ {r} : view'[s] = view[s]
  BY <1>1, <1>2
<1>6. Work(v) \subseteq Work(view[r]) /\ (v.executing = None <=> v.stage = "none")
  <2>1. c # None
    BY <1>3, LocalAgentAssumption
  <2> QED
    BY <1>1, <1>2, <1>4, <2>1, TailWorks
<1>7. CallsSound'
  <2> HIDE DEF c
  <2>1. c = Head(view[r].queue)
    BY DEF c
  <2> QED
    BY <1>2, <1>4, <1>5, <2>1, QueueShrinks DEF IInv, hostVars
<1>8. Mine(c, r, call)
  BY <1>1, <1>2, LeavesQueue DEF IInv, CallsSound, QueuesSound
<1> HIDE DEF c
<1>9. turn[t].used \in 0..MaxToolCalls /\ turn[t].used < MaxToolCalls
  BY <1>1, <1>2, LocalAgentAssumption DEF IInv, TurnsSound, TurnSound, TurnType
<1>10. turn' = [turn EXCEPT ![t] = [turn[t] EXCEPT
         !.used = turn[t].used + 1, !.exhausted = turn[t].used + 1 >= MaxToolCalls,
         !.searches = turn[t].searches + 0]]
  <2>1. turn[t].searches + 0 = turn[t].searches
    BY <1>1, LocalAgentAssumption DEF TurnType
  <2> QED
    BY <1>1, <1>2, <1>9, <2>1 DEF Consume, TurnType
<1>11. /\ turn' \in [Turns -> TurnType] /\ TurnsSound' /\ TurnsGoOn
       /\ turn'[t].used = turn[t].used + 1 /\ turn'[t].searches = turn[t].searches + 0
       /\ \A u \in Turns \ {t} : turn'[u] = turn[u]
  BY <1>1, <1>9, <1>10, Consumes
<1>12. /\ call' \in [Calls -> CallType] /\ call'[c].run = r /\ call'[c].ran
       /\ \A d \in Calls \ {c} : call'[d] = call[d]
  BY <1>1, <1>2, <1>3, <1>8 DEF CallType, Mine
<1>13. BudgetSound'
  <2>1. ASSUME NEW u \in Turns
        PROVE  Cardinality(Ran(u)') + turn'[u].searches = turn'[u].used
    <3>1. /\ Cardinality(Ran(u)) \in Nat /\ turn[u].searches \in Nat /\ turn[u].used \in Nat
          /\ Cardinality(Ran(u)) + turn[u].searches = turn[u].used /\ IsFiniteSet(Ran(u))
      BY <1>1, RanIsFinite, LocalAgentAssumption DEF IInv, BudgetSound, TurnType
    <3>2. CASE u = t
      <4>1. Ran(t)' = Ran(t) \cup {c} /\ c \notin Ran(t)
        BY <1>3, <1>8, <1>12 DEF Ran, Mine, t
      <4>2. Cardinality(Ran(t)') = Cardinality(Ran(t)) + 1
        BY <3>1, <3>2, <4>1, FS_AddElement
      <4> QED
        BY <3>1, <3>2, <4>2, <1>11
    <3>3. CASE u # t
      <4>1. Ran(u)' = Ran(u)
        BY <1>3, <1>8, <1>12, <3>3 DEF Ran, Mine, t
      <4> QED
        BY <3>1, <3>3, <4>1, <1>11
    <3> QED
      BY <3>2, <3>3
  <2> QED
    BY <2>1 DEF BudgetSound
<1> QED
  BY <1>1, <1>2, <1>4, <1>6, <1>7, <1>11, <1>12, <1>13, ToolKeeps

\* A step of the call at work, which leaves the queue and the counters alone.
LEMMA WorkKeeps ==
  ASSUME IInv, NEW r \in Runs, NEW v \in ViewType, view' = [view EXCEPT ![r] = v],
         view[r].stage # "none",
         v.settled = view[r].settled, v.done = view[r].done, v.awaited = view[r].awaited,
         v.queue = view[r].queue, v.executing \in {view[r].executing, None},
         v.executing = None <=> v.stage = "none",
         UNCHANGED <<abortRequested, currentRun, hostVars>>,
         call' \in [Calls -> CallType], CallsGoOn,
         turn' \in [Turns -> TurnType], TurnsSound', TurnsGoOn,
         \A t \in Turns : turn'[t].used = turn[t].used /\ turn'[t].searches = turn[t].searches,
         planApproved' \in BOOLEAN,
         planApproved' => planApproved \/ view[r].stage = "approved",
         v.stage = "approved" => view[r].stage = "approved" \/ turn'[r[1]].approved,
         cancels' = cancels \/ Cancel({r})
  PROVE  IInv'
<1>1. view \in [Runs -> ViewType]
  BY Typed DEF IInv
<1>2. \A s \in Runs : view'[s].queue = view[s].queue
  BY <1>1
<1>3. CallsSound'
  BY <1>2, CallsSame DEF IInv, hostVars
<1>4. BudgetSound'
  BY BudgetSame DEF IInv
<1>5. Work(v) \subseteq Work(view[r])
  BY LocalAgentAssumption DEF Work
<1> QED
  BY <1>3, <1>4, <1>5, ToolKeeps

LEMMA UserApprovesKeeps ==
  ASSUME IInv, NEW r \in Runs, UserApproves(r)
  PROVE  IInv'
<1> DEFINE t == r[1]
           v == [view[r] EXCEPT !.stage = "approved"]
           rec == [turn[t] EXCEPT !.approved = TRUE]
<1>1. /\ view \in [Runs -> ViewType] /\ planApproved \in BOOLEAN
      /\ call \in [Calls -> CallType] /\ turn \in [Turns -> TurnType] /\ t \in Turns
  BY Typed, RunParts DEF IInv, TypeOK
<1>2. /\ view[r].stage = "running" /\ view' = [view EXCEPT ![r] = v]
      /\ turn' = [turn EXCEPT ![t] = rec]
      /\ UNCHANGED <<abortRequested, planApproved, currentRun, cancels, hostVars, call>>
  BY DEF UserApproves, generatorVars
<1>3. /\ v \in ViewType /\ v.queue = view[r].queue /\ v.stage = "approved"
      /\ v.settled = view[r].settled /\ v.executing = view[r].executing
      /\ v.done = view[r].done /\ v.awaited = view[r].awaited
  BY <1>1 DEF ViewType
<1>4. /\ rec \in TurnType /\ rec.approved /\ rec.pc = turn[t].pc
      /\ rec.attempt = turn[t].attempt /\ rec.continued = turn[t].continued
      /\ rec.stopped = turn[t].stopped /\ rec.resumed = turn[t].resumed
      /\ rec.used = turn[t].used /\ rec.searches = turn[t].searches
      /\ rec.exhausted = turn[t].exhausted
  BY <1>1, ZenonT(60) DEF TurnType
<1> HIDE DEF v, t, rec
<1>5. /\ turn' \in [Turns -> TurnType] /\ turn'[t] = rec
      /\ \A u \in Turns \ {t} : turn'[u] = turn[u]
  BY <1>1, <1>2, <1>4
<1>6. TurnsSound'
  <2>1. TurnSound(rec)
    BY <1>1, <1>4 DEF IInv, TurnsSound, TurnSound
  <2> QED
    BY <1>5, <2>1 DEF IInv, TurnsSound
<1>7. ASSUME NEW u \in Turns
      PROVE  /\ turn'[u].pc = turn[u].pc /\ turn'[u].attempt = turn[u].attempt
             /\ turn'[u].continued = turn[u].continued /\ turn'[u].stopped = turn[u].stopped
             /\ turn[u].approved => turn'[u].approved
             /\ turn'[u].used = turn[u].used /\ turn'[u].searches = turn[u].searches
  BY <1>4, <1>5
<1>8. TurnsGoOn /\ CallsGoOn
  BY <1>2, <1>7 DEF TurnsGoOn, CallsGoOn
<1>9. v.executing = None <=> v.stage = "none"
  <2>1. RunSound("current", view[r], host[r], channel[r])
    BY <1>2, RunWorks
  <2> QED
    BY <2>1, <1>2, <1>3 DEF RunSound
<1>10. turn'[r[1]].approved
  BY <1>4, <1>5 DEF t
<1> QED
  BY <1>1, <1>2, <1>3, <1>5, <1>6, <1>7, <1>8, <1>9, <1>10, WorkKeeps

\* What a step of a call assumes of the turns, when they stay as they are.
LEMMA StillTurns ==
  ASSUME IInv, turn' = turn
  PROVE  /\ turn' \in [Turns -> TurnType] /\ TurnsSound' /\ TurnsGoOn
         /\ \A t \in Turns : turn'[t].used = turn[t].used /\ turn'[t].searches = turn[t].searches
BY TurnsSameGoOn

LEMMA ToolReturnsKeeps ==
  ASSUME IInv, NEW r \in Runs, ToolReturns(r)
  PROVE  IInv'
<1> DEFINE v == [view[r] EXCEPT !.stage = "resolving"]
<1>1. /\ view \in [Runs -> ViewType] /\ planApproved \in BOOLEAN
      /\ call \in [Calls -> CallType]
  BY Typed DEF IInv, TypeOK
<1>2. /\ view[r].stage \in {"running", "approved"} /\ view' = [view EXCEPT ![r] = v]
      /\ planApproved' = (planApproved \/ view[r].stage = "approved")
      /\ UNCHANGED <<abortRequested, currentRun, turn, cancels, hostVars, call>>
  BY DEF ToolReturns
<1>3. /\ v \in ViewType /\ v.queue = view[r].queue /\ v.stage = "resolving"
      /\ v.settled = view[r].settled /\ v.executing = view[r].executing
      /\ v.done = view[r].done /\ v.awaited = view[r].awaited
  BY <1>1 DEF ViewType
<1> HIDE DEF v
<1>4. v.executing = None <=> v.stage = "none"
  <2>1. RunSound("current", view[r], host[r], channel[r])
    BY <1>2, RunWorks
  <2> QED
    BY <2>1, <1>2, <1>3 DEF RunSound
<1>5. CallsGoOn
  BY <1>2 DEF CallsGoOn
<1>6. planApproved' \in BOOLEAN /\ (planApproved' => planApproved \/ view[r].stage = "approved")
  BY <1>1, <1>2
<1> QED
  BY <1>1, <1>2, <1>3, <1>4, <1>5, <1>6, StillTurns, WorkKeeps

LEMMA ToolThrowsKeeps ==
  ASSUME IInv, NEW r \in Runs, ToolThrows(r)
  PROVE  IInv'
<1> DEFINE v == [view[r] EXCEPT !.executing = None, !.stage = "none", !.toolError = TRUE]
<1>1. /\ view \in [Runs -> ViewType] /\ planApproved \in BOOLEAN
      /\ call \in [Calls -> CallType]
  BY Typed DEF IInv, TypeOK
<1>2. /\ view[r].stage = "running" /\ view' = [view EXCEPT ![r] = v] /\ Cancel({r})
      /\ UNCHANGED <<abortRequested, planApproved, currentRun, turn, hostVars, call>>
  BY DEF ToolThrows, generatorVars
<1>3. /\ v \in ViewType /\ v.queue = view[r].queue /\ v.stage = "none"
      /\ v.settled = view[r].settled /\ v.executing = None
      /\ v.done = view[r].done /\ v.awaited = view[r].awaited
  BY <1>1 DEF ViewType
<1> HIDE DEF v
<1>4. CallsGoOn
  BY <1>2 DEF CallsGoOn
<1> QED
  BY <1>1, <1>2, <1>3, <1>4, StillTurns, WorkKeeps

LEMMA ToolResolvesKeeps ==
  ASSUME IInv, NEW r \in Runs, ToolResolves(r)
  PROVE  IInv'
<1> DEFINE c == view[r].executing
           waiting == host[r].bridged /\ call[c].stage = "pending"
           failed == view[r].toolError \/ ~waiting
           v == [view[r] EXCEPT !.executing = None, !.stage = "none", !.toolError = failed]
<1>1. /\ view \in [Runs -> ViewType] /\ planApproved \in BOOLEAN
      /\ call \in [Calls -> CallType] /\ host \in [Runs -> HostType]
  BY Typed DEF IInv, TypeOK
<1>2. /\ view[r].stage = "resolving" /\ view' = [view EXCEPT ![r] = v]
      /\ cancels' = cancels \/ Cancel({r})
      /\ \/ call' = call
         \/ waiting /\ call' = [call EXCEPT ![c] = [call[c] EXCEPT !.stage = "over"]]
      /\ UNCHANGED <<abortRequested, planApproved, currentRun, turn, hostVars>>
  BY DEF ToolResolves, generatorVars
<1>3. /\ v \in ViewType /\ v.queue = view[r].queue /\ v.stage = "none"
      /\ v.settled = view[r].settled /\ v.executing = None
      /\ v.done = view[r].done /\ v.awaited = view[r].awaited
  <2>1. failed \in BOOLEAN
    OBVIOUS
  <2> HIDE DEF failed
  <2> QED
    BY <1>1, <2>1, ZenonT(60) DEF ViewType
<1>4. c \in Calls
  <2>1. RunSound("current", view[r], host[r], channel[r])
    BY <1>2, RunWorks
  <2> QED
    BY <1>1, <1>2, <2>1 DEF RunSound, ViewType
<1>5. call' \in [Calls -> CallType] /\ CallsGoOn
  <2> HIDE DEF v, c
  <2> QED
    BY <1>1, <1>2, <1>4 DEF CallsGoOn, CallType
<1> HIDE DEF v, c, waiting
<1> QED
  BY <1>1, <1>2, <1>3, <1>5, StillTurns, WorkKeeps

-----------------------------------------------------------------------------
(* The turn.                                                                *)

LEMMA RunBegins ==
  ASSUME NEW v, NEW h, NEW ch, NEW g, RunSound("future", v, h, ch),
         g.stage = "invoked", g.reply = "none"
  PROVE  RunSound("current", v, g, ch)
<1>1. /\ v = NoView /\ ch = <<>> /\ v.queue = <<>> /\ v.executing = None /\ v.done = "no"
      /\ v.stage = "none" /\ ~v.settled
  BY DEF RunSound, NoView
<1> QED
  BY <1>1 DEF RunSound

LEMMA NothingToDo ==
  ASSUME NEW v, v.queue = <<>>, v.executing = None
  PROVE  Work(v) = {}
BY LocalAgentAssumption DEF Work

LEMMA RunIsPast ==
  ASSUME NEW v, NEW h, NEW ch, RunSound("future", v, h, ch)
  PROVE  RunSound("past", v, h, ch)
<1>1. /\ v = NoView /\ h = NoHost /\ ch = <<>> /\ v.queue = <<>> /\ v.executing = None
      /\ v.stage = "none" /\ h.stage = "none" /\ h.reply = "none" /\ v.done = "no"
  BY DEF RunSound, NoView, NoHost
<1>2. Work(v) = {}
  BY <1>1, NothingToDo
<1> QED
  BY <1>1, <1>2 DEF RunSound

\* Nothing is asked of a run that has not begun.
LEMMA NotYetATarget ==
  ASSUME IInv, NEW r \in Runs, Place(r) = "future"
  PROVE  r \notin cancels /\ r # currentRun /\ host[r].stage = "none"
<1>1. host[r] = NoHost
  BY RunIsSound DEF IInv, RunSound
<1> QED
  BY <1>1 DEF IInv, Targets, NoHost

\* A turn begins; the flags of the generator are its own from now on.
LEMMA GenerateKeeps ==
  ASSUME IInv, NEW t \in Turns, Generate(t)
  PROVE  IInv'
<1> DEFINE rec == [turn[t] EXCEPT !.pc = "preparing"]
<1>1. turn \in [Turns -> TurnType]
  BY Typed DEF IInv
<1>2. /\ MayGenerate(t) /\ turn' = [turn EXCEPT ![t] = rec]
      /\ ~abortRequested' /\ abortRequested' \in BOOLEAN
      /\ ~planApproved' /\ planApproved' \in BOOLEAN
      /\ UNCHANGED <<currentRun, view, cancels, host, channel, noise, call>>
  BY DEF Generate, hostVars
<1>3. /\ rec \in TurnType /\ rec.pc = "preparing" /\ rec.stopped = turn[t].stopped
      /\ rec.continued = turn[t].continued /\ rec.used = turn[t].used
      /\ rec.searches = turn[t].searches /\ rec.exhausted = turn[t].exhausted
      /\ rec.approved = turn[t].approved
  BY <1>1 DEF TurnType
<1> HIDE DEF rec
<1>4. /\ turn' \in [Turns -> TurnType] /\ turn'[t] = rec
      /\ \A u \in Turns \ {t} : turn'[u] = turn[u]
  BY <1>1, <1>2, <1>3
<1>5. turn[t].pc = "idle" /\ TurnSound(turn[t])
  BY <1>2 DEF MayGenerate, IInv, TurnsSound
<1>6. ~rec.stopped /\ ~rec.continued
  BY <1>3, <1>5 DEF TurnSound
<1>7. TypeOK'
  BY <1>2, <1>4 DEF IInv, TypeOK, TurnType
<1>8. TurnsSound'
  <2>1. TurnSound(rec)
    BY <1>3, <1>5 DEF TurnSound
  <2> QED
    BY <1>4, <2>1 DEF IInv, TurnsSound
<1>9. RunsSound'
  <2>1. \A s \in Runs : Place(s)' = Place(s)
    BY <1>3, <1>4, <1>5, RunParts DEF Place
  <2> QED
    BY <2>1, <1>2 DEF IInv, RunsSound
<1>10. CallsSound' /\ BudgetSound'
  <2>1. CallsGoOn
    BY <1>2 DEF CallsGoOn
  <2>2. \A u \in Turns : turn'[u].used = turn[u].used /\ turn'[u].searches = turn[u].searches
    BY <1>3, <1>4
  <2> QED
    BY <2>1, <2>2, <1>2, CallsSame, BudgetSame DEF IInv
<1>11. Targets'
  BY <1>2 DEF IInv, Targets
<1>12. ASSUME Patient PROVE PatientSound'
  <2>1. PatientSound
    BY <1>12 DEF IInv
  <2>2. \A u \in Turns : turn'[u].pc \in {"preparing", "running"} => u = t
    BY <1>2, <1>4, <1>12 DEF MayGenerate
  <2>3. OneWorking'
    BY <2>2 DEF OneWorking, Working
  <2>4. FlagsSound'
    BY <2>2, <1>2, <1>4, <1>6 DEF FlagsSound, Working
  <2>5. \A u \in Turns : turn'[u].approved = turn[u].approved /\ turn'[u].stopped = turn[u].stopped
    BY <1>3, <1>4
  <2>6. ApprovalsSound' /\ Followed' /\ StopReachesHost'
    BY <2>1, <2>5, <1>2, RunParts DEF PatientSound, ApprovalsSound, Followed, StopReachesHost
  <2> QED
    BY <2>3, <2>4, <2>6 DEF PatientSound
<1> QED
  BY <1>7, <1>8, <1>9, <1>10, <1>11, <1>12 DEF IInv

\* The user stops the turn; the run that is known is cancelled.
LEMMA AbortKeeps ==
  ASSUME IInv, NEW t \in Turns, Abort(t)
  PROVE  IInv'
<1> DEFINE rec == [turn[t] EXCEPT !.stopped = TRUE]
<1>1. turn \in [Turns -> TurnType] /\ currentRun \in Runs \cup {None} /\ host \in [Runs -> HostType]
  BY Typed DEF IInv
<1>2. /\ turn[t].pc \notin {"idle", "over"} /\ turn' = [turn EXCEPT ![t] = rec]
      /\ abortRequested' = TRUE /\ Cancel({currentRun})
      /\ UNCHANGED <<planApproved, currentRun, view, host, channel, noise, call>>
  BY DEF Abort, hostVars
<1>3. /\ rec \in TurnType /\ rec.pc = turn[t].pc /\ rec.attempt = turn[t].attempt
      /\ rec.continued = turn[t].continued /\ rec.used = turn[t].used
      /\ rec.searches = turn[t].searches /\ rec.exhausted = turn[t].exhausted
      /\ rec.approved = turn[t].approved /\ rec.resumed = turn[t].resumed
  BY <1>1 DEF TurnType
<1> HIDE DEF rec
<1>4. /\ turn' \in [Turns -> TurnType] /\ turn'[t] = rec
      /\ \A u \in Turns \ {t} : turn'[u] = turn[u]
  BY <1>1, <1>2, <1>3
<1>5. /\ cancels \subseteq cancels' /\ cancels' \subseteq Runs
      /\ cancels' \subseteq cancels \cup {currentRun}
      /\ currentRun # None /\ host[currentRun].stage # "over" => currentRun \in cancels'
  BY <1>1, <1>2, CancelsSome DEF IInv
<1>6. TypeOK'
  BY <1>2, <1>4, <1>5 DEF IInv, TypeOK, TurnType
<1>7. TurnsSound'
  <2>1. TurnSound(rec)
    BY <1>2, <1>3 DEF TurnSound, IInv, TurnsSound
  <2> QED
    BY <1>4, <2>1 DEF IInv, TurnsSound
<1>8. RunsSound'
  <2>1. \A s \in Runs : Place(s)' = Place(s)
    BY <1>3, <1>4, PlacesStay
  <2> QED
    BY <2>1, <1>2 DEF IInv, RunsSound
<1>9. CallsSound' /\ BudgetSound'
  <2>1. CallsGoOn
    BY <1>2 DEF CallsGoOn
  <2>2. \A u \in Turns : turn'[u].used = turn[u].used /\ turn'[u].searches = turn[u].searches
    BY <1>3, <1>4
  <2> QED
    BY <2>1, <2>2, <1>2, CallsSame, BudgetSame DEF IInv
<1>10. Targets'
  BY <1>2, <1>5 DEF IInv, Targets
<1>11. ASSUME Patient PROVE PatientSound'
  <2>1. PatientSound
    BY <1>11 DEF IInv
  <2>2. \A u \in Turns : /\ turn'[u].pc = turn[u].pc /\ turn'[u].approved = turn[u].approved
                         /\ turn'[u].continued = turn[u].continued
                         /\ u # t => turn'[u].stopped = turn[u].stopped
    BY <1>3, <1>4
  <2>3. OneWorking' /\ FlagsSound' /\ ApprovalsSound'
    BY <2>1, <2>2, <1>2, RunParts DEF PatientSound, OneWorking, FlagsSound, ApprovalsSound, Working
  <2>4. Followed'
    BY <2>1, <1>2 DEF PatientSound, Followed
  <2>5. StopReachesHost'
    <3>1. ASSUME NEW s \in Runs, turn'[s[1]].stopped, host[s].reply = "handled",
                 host[s].stage = "active"
          PROVE  s \in cancels' \/ host[s].cancelled
      <4>1. currentRun = s /\ s # None
        BY <2>1, <3>1, LocalAgentAssumption DEF PatientSound, Followed
      <4> QED
        BY <4>1, <3>1, <1>5
    <3> QED
      BY <3>1, <1>2 DEF StopReachesHost
  <2> QED
    BY <2>3, <2>4, <2>5 DEF PatientSound
<1> QED
  BY <1>6, <1>7, <1>8, <1>9, <1>10, <1>11 DEF IInv

LEMMA AnswerHandled ==
  ASSUME NEW p, NEW v, NEW h, NEW g, NEW ch, RunSound(p, v, h, ch),
         h.reply = "started", g.reply = "handled", g.stage = h.stage
  PROVE  /\ RunSound(p, v, g, ch) /\ h.stage \notin {"none", "invoked"}
         /\ p = "past" => v.settled
         /\ p # "future"
         /\ h.stage = "active" => v.done = "no"
BY DEF RunSound, NoHost

\* The start is answered: a stop in the meantime takes effect.
LEMMA StartAnsweredKeeps ==
  ASSUME IInv, NEW r \in Runs, StartAnswered(r)
  PROVE  IInv'
<1> DEFINE h == [host[r] EXCEPT !.reply = "handled"]
<1>1. /\ host \in [Runs -> HostType] /\ currentRun \in Runs \cup {None} /\ cancels \subseteq Runs
  BY Typed DEF IInv
<1>2. /\ host[r].reply = "started" /\ host' = [host EXCEPT ![r] = h]
      /\ currentRun' = IF view[r].done = "no" /\ ~view[r].settled THEN r ELSE currentRun
      /\ IF abortRequested \/ turn[r[1]].exhausted THEN Cancel({r}) ELSE cancels' = cancels
      /\ UNCHANGED <<abortRequested, planApproved, turn, view, channel, call, noise>>
  BY DEF StartAnswered
<1>3. /\ h \in HostType /\ h.reply = "handled" /\ h.stage = host[r].stage
      /\ h.cancelled = host[r].cancelled
  BY <1>1 DEF HostType
<1> HIDE DEF h
<1>4. /\ host' \in [Runs -> HostType] /\ host'[r] = h
      /\ \A s \in Runs \ {r} : host'[s] = host[s]
  BY <1>1, <1>2, <1>3
<1>5. RunSound(Place(r), view[r], host[r], channel[r])
  BY RunIsSound DEF IInv
<1>6. /\ RunSound(Place(r), view[r], h, channel[r])
      /\ host[r].stage \notin {"none", "invoked"}
      /\ Place(r) = "past" => view[r].settled
      /\ Place(r) # "future"
      /\ host[r].stage = "active" => view[r].done = "no"
  BY <1>2, <1>3, <1>5, AnswerHandled
<1>7. /\ cancels \subseteq cancels' /\ cancels' \subseteq cancels \cup {r} /\ cancels' \subseteq Runs
      /\ abortRequested /\ host[r].stage # "over" => r \in cancels'
  BY <1>1, <1>2, CancelsSome DEF IInv
<1>8. TypeOK'
  BY <1>1, <1>2, <1>4, <1>7 DEF IInv, TypeOK, HostType
<1>9. TurnsSound' /\ RunsSound'
  <2>1. TurnsSound' /\ \A s \in Runs : Place(s)' = Place(s)
    BY <1>2, TurnsSame DEF IInv
  <2>2. RunSound(Place(r), view'[r], host'[r], channel'[r])
    BY <1>2, <1>4, <1>6
  <2> QED
    BY <2>1, <2>2, <1>2, <1>4, RunsKeep DEF IInv
<1>10. CallsSound' /\ BudgetSound'
  <2>1. CallsGoOn
    BY <1>2 DEF CallsGoOn
  <2> QED
    BY <2>1, <1>2, CallsSame, BudgetSame DEF IInv
<1>11. Targets'
  BY <1>2, <1>3, <1>4, <1>6, <1>7 DEF IInv, Targets
<1>12. ASSUME Patient PROVE PatientSound'
  <2>1. PatientSound
    BY <1>12 DEF IInv
  <2>2. OneWorking' /\ FlagsSound' /\ ApprovalsSound'
    BY <2>1, <1>2 DEF PatientSound, OneWorking, FlagsSound, ApprovalsSound, Working
  <2>3. Place(r) \in {"past", "current"}
    BY <1>6 DEF Place
  <2>4. ASSUME ~view[r].settled PROVE Place(r) = "current"
    BY <2>3, <2>4, <1>6
  <2>5. ASSUME NEW s \in Runs, host'[s].reply = "handled", host'[s].stage = "active"
        PROVE  Place(s) = "current" /\ host[s].stage = "active"
    <3>1. host[s].stage = "active"
      BY <2>5, <1>3, <1>4
    <3>2. RunSound(Place(s), view[s], host[s], channel[s])
      BY RunIsSound DEF IInv
    <3> QED
      BY <3>1, <3>2, BusyIsCurrent DEF IInv
  <2>6. Followed'
    <3>1. ASSUME NEW s \in Runs, host'[s].reply = "handled", host'[s].stage = "active"
          PROVE  currentRun' = s
      <4>1. Place(s) = "current" /\ host[s].stage = "active"
        BY <2>5, <3>1
      <4>2. CASE s = r
        <5>1. ~view[r].settled
          BY <4>1, <4>2, <1>5 DEF RunSound
        <5> QED
          BY <4>1, <4>2, <5>1, <1>2, <1>6
      <4>3. CASE s # r
        <5>1. currentRun = s
          BY <2>1, <3>1, <4>1, <4>3, <1>4 DEF PatientSound, Followed
        <5>2. view[r].settled
          BY <2>1, <2>4, <4>1, <4>3, OneCurrent DEF PatientSound
        <5> QED
          BY <5>1, <5>2, <1>2
      <4> QED
        BY <4>2, <4>3
    <3> QED
      BY <3>1 DEF Followed
  <2>7. StopReachesHost'
    <3>1. ASSUME NEW s \in Runs, turn[s[1]].stopped, host'[s].reply = "handled",
                 host'[s].stage = "active"
          PROVE  s \in cancels' \/ host'[s].cancelled
      <4>1. CASE s = r
        <5>1. abortRequested
          BY <2>1, <2>5, <3>1, CurrentWorks DEF PatientSound, FlagsSound
        <5> QED
          BY <5>1, <4>1, <3>1, <1>3, <1>4, <1>7
      <4>2. CASE s # r
        BY <2>1, <3>1, <4>2, <1>4, <1>7 DEF PatientSound, StopReachesHost
      <4> QED
        BY <4>1, <4>2
    <3> QED
      BY <3>1, <1>2 DEF StopReachesHost
  <2> QED
    BY <2>2, <2>6, <2>7 DEF PatientSound
<1> QED
  BY <1>8, <1>9, <1>10, <1>11, <1>12 DEF IInv

\* What Invoke leaves.
LEMMA Invoked ==
  ASSUME TypeOK, NEW r \in Runs, NEW used \in 0..MaxToolCalls, Invoke(r, used)
  PROVE  /\ host' \in [Runs -> HostType] /\ host'[r].stage = "invoked"
         /\ host'[r].reply = host[r].reply /\ host'[r].cancelled = host[r].cancelled
         /\ \A s \in Runs \ {r} : host'[s] = host[s]
<1> DEFINE limit == IF used < MaxToolCalls THEN MaxToolCalls - used ELSE 1
           h == [host[r] EXCEPT !.stage = "invoked", !.limit = limit]
<1>1. host \in [Runs -> HostType]
  BY Typed
<1>2. limit \in 0..MaxToolCalls
  BY LocalAgentAssumption
<1>3. host' = [host EXCEPT ![r] = h]
  BY DEF Invoke
<1> HIDE DEF limit
<1>4. /\ h \in HostType /\ h.stage = "invoked" /\ h.reply = host[r].reply
      /\ h.cancelled = host[r].cancelled
  BY <1>1, <1>2 DEF HostType
<1> HIDE DEF h
<1> QED
  BY <1>1, <1>3, <1>4

\* The first run of a turn is started.
LEMMA PreparedKeeps ==
  ASSUME IInv, NEW t \in Turns, NEW resumed \in BOOLEAN, Prepared(t, resumed)
  PROVE  IInv'
<1> DEFINE rec == [turn[t] EXCEPT !.pc = "running", !.attempt = 1, !.resumed = resumed]
           r == <<t, 1>>
<1>1. turn \in [Turns -> TurnType] /\ r \in Runs /\ r[1] = t /\ r[2] = 1
  BY Typed DEF IInv, Runs
<1>2. /\ turn[t].pc = "preparing" /\ turn' = [turn EXCEPT ![t] = rec] /\ Invoke(r, 0)
      /\ UNCHANGED <<abortRequested, planApproved, currentRun, view, cancels, channel, call, noise>>
  BY DEF Prepared, generatorVars
<1>3. /\ rec \in TurnType /\ rec.pc = "running" /\ rec.attempt = 1
      /\ rec.stopped = turn[t].stopped
      /\ rec.continued = turn[t].continued /\ rec.used = turn[t].used
      /\ rec.searches = turn[t].searches /\ rec.exhausted = turn[t].exhausted
      /\ rec.approved = turn[t].approved
  <2>1. turn[t] \in TurnType /\ 1 \in 0..3
    BY <1>1
  <2> QED
    BY <2>1 DEF TurnType
<1> HIDE DEF rec, r
<1>4. /\ turn' \in [Turns -> TurnType] /\ turn'[t] = rec
      /\ \A u \in Turns \ {t} : turn'[u] = turn[u]
  BY <1>1, <1>2, <1>3
<1>5. /\ host' \in [Runs -> HostType] /\ host'[r].stage = "invoked"
      /\ host'[r].reply = host[r].reply
      /\ \A s \in Runs \ {r} : host'[s] = host[s]
  <2>1. 0 \in 0..MaxToolCalls
    BY LocalAgentAssumption
  <2> QED
    BY <1>1, <1>2, <2>1, Invoked DEF IInv
<1>6. Place(r) = "future"
  BY <1>1, <1>2 DEF Place
<1>7. TypeOK'
  BY <1>2, <1>4, <1>5 DEF IInv, TypeOK, TurnType, HostType
<1>8. TurnsSound'
  <2>1. TurnSound(rec)
    BY <1>2, <1>3 DEF TurnSound, IInv, TurnsSound
  <2> QED
    BY <1>4, <2>1 DEF IInv, TurnsSound
<1>9. RunsSound'
  <2>1. ASSUME NEW s \in Runs PROVE RunSound(Place(s)', view'[s], host'[s], channel'[s])
    <3>1. RunSound(Place(s), view[s], host[s], channel[s])
      BY RunIsSound DEF IInv
    <3>2. CASE s = r
      <4>1. Place(r)' = "current"
        BY <1>1, <1>3, <1>4 DEF Place
      <4>2. host[r].reply = "none"
        BY <3>1, <3>2, <1>6 DEF RunSound, NoHost
      <4> QED
        BY <3>1, <3>2, <4>1, <4>2, <1>2, <1>5, <1>6, RunBegins
    <3>3. CASE s # r
      <4>1. Place(s)' = Place(s)
        <5>1. CASE s[1] = t
          <6>1. s[2] \in 1..3 /\ s[2] # 1
            BY <5>1, <3>3, RunParts DEF r
          <6> QED
            BY <5>1, <6>1, <1>2, <1>3, <1>4 DEF Place
        <5>2. CASE s[1] # t
          BY <5>2, <1>4, RunParts DEF Place
        <5> QED
          BY <5>1, <5>2
      <4> QED
        BY <3>1, <3>3, <4>1, <1>2, <1>5
    <3> QED
      BY <3>2, <3>3
  <2> QED
    BY <2>1 DEF RunsSound
<1>10. CallsSound' /\ BudgetSound'
  <2>1. CallsGoOn
    BY <1>2 DEF CallsGoOn
  <2>2. \A u \in Turns : turn'[u].used = turn[u].used /\ turn'[u].searches = turn[u].searches
    BY <1>3, <1>4
  <2> QED
    BY <2>1, <2>2, <1>2, CallsSame, BudgetSame DEF IInv
<1>11. Targets'
  BY <1>1, <1>2, <1>5, <1>6, NotYetATarget DEF IInv, Targets
<1>12. ASSUME Patient PROVE PatientSound'
  <2>1. PatientSound
    BY <1>12 DEF IInv
  <2>2. \A u \in Turns : /\ Working(u)' <=> Working(u)
                         /\ turn'[u].approved = turn[u].approved
                         /\ turn'[u].continued = turn[u].continued
                         /\ turn'[u].stopped = turn[u].stopped
    BY <1>2, <1>3, <1>4 DEF Working
  <2>3. OneWorking' /\ FlagsSound' /\ ApprovalsSound'
    BY <2>1, <2>2, <1>2, RunParts DEF PatientSound, OneWorking, FlagsSound, ApprovalsSound
  <2>4. \A s \in Runs : host'[s].stage = "active" => s # r /\ host'[s] = host[s]
    BY <1>5
  <2>5. Followed' /\ StopReachesHost'
    BY <2>1, <2>2, <2>4, <1>2, RunParts DEF PatientSound, Followed, StopReachesHost
  <2> QED
    BY <2>3, <2>5 DEF PatientSound
<1> QED
  BY <1>7, <1>8, <1>9, <1>10, <1>11, <1>12 DEF IInv

\* The current run of the turn t is settled, and the turn is over or goes on to
\* its next run: what holds of every run then.
LEMMA RunsMove ==
  ASSUME IInv, NEW r \in Runs, Place(r) = "current", NEW t, t = r[1],
         NEW v, view \in [Runs -> ViewType], view' = [view EXCEPT ![r] = v],
         NEW rec \in TurnType, turn \in [Turns -> TurnType],
         turn' = [turn EXCEPT ![t] = rec],
         RunSound("past", v, host[r], channel[r]), channel' = channel,
         \/ rec.pc = "over" /\ host' = host
         \/ /\ rec.pc = "running" /\ rec.attempt = turn[t].attempt + 1
            /\ <<t, rec.attempt>> \in Runs
            /\ host'[<<t, rec.attempt>>].stage = "invoked"
            /\ host'[<<t, rec.attempt>>].reply = "none"
            /\ \A s \in Runs \ {<<t, rec.attempt>>} : host'[s] = host[s]
  PROVE  /\ RunsSound'
         /\ \A s \in Runs : host'[s].stage \notin {"none", "invoked"} => host'[s] = host[s]
         /\ \A s \in Runs : Place(s) # "future" => host'[s] = host[s]
<1>1. /\ turn[t].pc = "running" /\ turn[t].attempt = r[2] /\ t \in Turns
      /\ r = <<t, turn[t].attempt>> /\ turn[t].attempt \in 1..3
  BY CurrentWorks, RunParts
<1>2. /\ turn'[t] = rec /\ \A u \in Turns \ {t} : turn'[u] = turn[u]
      /\ view'[r] = v /\ \A s \in Runs \ {r} : view'[s] = view[s]
  BY <1>1
<1> DEFINE next == <<t, rec.attempt>>
<1>3. rec.pc = "running" => next \in Runs /\ next # r /\ Place(next) = "future"
  BY <1>1, RunParts DEF Place
<1>4. ASSUME NEW s \in Runs, Place(s) # "future" PROVE host'[s] = host[s]
  BY <1>3, <1>4
<1>5. ASSUME NEW s \in Runs PROVE RunSound(Place(s)', view'[s], host'[s], channel'[s])
  <2>1. RunSound(Place(s), view[s], host[s], channel[s])
    BY RunIsSound DEF IInv
  <2>2. CASE s = r
    <3>1. Place(r)' = "past"
      BY <1>1, <1>2 DEF Place
    <3> QED
      BY <2>2, <3>1, <1>2, <1>4
  <2>3. CASE s[1] # t
    <3>1. Place(s)' = Place(s)
      BY <2>3, <1>2, RunParts DEF Place
    <3>2. host'[s] = host[s] /\ view'[s] = view[s]
      BY <2>3, <1>1, <1>2
    <3> QED
      BY <2>1, <3>1, <3>2
  <2>4. CASE s[1] = t /\ s # r /\ rec.pc = "over"
    <3>1. Place(s)' = "past" /\ Place(s) \in {"past", "future"}
      BY <2>4, <1>1, <1>2, RunParts DEF Place
    <3>2. host'[s] = host[s] /\ view'[s] = view[s]
      BY <2>4, <1>2
    <3> QED
      BY <2>1, <3>1, <3>2, RunIsPast
  <2>5. CASE s[1] = t /\ s # r /\ rec.pc = "running" /\ s # next
    <3>1. s[2] \in 1..3 /\ s[2] # turn[t].attempt /\ s[2] # rec.attempt
      BY <2>5, <1>1, RunParts
    <3>2. Place(s)' = Place(s)
      BY <2>5, <3>1, <1>1, <1>2 DEF Place
    <3>3. host'[s] = host[s] /\ view'[s] = view[s]
      BY <2>5, <1>2
    <3> QED
      BY <2>1, <3>2, <3>3
  <2>6. CASE s # r /\ rec.pc = "running" /\ s = next
    <3>1. Place(s)' = "current" /\ Place(s) = "future"
      BY <2>6, <1>1, <1>2, <1>3 DEF Place
    <3>2. /\ host'[s].stage = "invoked" /\ host'[s].reply = "none" /\ view'[s] = view[s]
      BY <2>6, <1>2
    <3> QED
      BY <2>1, <3>1, <3>2, RunBegins
  <2> QED
    BY <2>2, <2>3, <2>4, <2>5, <2>6
<1>6. RunsSound'
  BY <1>5 DEF RunsSound
<1> QED
  BY <1>4, <1>6

LEMMA TurnMoves ==
  ASSUME IInv, NEW r \in Runs, Place(r) = "current", NEW t, t = r[1],
         NEW v \in ViewType, view' = [view EXCEPT ![r] = v], v.queue = view[r].queue,
         RunSound("past", v, host[r], channel[r]), host[r].stage \in {"ending", "over"},
         NEW rec \in TurnType, TurnSound(rec), turn' = [turn EXCEPT ![t] = rec],
         rec.used = turn[t].used, rec.searches = turn[t].searches,
         rec.stopped = turn[t].stopped,
         host' \in [Runs -> HostType],
         \/ rec.pc = "over" /\ host' = host
         \/ /\ rec.pc = "running" /\ rec.attempt = turn[t].attempt + 1
            /\ rec.approved = turn[t].approved
            /\ rec.continued => turn[t].continued \/ planApproved
            /\ <<t, rec.attempt>> \in Runs
            /\ host'[<<t, rec.attempt>>].stage = "invoked"
            /\ host'[<<t, rec.attempt>>].reply = "none"
            /\ \A s \in Runs \ {<<t, rec.attempt>>} : host'[s] = host[s],
         currentRun' = None, planApproved' \in BOOLEAN, planApproved' => planApproved,
         UNCHANGED <<abortRequested, cancels, channel, call, noise>>
  PROVE  IInv'
<1>1. /\ view \in [Runs -> ViewType] /\ turn \in [Turns -> TurnType] /\ t \in Turns
  BY Typed, RunParts DEF IInv
<1>2. /\ turn' \in [Turns -> TurnType] /\ turn'[t] = rec
      /\ \A u \in Turns \ {t} : turn'[u] = turn[u]
      /\ view' \in [Runs -> ViewType] /\ view'[r] = v
      /\ \A s \in Runs \ {r} : view'[s] = view[s]
  BY <1>1
<1>3. /\ RunsSound'
      /\ \A s \in Runs : host'[s].stage \notin {"none", "invoked"} => host'[s] = host[s]
      /\ \A s \in Runs : Place(s) # "future" => host'[s] = host[s]
  BY <1>1, RunsMove
<1>4. TypeOK'
  BY <1>2 DEF IInv, TypeOK, TurnType, ViewType, HostType
<1>5. TurnsSound'
  BY <1>2 DEF IInv, TurnsSound
<1>6. CallsSound' /\ BudgetSound'
  <2>1. CallsGoOn
    BY DEF CallsGoOn
  <2>2. \A u \in Turns : turn'[u].used = turn[u].used /\ turn'[u].searches = turn[u].searches
    BY <1>2
  <2>3. \A s \in Runs : view'[s].queue = view[s].queue
    BY <1>2
  <2> QED
    BY <2>1, <2>2, <2>3, CallsSame, BudgetSame DEF IInv
<1>7. Targets'
  <2>1. ASSUME NEW s \in Runs, s \in cancels PROVE host'[s].stage \notin {"none", "invoked"}
    <3>1. host[s].stage \notin {"none", "invoked"}
      BY <2>1 DEF IInv, Targets
    <3>2. Place(s) # "future"
      BY <2>1, NotYetATarget
    <3> QED
      BY <3>1, <3>2, <1>3
  <2> QED
    BY <2>1, LocalAgentAssumption DEF Targets
<1>8. ASSUME Patient PROVE PatientSound'
  <2>1. PatientSound
    BY <1>8 DEF IInv
  <2>2. /\ Working(t) /\ \A u \in Turns : Working(u) => u = t
        /\ \A u \in Turns : Working(u)' => u = t
    BY <2>1, <1>1, <1>2, CurrentWorks DEF PatientSound, OneWorking, Working
  <2>3. OneWorking'
    BY <2>2 DEF OneWorking
  <2>4. FlagsSound'
    <3>1. ASSUME Working(t)'
          PROVE  /\ rec.stopped => abortRequested'
                 /\ planApproved' => rec.approved
                 /\ rec.continued => rec.approved
      BY <2>1, <2>2, <3>1, <1>1, <1>2 DEF PatientSound, FlagsSound, Working
    <3> QED
      BY <2>2, <3>1, <1>2 DEF FlagsSound
  <2>5. ApprovalsSound'
    <3>1. ASSUME NEW s \in Runs, view'[s].stage = "approved" PROVE turn'[s[1]].approved
      <4>1. RunSound(Place(s)', view'[s], host'[s], channel'[s])
        BY <1>3 DEF RunsSound
      <4>2. view'[s].executing \in Calls
        BY <4>1, <3>1, <1>2 DEF RunSound, ViewType
      <4>3. Place(s)' # "past"
        BY <4>1, <4>2 DEF RunSound, Work
      <4>4. CASE s[1] = t
        <5>1. rec.pc # "over" /\ s # r
          <6>1. rec.pc # "over"
            BY <4>3, <4>4, <1>2 DEF Place
          <6>2. s # r
            BY <3>1, <1>1, <1>2, <4>2, LocalAgentAssumption DEF RunSound, Work
          <6> QED
            BY <6>1, <6>2
        <5> QED
          BY <5>1, <4>4, <3>1, <2>1, <1>2 DEF PatientSound, ApprovalsSound
      <4>5. CASE s[1] # t
        BY <4>5, <3>1, <2>1, <1>2, RunParts DEF PatientSound, ApprovalsSound
      <4> QED
        BY <4>4, <4>5
    <3> QED
      BY <3>1 DEF ApprovalsSound
  <2>6. ASSUME NEW s \in Runs, host'[s].reply = "handled", host'[s].stage = "active" PROVE FALSE
    <3>1. host[s].stage = "active" /\ host'[s] = host[s]
      BY <2>6, <1>3
    <3>2. Place(s) = "current"
      BY <3>1, RunIsSound, BusyIsCurrent DEF IInv
    <3>3. s = r
      BY <2>1, <3>2, OneCurrent DEF PatientSound
    <3> QED
      BY <3>1, <3>3
  <2> QED
    BY <2>3, <2>4, <2>5, <2>6 DEF PatientSound, Followed, StopReachesHost
<1> QED
  BY <1>3, <1>4, <1>5, <1>6, <1>7, <1>8 DEF IInv

\* The turn ends after the run r of it.
LEMMA EndsTurn ==
  ASSUME IInv, NEW r \in Runs, Place(r) = "current",
         NEW v \in ViewType, view' = [view EXCEPT ![r] = v], v.queue = view[r].queue,
         RunSound("past", v, host[r], channel[r]), host[r].stage \in {"ending", "over"},
         TurnOver(r[1]),
         currentRun' = None, planApproved' = planApproved,
         UNCHANGED <<abortRequested, cancels, channel, call, noise>>
  PROVE  IInv'
<1> DEFINE t == r[1]
           rec == [NoTurn EXCEPT !.pc = "over", !.stopped = turn[t].stopped,
                                 !.used = turn[t].used, !.searches = turn[t].searches,
                                 !.exhausted = turn[t].exhausted]
<1>1. /\ turn \in [Turns -> TurnType] /\ t \in Turns /\ host \in [Runs -> HostType]
      /\ planApproved \in BOOLEAN
  BY Typed, RunParts DEF IInv, TypeOK
<1>2. turn' = [turn EXCEPT ![t] = rec] /\ host' = host
  BY DEF TurnOver
<1>3. NoTurn \in TurnType /\ NoTurn.continued = FALSE
  <2>1. 0 \in 0..MaxToolCalls /\ 0 \in 0..3
    BY LocalAgentAssumption
  <2> QED
    BY <2>1 DEF NoTurn, TurnType
<1> HIDE DEF t
<1>4. /\ rec \in TurnType /\ rec.pc = "over" /\ rec.stopped = turn[t].stopped
      /\ rec.used = turn[t].used /\ rec.searches = turn[t].searches
      /\ rec.exhausted = turn[t].exhausted /\ ~rec.continued
  BY <1>1, <1>3 DEF TurnType
<1> HIDE DEF rec
<1>5. TurnSound(rec)
  BY <1>1, <1>4 DEF TurnSound, TurnsSound, IInv
<1>6. t = r[1]
  BY DEF t
<1> QED
  BY <1>1, <1>2, <1>4, <1>5, <1>6, TurnMoves

\* The turn goes on to its next run.
LEMMA GoesOn ==
  ASSUME IInv, NEW r \in Runs, Place(r) = "current",
         NEW v \in ViewType, view' = [view EXCEPT ![r] = v], v.queue = view[r].queue,
         RunSound("past", v, host[r], channel[r]), host[r].stage \in {"ending", "over"},
         NEW plan \in BOOLEAN, RunAgain(r[1], plan), plan => planApproved,
         turn[r[1]].attempt <= IF plan THEN 2 ELSE 1,
         currentRun' = None, planApproved' \in BOOLEAN, planApproved' => planApproved,
         UNCHANGED <<abortRequested, cancels, channel, call, noise>>
  PROVE  IInv'
<1> DEFINE t == r[1]
           n == turn[t].attempt + 1
           rec == [turn[t] EXCEPT !.attempt = n, !.resumed = FALSE, !.continued = plan]
           next == <<t, n>>
<1>1. /\ turn \in [Turns -> TurnType] /\ t \in Turns /\ host \in [Runs -> HostType]
      /\ turn[t].attempt \in 1..3 /\ turn[t].pc = "running"
  BY Typed, RunParts, CurrentWorks DEF IInv, TypeOK
<1>2. turn' = [turn EXCEPT ![t] = rec] /\ Invoke(next, turn[t].used)
  BY DEF RunAgain
<1>3. n \in 1..3 /\ (~plan => n <= 2)
  BY <1>1
<1>4. next \in Runs
  BY <1>1, <1>3 DEF Runs
<1>5. Place(next) = "future"
  BY <1>1 DEF Place
<1>6. host[next].reply = "none"
  BY <1>4, <1>5, RunIsSound DEF IInv, RunSound, NoHost
<1>7. turn[t].used \in 0..MaxToolCalls /\ t = r[1] /\ n = turn[t].attempt + 1 /\ next = <<t, n>>
  BY <1>1 DEF TurnType
<1> HIDE DEF n, next, t
<1>8. /\ rec \in TurnType /\ rec.pc = "running" /\ rec.attempt = n /\ ~rec.resumed
      /\ rec.continued = plan /\ rec.used = turn[t].used /\ rec.searches = turn[t].searches
      /\ rec.stopped = turn[t].stopped /\ rec.approved = turn[t].approved
      /\ rec.exhausted = turn[t].exhausted
  <2>1. turn[t] \in TurnType /\ n \in 0..3
    BY <1>1, <1>3
  <2> QED
    BY <1>1, <2>1 DEF TurnType
<1> HIDE DEF rec
<1>9. TurnSound(rec)
  BY <1>1, <1>3, <1>8 DEF TurnSound, TurnsSound, IInv
<1>10. /\ host' \in [Runs -> HostType] /\ host'[next].stage = "invoked"
       /\ host'[next].reply = "none"
       /\ \A s \in Runs \ {next} : host'[s] = host[s]
  BY <1>2, <1>4, <1>6, <1>7, Invoked DEF IInv
<1>11. rec.attempt = turn[t].attempt + 1 /\ next = <<t, rec.attempt>>
  BY <1>7, <1>8
<1>12. rec.continued => turn[t].continued \/ planApproved
  BY <1>8
<1> QED
  BY <1>2, <1>4, <1>7, <1>8, <1>9, <1>10, <1>11, <1>12, TurnMoves

\* What follows a run, by how it went.
LEMMA Settles ==
  ASSUME IInv, NEW r \in Runs, Place(r) = "current",
         NEW v \in ViewType, view' = [view EXCEPT ![r] = v], v.queue = view[r].queue,
         RunSound("past", v, host[r], channel[r]), host[r].stage \in {"ending", "over"},
         NEW fresh \in BOOLEAN, Fails(r, fresh) \/ Succeeds(r),
         currentRun' = None,
         UNCHANGED <<abortRequested, cancels, channel, call, noise>>
  PROVE  IInv'
<1>1. /\ planApproved \in BOOLEAN /\ turn \in [Turns -> TurnType]
      /\ r[1] \in Turns /\ turn[r[1]].pc = "running" /\ turn[r[1]].attempt \in Nat
  BY Typed, CurrentWorks, RunParts, SMTT(60) DEF IInv, TypeOK
<1>2. TurnSound(turn[r[1]])
  BY <1>1 DEF IInv, TurnsSound
<1>3. CASE TurnOver(r[1]) /\ planApproved' = planApproved
  BY <1>3, EndsTurn
<1>4. CASE /\ RunAgain(r[1], FALSE) /\ planApproved' = planApproved
           /\ turn[r[1]].resumed
  <2>1. turn[r[1]].attempt <= 1
    BY <1>1, <1>2, <1>4 DEF TurnSound
  <2> QED
    BY <1>1, <1>4, <2>1, GoesOn
<1>5. CASE /\ RunAgain(r[1], TRUE) /\ planApproved' = FALSE /\ planApproved
           /\ ~turn[r[1]].continued
  <2>1. turn[r[1]].attempt <= 2
    BY <1>1, <1>2, <1>5 DEF TurnSound
  <2> QED
    BY <1>1, <1>5, <2>1, GoesOn
<1>6. CASE Fails(r, fresh)
  BY <1>3, <1>4, <1>6 DEF Fails
<1>7. CASE Succeeds(r)
  BY <1>3, <1>5, <1>7 DEF Succeeds
<1> QED
  BY <1>6, <1>7

LEMMA FinishKeeps ==
  ASSUME IInv, NEW r \in Runs, NEW fresh \in BOOLEAN, Finish(r, fresh)
  PROVE  IInv'
<1> DEFINE v == [NoView EXCEPT !.settled = TRUE, !.queue = view[r].queue,
                   !.executing = view[r].executing, !.stage = view[r].stage,
                   !.toolError = view[r].toolError]
<1>1. /\ view \in [Runs -> ViewType] /\ view[r].queue \in Seq(Calls)
  BY Typed, QueueTyped DEF IInv
<1>2. /\ view[r].done # "no" /\ ~view[r].settled
      /\ view[r].awaited \cap Unfinished(r) = {}
      /\ view' = [view EXCEPT ![r] = v] /\ currentRun' = None
      /\ Fails(r, fresh) \/ Succeeds(r)
      /\ UNCHANGED <<abortRequested, cancels, channel, call, noise>>
  BY DEF Finish
<1>3. NoView \in ViewType /\ NoView.done = "no"
  <2>1. <<>> \in Seq(Calls)
    OBVIOUS
  <2> QED
    BY <2>1 DEF NoView, ViewType
<1>4. /\ v \in ViewType /\ v.settled /\ v.queue = view[r].queue /\ v.done = "no"
      /\ v.executing = view[r].executing /\ v.stage = view[r].stage
  <2>1. view[r] \in ViewType
    BY <1>1
  <2> QED
    BY <1>3, <2>1 DEF ViewType
<1> HIDE DEF v
<1>5. RunSound(Place(r), view[r], host[r], channel[r])
  BY RunIsSound DEF IInv
<1>6. /\ channel[r] = <<>> /\ host[r].stage \in {"ending", "over"}
      /\ Work(view[r]) \subseteq view[r].awaited /\ host[r].reply # "rejected"
  BY <1>2, <1>5 DEF RunSound
<1>7. Work(view[r]) = {} /\ Work(v) = {}
  <2>1. Unfinished(r) = Work(view[r])
    BY DEF Unfinished, Work
  <2>2. Work(v) = Work(view[r])
    BY <1>4 DEF Work
  <2> QED
    BY <1>2, <1>6, <2>1, <2>2
<1>8. Place(r) = "current"
  BY <1>2, <1>5, <1>6 DEF RunSound, Place, NoView
<1>9. RunSound("past", v, host[r], channel[r])
  BY <1>4, <1>5, <1>6, <1>7 DEF RunSound
<1> QED
  BY <1>2, <1>4, <1>6, <1>8, <1>9, Settles

LEMMA StartRejectedKeeps ==
  ASSUME IInv, NEW r \in Runs, NEW fresh \in BOOLEAN, StartRejected(r, fresh)
  PROVE  IInv'
<1> DEFINE v == [view[r] EXCEPT !.settled = TRUE]
<1>1. view \in [Runs -> ViewType]
  BY Typed DEF IInv
<1>2. /\ host[r].reply = "rejected" /\ ~view[r].settled
      /\ view' = [view EXCEPT ![r] = v] /\ currentRun' = None /\ Fails(r, fresh)
      /\ UNCHANGED <<abortRequested, cancels, channel, call, noise>>
  BY DEF StartRejected
<1>3. /\ v \in ViewType /\ v.settled /\ v.queue = view[r].queue /\ v.done = view[r].done
      /\ v.executing = view[r].executing /\ v.stage = view[r].stage
  BY <1>1 DEF ViewType
<1> HIDE DEF v
<1>4. RunSound(Place(r), view[r], host[r], channel[r])
  BY RunIsSound DEF IInv
<1>5. /\ channel[r] = <<>> /\ host[r].stage = "over" /\ view[r].queue = <<>>
      /\ view[r].executing = None /\ view[r].done = "no" /\ view[r].stage = "none"
  BY <1>2, <1>4 DEF RunSound
<1>6. Place(r) = "current"
  BY <1>2, <1>4, <1>5 DEF RunSound, Place, NoHost
<1>7. Work(v) = {}
  BY <1>3, <1>5, NothingToDo
<1>8. RunSound("past", v, host[r], channel[r])
  BY <1>2, <1>3, <1>5, <1>7 DEF RunSound
<1> QED
  BY <1>2, <1>3, <1>5, <1>6, <1>8, Settles

-----------------------------------------------------------------------------
(* The invariant holds in every behaviour.                                  *)

LEMMA InitIInv ==
  ASSUME Init
  PROVE  IInv
<1> USE DEF Init
<1>1. /\ 0 \in 0..MaxToolCalls /\ 0 \in 0..3 /\ 0 \in 0..MaxNoise
      /\ <<>> \in Seq(Calls) /\ <<>> \in Seq(Events) /\ MaxToolCalls # 0
  BY LocalAgentAssumption
<1>2. NoTurn \in TurnType /\ NoView \in ViewType /\ NoHost \in HostType
  BY <1>1 DEF NoTurn, NoView, NoHost, TurnType, ViewType, HostType
<1>3. TypeOK
  <2>1. turn \in [Turns -> TurnType] /\ view \in [Runs -> ViewType] /\ host \in [Runs -> HostType]
    BY <1>2
  <2>2. call \in [Calls -> CallType] /\ channel \in [Runs -> Seq(Events)]
    BY <1>1 DEF CallType
  <2> QED
    BY <2>1, <2>2, <1>1 DEF TypeOK, TurnType, ViewType, HostType, CallType
<1>4. TurnsSound
  BY <1>1 DEF TurnsSound, TurnSound, NoTurn
<1>5. RunsSound
  <2>1. ASSUME NEW r \in Runs PROVE RunSound(Place(r), view[r], host[r], channel[r])
    <3>1. Place(r) = "future"
      BY RunParts DEF Place, NoTurn
    <3>2. view[r] = NoView /\ host[r] = NoHost /\ channel[r] = <<>>
      OBVIOUS
    <3> QED
      BY <3>1, <3>2 DEF RunSound, NoView, NoHost
  <2> QED
    BY <2>1 DEF RunsSound
<1>6. CallsSound
  <2>1. \A r \in Runs : view[r].queue = <<>> /\ channel[r] = <<>>
    BY DEF NoView
  <2> QED
    BY <2>1 DEF CallsSound, QueuesSound, QueueSound, ChannelSound
<1>7. BudgetSound
  <2>1. ASSUME NEW t \in Turns PROVE Cardinality(Ran(t)) + turn[t].searches = turn[t].used
    <3>1. Ran(t) = {}
      BY DEF Ran
    <3>2. Cardinality(Ran(t)) = 0
      BY <3>1, FS_EmptySet
    <3> QED
      BY <3>2 DEF NoTurn
  <2> QED
    BY <2>1 DEF BudgetSound
<1>8. Targets
  BY LocalAgentAssumption DEF Targets
<1>9. PatientSound
  <2>1. OneWorking /\ FlagsSound
    BY DEF OneWorking, FlagsSound, Working, NoTurn
  <2>2. ApprovalsSound
    BY DEF ApprovalsSound, NoView
  <2>3. Followed /\ StopReachesHost
    BY DEF Followed, StopReachesHost, NoHost
  <2> QED
    BY <2>1, <2>2, <2>3 DEF PatientSound
<1> QED
  BY <1>3, <1>4, <1>5, <1>6, <1>7, <1>8, <1>9 DEF IInv

LEMMA StutterKeeps ==
  ASSUME IInv, UNCHANGED vars
  PROVE  IInv'
<1>1. /\ UNCHANGED <<abortRequested, planApproved, currentRun, turn, view>>
      /\ UNCHANGED <<cancels, host, channel, noise, call>>
  BY DEF vars, webviewVars, generatorVars, hostVars
<1>2. TypeOK'
  BY <1>1 DEF IInv, TypeOK
<1>3. TurnsSound' /\ RunsSound'
  <2>1. TurnsSound' /\ \A r \in Runs : Place(r)' = Place(r)
    BY <1>1, TurnsSame DEF IInv
  <2> QED
    BY <1>1, <2>1 DEF IInv, RunsSound
<1>4. CallsSound' /\ BudgetSound'
  <2>1. CallsGoOn
    BY <1>1 DEF CallsGoOn
  <2> QED
    BY <1>1, <2>1, CallsSame, BudgetSame DEF IInv
<1>5. Targets'
  BY <1>1 DEF IInv, Targets
<1>6. Patient => PatientSound'
  <2>1. HostKept /\ UNCHANGED webviewVars
    BY <1>1 DEF HostKept, webviewVars, generatorVars
  <2> QED
    BY <2>1, HostPatient DEF IInv
<1> QED
  BY <1>2, <1>3, <1>4, <1>5, <1>6 DEF IInv

LEMMA NextIInv ==
  ASSUME IInv, [Next]_vars
  PROVE  IInv'
<1>1. CASE UNCHANGED vars
  BY <1>1, StutterKeeps
<1>2. ASSUME NEW t \in Turns, Abort(t) \/ Preparation(t) \/ Generate(t)
      PROVE  IInv'
  BY <1>2, AbortKeeps, PreparedKeeps, GenerateKeeps DEF Preparation
<1>3. ASSUME NEW r \in Runs, HostStep(r)
      PROVE  IInv'
  BY <1>3, StartRunsKeeps, StartFailsKeeps, CancelRunsKeeps, RunUnregistersKeeps DEF HostStep
<1>4. ASSUME NEW r \in Runs, CliStep(r) \/ RunStops(r)
      PROVE  IInv'
  BY <1>4, CliEmitsKeeps, CliCallsKeeps, CliBreaksRulesKeeps, RunEndsKeeps DEF CliStep, RunStops
<1>5. ASSUME NEW r \in Runs, ToolStep(r) \/ UserApproves(r)
      PROVE  IInv'
  BY <1>5, ToolDroppedKeeps, ToolStartsKeeps, ToolReturnsKeeps, ToolThrowsKeeps,
     ToolResolvesKeeps, UserApprovesKeeps DEF ToolStep
<1>6. ASSUME NEW r \in Runs, EventStep(r)
      PROVE  IInv'
  BY <1>6, OnTextKeeps, OnTextOverflowKeeps, OnNativeToolKeeps, OnToolRequestKeeps,
     OnDoneKeeps DEF EventStep
<1>7. ASSUME NEW r \in Runs, TurnStep(r)
      PROVE  IInv'
  BY <1>7, StartAnsweredKeeps, FinishKeeps, StartRejectedKeeps DEF TurnStep
<1> QED
  BY <1>1, <1>2, <1>3, <1>4, <1>5, <1>6, <1>7 DEF Next

LEMMA Invariance == Spec => []IInv
<1>1. Init => IInv
  BY InitIInv
<1>2. IInv /\ [Next]_vars => IInv'
  BY NextIInv
<1> QED
  BY <1>1, <1>2, PTL DEF Spec

-----------------------------------------------------------------------------
(* The theorems.                                                            *)

\* Every variable has its type: also the counters of a turn and of a run stay
\* within the budget they are compared to, and a turn has at most three runs
\* (runTurn, runOnce, local_agent.rs).
THEOREM TypeCorrect == Spec => []TypeOK
<1>1. IInv => TypeOK
  BY DEF IInv
<1> QED
  BY <1>1, Invariance, PTL

\* However a turn is spread over a first run, a fresh one and a continuation,
\* its tools and searches run at most as often as its budget says
\* (consumeToolBudget, getRemainingToolBudget).
THEOREM BudgetHolds == Spec => []TurnBudget
<1>1. ASSUME IInv PROVE TurnBudget
  <2>1. ASSUME NEW t \in Turns
        PROVE  Cardinality({c \in Calls : call[c].ran /\ call[c].run[1] = t}) + turn[t].searches
                 <= MaxToolCalls
    <3>1. Cardinality(Ran(t)) + turn[t].searches = turn[t].used
      BY <1>1 DEF IInv, BudgetSound
    <3>2. turn[t].used \in 0..MaxToolCalls
      BY <1>1, Typed DEF IInv, TurnType
    <3> QED
      BY <3>1, <3>2, LocalAgentAssumption DEF Ran
  <2> QED
    BY <2>1 DEF TurnBudget
<1>2. IInv => TurnBudget
  BY <1>1
<1> QED
  BY <1>2, Invariance, PTL

\* A turn that is over has left nothing behind that works, neither a call in the
\* webview nor a run in the host (finish, toolQueue, local_agent_start).
THEOREM NothingLeft == Spec => []TurnsLeaveNothing
<1>1. ASSUME IInv PROVE TurnsLeaveNothing
  <2>1. ASSUME NEW t \in Turns, turn[t].pc = "over", NEW n \in 1..3
        PROVE  /\ Unfinished(<<t, n>>) = {}
               /\ host[<<t, n>>].stage \in {"none", "ending", "over"}
    <3> DEFINE r == <<t, n>>
    <3>1. r \in Runs /\ r[1] = t
      BY DEF Runs
    <3>2. Place(r) = "past"
      BY <2>1, <3>1 DEF Place
    <3>3. RunSound(Place(r), view[r], host[r], channel[r])
      BY <1>1, <3>1, RunIsSound DEF IInv
    <3>4. Work(view[r]) = {} /\ host[r].stage \notin {"invoked", "active"}
      BY <3>2, <3>3 DEF RunSound
    <3>5. host[r].stage \in {"none", "invoked", "active", "ending", "over"}
      BY <1>1, <3>1, Typed DEF IInv, HostType
    <3> QED
      BY <3>4, <3>5 DEF Unfinished, Work
  <2> QED
    BY <2>1 DEF TurnsLeaveNothing
<1>2. IInv => TurnsLeaveNothing
  BY <1>1
<1> QED
  BY <1>2, Invariance, PTL

\* As long as the user starts no turn beside one that is stopped and still
\* ends, a turn goes on from its plan only after the user approved that plan
\* in that turn (exit_plan_mode, planApproved).
THEOREM ContinuationApproved == Spec => [](Patient => ContinuationIsApproved)
<1>1. IInv => (Patient => ContinuationIsApproved)
  BY DEF IInv, TurnsSound, TurnSound, PatientSound, FlagsSound, Working, ContinuationIsApproved
<1> QED
  BY <1>1, Invariance, PTL

\* Under the same condition a stop reaches the host whenever it comes: before
\* the run has an id, while the answer of the start is on its way, or between
\* two runs of the turn (abort, startLocalAgent().then).
THEOREM StopReaches == Spec => [](Patient => StopReachesHost)
<1>1. IInv => (Patient => StopReachesHost)
  BY DEF IInv, PatientSound
<1> QED
  BY <1>1, Invariance, PTL

\* Only the start of a call in the webview makes it a call that ran.
LEMMA OnlyStartsRun ==
  ASSUME IInv, Next, NEW c \in Calls, call'[c].ran, ~call[c].ran
  PROVE  \E r \in Runs : ToolStarts(r) /\ c = Head(view[r].queue)
<1>1. TypeOK /\ call \in [Calls -> CallType]
  BY Typed DEF IInv
<1>2. call' # call
  OBVIOUS
<1>3. \A r \in Runs : CancelPending(r)[c].ran = call[c].ran
  BY <1>1, CancelledCalls
<1>4. ASSUME NEW t \in Turns, Abort(t) \/ Preparation(t) \/ Generate(t) PROVE FALSE
  BY <1>2, <1>4 DEF Abort, Preparation, Prepared, Generate
<1>5. ASSUME NEW r \in Runs, HostStep(r) PROVE FALSE
  BY <1>2, <1>3, <1>5 DEF HostStep, StartRuns, StartFails, CancelRuns, RunUnregisters
<1>6. ASSUME NEW r \in Runs, RunStops(r) PROVE FALSE
  BY <1>2, <1>6 DEF RunStops, RunEnds
<1>7. ASSUME NEW r \in Runs, CliStep(r) PROVE FALSE
  <2>1. ASSUME NEW d \in Calls, CliCalls(r, d) PROVE FALSE
    <3>1. CancelPending(r) \in [Calls -> CallType]
      BY <1>1, CancelledCalls
    <3>2. CASE call' = [call EXCEPT ![d].run = r, ![d].stage = "pending"]
      BY <3>2, <1>1 DEF CallType
    <3>3. CASE call' = [CancelPending(r) EXCEPT ![d].run = r, ![d].stage = "over"]
      <4> DEFINE rest == CancelPending(r)
      <4>1. call' = [rest EXCEPT ![d].run = r, ![d].stage = "over"] /\ rest[c].ran = call[c].ran
        BY <3>3, <1>3
      <4>2. rest \in [Calls -> CallType]
        BY <3>1
      <4> HIDE DEF rest
      <4> QED
        BY <4>1, <4>2 DEF CallType
    <3> QED
      BY <2>1, <3>2, <3>3 DEF CliCalls
  <2> QED
    BY <1>2, <1>3, <1>7, <2>1 DEF CliStep, CliEmits, CliBreaksRules
<1>8. ASSUME NEW r \in Runs, EventStep(r) \/ TurnStep(r) \/ UserApproves(r) PROVE FALSE
  BY <1>2, <1>8 DEF EventStep, OnText, OnTextOverflow, OnNativeTool, OnToolRequest, OnDone,
     TurnStep, StartAnswered, Finish, StartRejected, UserApproves
<1>9. ASSUME NEW r \in Runs, ToolStep(r)
      PROVE  ToolStarts(r) /\ c = Head(view[r].queue)
  <2>1. ~ToolDropped(r) /\ ~ToolReturns(r) /\ ~ToolThrows(r)
    BY <1>2 DEF ToolDropped, ToolReturns, ToolThrows
  <2>2. ~ToolResolves(r)
    <3>1. ASSUME NEW d, call' = [call EXCEPT ![d].stage = "over"] PROVE FALSE
      BY <3>1, <1>1 DEF CallType
    <3> QED
      BY <1>2, <3>1 DEF ToolResolves
  <2>3. ToolStarts(r)
    BY <1>9, <2>1, <2>2 DEF ToolStep
  <2>4. c = Head(view[r].queue)
    BY <2>3, <1>1 DEF ToolStarts
  <2> QED
    BY <2>3, <2>4
<1> QED
  BY <1>4, <1>5, <1>6, <1>7, <1>8, <1>9 DEF Next

\* Under the same condition a turn the user stopped starts no tool any more,
\* also none that was queued before the stop (executeTool, abortRequested).
THEOREM SilentWhenStopped == Patient => (Spec => StoppedTurnsAreSilent)
<1> SUFFICES ASSUME Patient PROVE Spec => StoppedTurnsAreSilent
  OBVIOUS
<1>1. ASSUME IInv, Next, NEW c \in Calls, call'[c].ran, ~call[c].ran
      PROVE  ~turn[call[c].run[1]].stopped
  <2>1. PICK r \in Runs : ToolStarts(r) /\ c = Head(view[r].queue)
    BY <1>1, OnlyStartsRun
  <2>2. view[r].queue # <<>> /\ ~abortRequested
    BY <2>1 DEF ToolStarts
  <2>3. call[c].run = r
    <3>1. view[r].queue \in Seq(Calls) /\ 1 \in DOMAIN view[r].queue /\ c = view[r].queue[1]
      BY <1>1, <2>1, <2>2, QueueTyped, QueueStarts DEF IInv
    <3>2. \A i \in DOMAIN view[r].queue : call[view[r].queue[i]].run = r
      BY <1>1 DEF IInv, CallsSound, QueuesSound, QueueSound, Mine
    <3> QED
      BY <3>1, <3>2
  <2>4. Working(r[1]) /\ r[1] \in Turns
    BY <1>1, <2>2, RunWorks, CurrentWorks
  <2> QED
    BY <1>1, <2>2, <2>3, <2>4 DEF IInv, PatientSound, FlagsSound
<1>2. IInv /\ [Next]_vars => [\A c \in Calls :
        call'[c].ran /\ ~call[c].ran => ~turn[call[c].run[1]].stopped]_vars
  BY <1>1
<1> QED
  BY <1>2, Invariance, PTL DEF Spec, StoppedTurnsAreSilent
=============================================================================
