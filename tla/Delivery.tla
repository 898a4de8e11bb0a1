------------------------------ MODULE Delivery ------------------------------
(***************************************************************************)
(* How a request reaches the service and its answer comes back: the client *)
(* processes, the service's IPC thread and its main loop, over the files   *)
(* of the card.  The two threads share the waiters, the result cache and   *)
(* the inbox under one storage mutex; the clients read and write the card  *)
(* without it.                                                             *)
(*                                                                         *)
(* What the service does for a request is Transaction's; here it is the    *)
(* answer that is written, or not.  A section between mutexLock and        *)
(* mutexUnlock is one step; the main loop holds the mutex for a whole tick *)
(* and its steps are taken one by one, for the clients see between them.   *)
(***************************************************************************)
EXTENDS Integers, FiniteSets

CONSTANTS
  Clients,       \* client processes, each sends one request
  Requests,      \* request ids
  Bodies,        \* what a request may ask for
  Sends,         \* the requests the clients may have to send
  NoBody,        \* there is no request file
  NoOne,         \* there is no waiter, no call, no request being served
  Completed,     \* completed_event, signalled once and for all
  Lost,          \* an event whose server is gone
  MaxWaiters,    \* PTC_IPC_MAX_WAITERS, 16
  MaxBatch,      \* files listed in one tick, 32
  MaxQuiesce,    \* ticks a hand-off may keep the service quiet, 120
  MaxIntents,    \* bound: hand-offs asked for
  MaxFaults,     \* bound: storage calls that fail
  MaxRestarts    \* bound: times the service stops and starts again

ASSUME NamesAssumption == /\ NoBody \notin Bodies
                          /\ NoOne \notin Clients \cup Requests
                          /\ {Completed, Lost} \cap Clients = {}
                          /\ Completed # Lost
ASSUME SendsAssumption == Sends \subseteq [Clients -> Requests \X Bodies]
ASSUME LimitsAssumption == /\ MaxWaiters \in Nat /\ MaxBatch \in Nat \ {0}
                           /\ MaxQuiesce \in Nat \ {0}
                           /\ MaxIntents \in Nat /\ MaxFaults \in Nat /\ MaxRestarts \in Nat

VARIABLES
  place,         \* the directory of the inbox a request's file is in
  body,          \* and what it asks for
  answered,      \* the requests with a file in results/
  main,          \* what the main loop does
  todo, serving, \* the files it listed, the one it executes
  wake,          \* wake_event
  waiter,        \* the completion event of a request's waiter, or NoOne
  cache,         \* the requests in the result cache
  signaled,      \* the requests whose waiter has been signalled
  fired,         \* completion events that have been fired
  up,            \* the IPC server is started
  accepting, quiescing, quiet,
  intent, ready, \* the transaction in handover/intent.json, the boot and the
                 \* transaction in handover/ready.json; 0 where there is none
  flag,          \* boot2.flag is there
  lapsed,        \* history: the hand-off whose time ran out and whose files
                 \* could not be removed, until the service is quiet again
  call,          \* what the IPC thread does, for whom, with what answer
  client,        \* what each client does
  sent,          \* its request's id and body
  token,         \* the event it waits for
  faults, intents, restarts

files  == <<place, body, answered>>
loop   == <<main, todo, serving>>
server == <<up, waiter, signaled, fired, cache>>
quiet3 == <<accepting, quiescing, quiet>>
hand   == <<intent, ready, flag, lapsed>>
ends   == <<client, sent, token>>
bounds == <<faults, intents, restarts>>
vars   == <<files, loop, wake, server, quiet3, hand, call, ends, bounds>>

Fault   == faults < MaxFaults /\ faults' = faults + 1
NoFault == UNCHANGED faults

Locked == main \in {"tick", "execute", "retire", "handoff"} /\ up   \* the main loop holds storage_mutex
Boot   == restarts + 1                   \* this run of the service
Active == {r \in Requests : waiter[r] # NoOne}
NoAck  == <<0, 0>>
Idle   == [do |-> "receive", for |-> NoOne, status |-> "none"]

-----------------------------------------------------------------------------
Init ==
  /\ place = [r \in Requests |-> "none"] /\ body = [r \in Requests |-> NoBody]
  /\ answered = {}
  /\ main = "wait" /\ todo = {} /\ serving = NoOne /\ wake = FALSE
  /\ waiter = [r \in Requests |-> NoOne]
  /\ signaled = {} /\ fired = {} /\ cache = {} /\ up = TRUE
  /\ accepting = TRUE /\ quiescing = FALSE /\ quiet = 0
  /\ intent = 0 /\ ready = NoAck /\ flag = TRUE /\ lapsed = 0 /\ call = Idle
  /\ client = [c \in Clients |-> "idle"]
  /\ sent \in Sends
  /\ token = [c \in Clients |-> Completed]
  /\ faults = 0 /\ intents = 0 /\ restarts = 0

Id(c)   == sent[c][1]
Text(c) == sent[c][2]
Becomes(c, label) == client' = [client EXCEPT ![c] = label]

(***************************************************************************)
(* A client.  With a connection it submits over IPC and waits for the      *)
(* event it was given; without one it drops the request into the inbox.    *)
(* The id of a file dropped there is fresh; over IPC a request may be sent *)
(* again, and an id may be met twice.                                      *)
(***************************************************************************)
Submit(c) ==
  /\ client[c] = "idle" /\ Becomes(c, "calling")
  /\ UNCHANGED <<files, loop, wake, server, quiet3, hand, call, sent, token, bounds>>

Drop(c) ==
  /\ client[c] = "idle" /\ place[Id(c)] = "none" /\ Id(c) \notin answered
  /\ \/ /\ NoFault /\ Becomes(c, "polling")
        /\ place' = [place EXCEPT ![Id(c)] = "pending"]
        /\ body' = [body EXCEPT ![Id(c)] = Text(c)]
     \/ Fault /\ Becomes(c, "refused") /\ UNCHANGED <<place, body>>
  /\ UNCHANGED <<answered, loop, wake, server, quiet3, hand, call, sent, token, intents, restarts>>

Notice(c) ==
  /\ client[c] = "waiting" /\ token[c] \in fired \cup {Completed}
  /\ Becomes(c, "fetching")
  /\ UNCHANGED <<files, loop, wake, server, quiet3, hand, call, sent, token, bounds>>

(* The file route reads results/ and, finding nothing, looks into done/.   *)
Poll(c) ==
  /\ client[c] = "polling"
  /\ Becomes(c, IF Id(c) \in answered THEN "read" ELSE "doubting")
  /\ UNCHANGED <<files, loop, wake, server, quiet3, hand, call, sent, token, bounds>>

Doubt(c) ==
  /\ client[c] = "doubting"
  /\ Becomes(c, IF place[Id(c)] = "done" THEN "missing" ELSE "polling")
  /\ UNCHANGED <<files, loop, wake, server, quiet3, hand, call, sent, token, bounds>>

GiveUp(c) ==         \* its own time limit, or another request cancels this one
  /\ client[c] \in {"waiting", "polling"} /\ Becomes(c, "gone")
  /\ UNCHANGED <<files, loop, wake, server, quiet3, hand, call, sent, token, bounds>>

(***************************************************************************)
(* The IPC thread: one call at a time, its reply sent when it is ready to  *)
(* receive the next one.                                                   *)
(***************************************************************************)
(* Mutant: every waiter is reclaimed, signalled or not.                    *)
ReclaimedAll == [r \in Requests |-> NoOne]

(* Signalled waiters are reclaimed by the next submission.                 *)
Reclaimed == [r \in Requests |-> IF r \in signaled THEN NoOne ELSE waiter[r]]

(* Mutant: any file of that id is taken for the same request.              *)
ConflictNever(c) == FALSE
Conflict(c) == place[Id(c)] # "none" /\ body[Id(c)] # Text(c)

Known(c) == place[Id(c)] # "none" \/ Id(c) \in answered

Refuse(c, status) ==
  /\ call' = [do |-> "reply", for |-> c, status |-> status]
  /\ waiter' = Reclaimed /\ signaled' = {}
  /\ UNCHANGED <<place, body, fired, token>>

(* The client is given the event of the request's waiter, its own or one   *)
(* created before.  With the result already there that waiter is fired,    *)
(* and given up again unless the submission is an error.                   *)
Admit(c, status) ==
  LET r     == Id(c)
      event == IF Reclaimed[r] = NoOne THEN c ELSE Reclaimed[r]
      ok    == status \in {"accepted", "duplicate"}
      known == r \in answered
  IN
  /\ fired'    = IF known THEN fired \cup {event} ELSE fired
  /\ waiter'   = [Reclaimed EXCEPT ![r] = IF known /\ ok THEN NoOne ELSE event]
  /\ signaled' = IF known /\ ~ok THEN {r} ELSE {}
  /\ token'    = [token EXCEPT ![c] = IF known /\ ok THEN Completed ELSE event]
  /\ call'     = [do |-> CASE ok /\ ~known -> "wake"
                           [] ~ok /\ Reclaimed[r] = NoOne -> "cleanup"
                           [] OTHER -> "reply",
                  for |-> c, status |-> status]

(* write_text_atomic into inbox/pending.                                   *)
Store(c) == /\ place' = [place EXCEPT ![Id(c)] = "pending"]
            /\ body' = [body EXCEPT ![Id(c)] = Text(c)]

(* The section under the storage mutex of handle_submit, by its outcomes.  *)
Free == call = Idle /\ up /\ ~Locked

NoWaiterLeft(c) == /\ Reclaimed[Id(c)] = NoOne
                   /\ Cardinality({r \in Requests : Reclaimed[r] # NoOne}) >= MaxWaiters

(* Mutant: a submission does not look whether the service is being quieted.*)
AdmissibleAlways(c) == ~NoWaiterLeft(c)
Admissible(c) == accepting /\ ~NoWaiterLeft(c)

HandleSubmit(c) ==
  /\ Free /\ client[c] = "calling"
  /\ \/ ~accepting /\ Refuse(c, "quiescing") /\ NoFault
     \/ accepting /\ NoWaiterLeft(c) /\ Refuse(c, "too_many_waiters") /\ NoFault
     \/ /\ Admissible(c) /\ Reclaimed[Id(c)] = NoOne          \* eventCreate fails
        /\ Refuse(c, "too_many_waiters") /\ Fault
     \/ /\ Admissible(c) /\ Known(c) /\ NoFault
        /\ Admit(c, IF Conflict(c) THEN "conflict" ELSE "duplicate")
        /\ UNCHANGED <<place, body>>
     \/ Admissible(c) /\ ~Known(c) /\ Admit(c, "accepted") /\ Store(c) /\ NoFault
     \/ /\ Admissible(c) /\ ~Known(c) /\ Fault
        /\ Admit(c, "storage_failed") /\ UNCHANGED <<place, body>>
  /\ UNCHANGED <<answered, loop, wake, up, cache, quiet3, hand, client, sent, intents, restarts>>

(* eventFire(wake_event), after the mutex is released.                     *)
Wake ==
  /\ call.do = "wake" /\ wake' = TRUE
  /\ call' = [call EXCEPT !.do = "reply"]
  /\ UNCHANGED <<files, loop, server, quiet3, hand, ends, bounds>>

(* A second section: the waiter created for a submission that failed goes. *)
Cleanup ==
  /\ call.do = "cleanup" /\ ~Locked
  /\ waiter' = [waiter EXCEPT ![Id(call.for)] = NoOne]
  /\ signaled' = signaled \ {Id(call.for)}
  /\ call' = [call EXCEPT !.do = "reply"]
  /\ UNCHANGED <<files, loop, wake, up, fired, cache, quiet3, hand, ends, bounds>>

(* Mutant: the directories of the inbox are asked before results/.         *)
FoundDirectoriesFirst(r) ==
  CASE place[r] \in {"pending", "processing"} -> "pending"
    [] place[r] = "done" -> "not_persisted"
    [] r \in cache \cup answered -> "ready"
    [] OTHER -> "not_found"

Found(r) ==
  CASE r \in cache \cup answered -> "ready"
    [] r \notin cache \cup answered /\ place[r] \in {"pending", "processing"} -> "pending"
    [] r \notin cache \cup answered /\ place[r] = "done" -> "not_persisted"
    [] OTHER -> "not_found"

HandleFetch(c) ==
  /\ Free /\ client[c] = "fetching"
  /\ call' = [do |-> IF Found(Id(c)) \in {"ready", "not_persisted"} THEN "release" ELSE "reply",
              for |-> c, status |-> Found(Id(c))]
  /\ cache' = IF Found(Id(c)) = "ready" THEN cache \cup {Id(c)} ELSE cache
  /\ UNCHANGED <<files, loop, wake, up, waiter, signaled, fired, quiet3, hand, ends, bounds>>

(* Its second section: the waiter of a request that was handed out goes.   *)
Release ==
  /\ call.do = "release" /\ ~Locked
  /\ waiter' = [waiter EXCEPT ![Id(call.for)] = NoOne]
  /\ signaled' = signaled \ {Id(call.for)}
  /\ call' = [call EXCEPT !.do = "reply"]
  /\ UNCHANGED <<files, loop, wake, up, fired, cache, quiet3, hand, ends, bounds>>

(* svcReplyAndReceive, and what the client makes of the status.            *)
Reply ==
  /\ call.do = "reply" /\ call' = Idle
  /\ Becomes(call.for,
       CASE call.status \in {"accepted", "duplicate"}  -> "waiting"
         [] call.status = "ready"                      -> "answered"
         [] call.status = "not_persisted"              -> "unpersisted"
         [] call.status \in {"pending", "not_found"}   -> "polling"
         [] OTHER                                      -> "refused")
  /\ UNCHANGED <<files, loop, wake, server, quiet3, hand, sent, token, bounds>>

(***************************************************************************)
(* The main loop.  A quiet service leaves the inbox alone.                 *)
(***************************************************************************)
PendingFiles == {r \in Requests : place[r] = "pending"}

(* Up to a batch of the files in inbox/pending is listed.                  *)
TickStart ==
  /\ main = "wait" /\ main' = "tick" /\ wake' = FALSE
  /\ todo' \in IF quiescing THEN {{}}
               ELSE {s \in SUBSET PendingFiles :
                       Cardinality(s) <= MaxBatch
                       /\ (s # PendingFiles => Cardinality(s) = MaxBatch)}
  /\ UNCHANGED <<files, serving, server, quiet3, hand, call, ends, bounds>>

Take(r) ==
  /\ main = "tick" /\ r \in todo /\ todo' = todo \ {r}
  /\ \/ /\ NoFault /\ main' = "execute" /\ serving' = r
        /\ place' = [place EXCEPT ![r] = "processing"]
     \/ Fault /\ UNCHANGED <<main, serving, place>>
  /\ UNCHANGED <<body, answered, wake, server, quiet3, hand, call, ends, intents, restarts>>

(* The result is written, or it is not: the request could not be read, or  *)
(* the write failed, perhaps after it removed an earlier result.           *)
Execute ==
  /\ main = "execute" /\ main' = "retire"
  /\ \/ NoFault /\ answered' = answered \cup {serving}
     \/ Fault /\ answered' \in {answered, answered \ {serving}}
  /\ UNCHANGED <<place, body, todo, serving, wake, server, quiet3, hand, call, ends,
                 intents, restarts>>

Retire ==
  /\ main = "retire" /\ main' = "tick" /\ serving' = NoOne
  /\ \/ NoFault /\ place' = [place EXCEPT ![serving] = "done"]
     \/ Fault /\ UNCHANGED place
  /\ UNCHANGED <<body, answered, todo, wake, server, quiet3, hand, call, ends, intents, restarts>>

(* The first tick of a boot is followed by the start of the IPC server.    *)
TickEnd ==
  /\ main = "tick" /\ todo = {}
  /\ main' = IF up THEN "handoff" ELSE "wait"
  /\ up' = TRUE
  /\ UNCHANGED <<files, todo, serving, wake, waiter, signaled, fired, cache, quiet3, hand,
                 call, ends, bounds>>

(***************************************************************************)
(* handoff_tick.                                                           *)
(***************************************************************************)
(* ready.json is written again in every quiet tick; at the end both files  *)
(* are removed, and nobody looks whether they are gone: a card that fails  *)
(* may leave the one, the other or both behind.                            *)
EndHandoff(ack) ==
  \/ intent' = 0 /\ ready' = NoAck /\ NoFault
  \/ Fault /\ intent' \in {0, intent} /\ ready' \in {NoAck, ack}

Resumed == accepting' = TRUE /\ quiescing' = FALSE /\ quiet' = 0

HandoffUnasked ==
  /\ main = "handoff" /\ main' = "signal" /\ intent = 0 /\ Resumed
  /\ UNCHANGED <<files, todo, serving, wake, server, hand, call, ends, bounds>>

(* A transaction that could not be rolled back keeps its journal.          *)
HandoffJournalOpen ==
  /\ main = "handoff" /\ main' = "signal" /\ intent # 0 /\ Fault
  /\ accepting' = FALSE
  /\ UNCHANGED <<files, todo, serving, wake, server, quiescing, quiet, hand, call, ends,
                 intents, restarts>>

HandoffQuiet ==
  /\ main = "handoff" /\ intent # 0 /\ flag
  /\ main' = "signal"
  /\ \/ /\ quiet + 1 >= MaxQuiesce /\ Resumed                \* the launcher vanished
        /\ EndHandoff(<<Boot, intent>>)
        /\ lapsed' = IF ready' = <<Boot, intent>> THEN intent' ELSE lapsed
     \/ /\ quiet + 1 < MaxQuiesce /\ quiet' = quiet + 1
        /\ quiescing' = TRUE /\ accepting' = FALSE /\ lapsed' = 0
        /\ UNCHANGED intent
        /\ \/ NoFault /\ ready' = <<Boot, intent>>
           \/ Fault /\ UNCHANGED ready
  /\ UNCHANGED <<files, todo, serving, wake, server, flag, call, ends, intents, restarts>>

HandoffExit ==
  /\ main = "handoff" /\ intent # 0 /\ ~flag
  /\ main' = "exited" /\ accepting' = FALSE /\ quiescing' = TRUE
  /\ EndHandoff(<<Boot, intent>>)
  /\ UNCHANGED <<files, todo, serving, wake, server, quiet, flag, lapsed, call, ends, intents, restarts>>

(* Mutant: only a request with a result is signalled.                      *)
CompletedAnswered == {r \in Active \ signaled : r \in answered}
CompletedWaiters  == {r \in Active \ signaled : r \in answered \/ place[r] = "done"}

Signal ==
  /\ main = "signal" /\ main' = "wait"
  /\ fired' = fired \cup {waiter[r] : r \in CompletedWaiters}
  /\ signaled' = signaled \cup CompletedWaiters
  /\ cache' = cache \cup (CompletedWaiters \cap answered)
  /\ UNCHANGED <<files, todo, serving, wake, up, waiter, quiet3, hand, call, ends, bounds>>

(***************************************************************************)
(* The world: the program that loads a new version asks for quiet, takes   *)
(* the boot flag away once it is acknowledged, or gives up; and the        *)
(* service stops at any point and is started again, here or after a power  *)
(* loss.  What the launcher believes between its steps is not modelled.    *)
(***************************************************************************)
AskHandoff ==
  /\ intents < MaxIntents /\ intent = 0 /\ ready = NoAck /\ flag
  /\ intents' = intents + 1 /\ intent' = intents + 1
  /\ UNCHANGED <<files, loop, wake, server, quiet3, ready, flag, lapsed, call, ends, faults, restarts>>

CommitHandoff ==
  /\ intent # 0 /\ ready = <<Boot, intent>> /\ flag /\ flag' = FALSE
  /\ restarts < MaxRestarts
  /\ UNCHANGED <<files, loop, wake, server, quiet3, intent, ready, lapsed, call, ends, bounds>>

CancelHandoff ==
  /\ intent # 0 /\ EndHandoff(ready) /\ flag' = TRUE
  /\ UNCHANGED <<files, loop, wake, server, quiet3, lapsed, call, ends, intents, restarts>>

(* recover_processing, before anything else looks at the inbox.  The calls *)
(* under way fail and their clients turn to the file route; events that    *)
(* were waited for die with the service.                                   *)
Restart ==
  /\ restarts < MaxRestarts /\ restarts' = restarts + 1
  /\ main' = "wait" /\ todo' = {} /\ serving' = NoOne /\ wake' = FALSE
  /\ up' = FALSE /\ waiter' = [r \in Requests |-> NoOne]
  /\ signaled' = {} /\ fired' = {} /\ cache' = {}
  /\ Resumed /\ flag' = TRUE /\ lapsed' = 0 /\ call' = Idle
  /\ intent' = (IF flag THEN intent ELSE 0) /\ ready' = (IF flag THEN ready ELSE NoAck)
  /\ LET stuck == {r \in Requests : place[r] = "processing"} IN
     \/ NoFault /\ place' = [r \in Requests |-> IF r \in stuck THEN "pending" ELSE place[r]]
     \/ stuck # {} /\ Fault /\ UNCHANGED place
  /\ client' = [c \in Clients |-> IF client[c] \in {"calling", "fetching"}
                                  THEN "polling" ELSE client[c]]
  /\ token' = [c \in Clients |-> IF client[c] = "waiting" /\ token[c] \notin fired \cup {Completed}
                                 THEN Lost ELSE Completed]
  /\ UNCHANGED <<body, answered, sent, intents>>

-----------------------------------------------------------------------------
ClientStep(c) == Drop(c) \/ Submit(c) \/ Notice(c) \/ Poll(c) \/ Doubt(c) \/ GiveUp(c)

IpcSection == \/ \E c \in Clients : HandleSubmit(c) \/ HandleFetch(c)
              \/ Cleanup \/ Release
IpcStep    == IpcSection \/ Wake \/ Reply

LoopStep == \/ TickStart \/ TickEnd \/ Execute \/ Retire \/ Signal
            \/ \E r \in Requests : Take(r)
            \/ HandoffUnasked \/ HandoffJournalOpen \/ HandoffQuiet \/ HandoffExit

World == AskHandoff \/ CommitHandoff \/ CancelHandoff \/ Restart

Next == (\E c \in Clients : ClientStep(c)) \/ IpcStep \/ LoopStep \/ World

Spec == Init /\ [][Next]_vars

(* The service's two threads run, and so does a client that has asked.     *)
(* The mutex is handed to a thread that waits for it: the IPC thread meets *)
(* it free again and again, so its sections are fair strongly.             *)
Fairness ==
  /\ WF_vars(LoopStep) /\ WF_vars(Wake \/ Reply) /\ SF_vars(IpcSection)
  /\ \A c \in Clients : WF_vars(Notice(c) \/ Poll(c) \/ Doubt(c))

FairSpec == Spec /\ Fairness

-----------------------------------------------------------------------------
(* When the main loop goes to sleep and no wake-up is on its way, no       *)
(* waiter is left unsignalled whose request has been answered or retired:  *)
(* its client would sit on the event although the answer is there.         *)
NoMissedSignal ==
  main = "wait" /\ ~wake /\ call.do \notin {"wake", "cleanup"} =>
    \A r \in Active \ signaled : r \notin answered /\ place[r] # "done"

(* A client never waits for an event nobody will fire: the waiter that     *)
(* holds its event is there until it has been fired, whoever else submits  *)
(* or collects the same request in the meantime.                           *)
EventHeld ==
  \A c \in Clients :
    client[c] = "waiting" /\ token[c] \notin fired \cup {Completed, Lost} =>
      waiter[Id(c)] = token[c]

(* EventHeld, as long as no storage call has failed (handle_submit,        *)
(* handle_get_result): a result that could not be written breaks it.       *)
TokenLive == faults = 0 => EventHeld

(* A client that the service accepted waits for, and is handed, the answer *)
(* to what it asked, not to another request that came under its id.        *)
AnswerIsMine ==
  \A c \in Clients : client[c] \in {"waiting", "answered"} => body[Id(c)] = Text(c)

(* RESULT_NOT_PERSISTED is only told of a request that has no result.      *)
UnpersistedIsTrue ==
  \A c \in Clients : client[c] = "unpersisted" => Id(c) \notin answered

(* Once ready.json acknowledges the hand-off under way, the service takes  *)
(* up no request and writes none down until the hand-off is over.  The     *)
(* code breaks this where the time limit ends the hand-off and neither of  *)
(* its files can be removed: until the next hand-off tick the service has  *)
(* resumed under an acknowledgement that stands, and that is excepted.     *)
QuietWhenReady ==
  [][ intent # 0 /\ intent # lapsed /\ ready = <<Boot, intent>> /\ restarts' = restarts =>
        /\ main' \notin {"execute", "retire"}
        /\ call = Idle => call'.status \notin {"accepted", "duplicate"} ]_vars

(* Every call ends: a client that has asked is answered, told what became  *)
(* of its request, refused, or has given up.                               *)
Ended == {"answered", "read", "unpersisted", "missing", "refused", "gone"}
EveryCallEnds ==
  \A c \in Clients : client[c] # "idle" ~> client[c] \in Ended

(* What the file route tells of a request in inbox/done/ without a result. *)
MissingIsTrue ==
  \A c \in Clients : client[c] = "missing" => Id(c) \notin answered
=============================================================================
