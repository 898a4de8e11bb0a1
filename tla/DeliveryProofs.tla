--------------------------- MODULE DeliveryProofs ---------------------------
(***************************************************************************)
(* Proofs about the way of a request and of its answer, for any number of  *)
(* clients, requests, hand-offs, restarts and failing storage calls.       *)
(***************************************************************************)
EXTENDS Delivery, TLAPS

(***************************************************************************)
(* The inductive invariant.                                                *)
(***************************************************************************)
Dirs     == {"none", "pending", "processing", "done"}
Mains    == {"wait", "tick", "execute", "retire", "handoff", "signal", "exited"}
Promises == {"accepted", "duplicate"}
Replies  == Promises \cup {"quiescing", "too_many_waiters", "conflict", "storage_failed"}
Findings == {"ready", "pending", "not_persisted", "not_found"}
Dos      == {"receive", "wake", "cleanup", "release", "reply"}
Labels   == {"idle", "calling", "waiting", "fetching", "polling", "doubting",
             "answered", "read", "unpersisted", "missing", "refused", "gone"}

(* The type invariant, in four parts.                                      *)
FilesOK ==
  /\ place \in [Requests -> Dirs] /\ body \in [Requests -> Bodies \cup {NoBody}]
  /\ answered \subseteq Requests
  /\ main \in Mains /\ todo \subseteq Requests /\ serving \in Requests \cup {NoOne} /\ wake \in BOOLEAN
ServerOK ==
  /\ waiter \in [Requests -> Clients \cup {NoOne}]
  /\ signaled \subseteq Requests /\ fired \subseteq Clients /\ cache \subseteq Requests /\ up \in BOOLEAN
  /\ call \in [do : Dos, for : Clients \cup {NoOne}, status : Replies \cup Findings \cup {"none"}]
HandOK ==
  /\ accepting \in BOOLEAN /\ quiescing \in BOOLEAN /\ quiet \in Nat
  /\ intent \in Nat /\ ready \in Nat \X Nat /\ ready[1] <= Boot /\ flag \in BOOLEAN
  /\ lapsed \in Nat
  /\ faults \in Nat /\ intents \in Nat /\ restarts \in Nat
EndsOK ==
  /\ client \in [Clients -> Labels] /\ sent \in [Clients -> Requests \X Bodies]
  /\ token \in [Clients -> Clients \cup {Completed, Lost}]

(* What the IPC thread does is for a client that has called, and one call  *)
(* leads to one kind of answer.                                            *)
Calls ==
  /\ call.do = "receive" => call = Idle
  /\ call.do # "receive" =>
       /\ call.for \in Clients /\ call.status # "none"
       /\ client[call.for] = IF call.status \in Replies THEN "calling" ELSE "fetching"
  /\ call.do = "wake" => call.status \in Promises
  /\ call.do = "cleanup" => call.status \in {"conflict", "storage_failed"}
  /\ call.do = "release" => call.status \in {"ready", "not_persisted"}

(* The file that is executed is in processing/, those that were listed are *)
(* still there, and a service that has not begun to listen has no waiter.  *)
Listed ==
  /\ main \in {"execute", "retire"} => serving \in Requests /\ place[serving] = "processing"
  /\ \A r \in todo : place[r] = "pending"
  /\ main \notin {"tick", "execute", "retire"} => todo = {}
  /\ ~up => Active = {}

(* A result is of a request whose file is in the inbox.                    *)
Filed == \A r \in answered : place[r] # "none"

Promised(c) == call.for = c /\ call.status \in Promises

(* Whoever was accepted finds its own request in the inbox.                *)
Mine ==
  \A c \in Clients : client[c] \in {"waiting", "fetching", "answered"} \/ Promised(c) =>
    place[Id(c)] # "none" /\ body[Id(c)] = Text(c)

(* What was found without a result when it was done with gets none.        *)
Told ==
  \A c \in Clients : client[c] = "unpersisted" \/ (call.for = c /\ call.status = "not_persisted") =>
    place[Id(c)] = "done" /\ Id(c) \notin answered

(* NoMissedSignal, but for the waiter that a failed submission still has.  *)
Awake ==
  main = "wait" /\ ~wake /\ call.do # "wake" =>
    \A r \in Active \ signaled : \/ r \notin answered /\ place[r] # "done"
                                 \/ call.do = "cleanup" /\ r = Id(call.for)

(* An acknowledged hand-off keeps the service quiet.                       *)
Quieted ==
  intent # 0 /\ intent # lapsed /\ ready = <<Boot, intent>> =>
    /\ quiescing /\ ~accepting
    /\ main \notin {"execute", "retire"} /\ todo = {}

(* An event is of the client that it was created for, in its one           *)
(* submission, and of the request that this client sent.                   *)
Events ==
  /\ \A r \in Active : Id(waiter[r]) = r
  /\ \A c \in Clients : token[c] \in Clients => Id(token[c]) = Id(c)
  /\ \A c \in Clients : client[c] \in {"idle", "calling"} /\ call.for # c =>
       c \notin fired /\ (\A r \in Requests : waiter[r] # c) /\ (\A d \in Clients : token[d] # c)
  /\ call.do = "cleanup" =>
       waiter[Id(call.for)] = call.for /\ \A d \in Clients \ {call.for} : token[d] # call.for
  /\ \A r \in signaled : waiter[r] \in fired
  /\ \A r \in Active \ signaled : waiter[r] \notin fired

(* As long as no call of the storage has failed, what is done with has a   *)
(* result, and a client that expects its event has it from a waiter, or    *)
(* from a request that is settled.                                         *)
Settled(r) == r \in answered /\ waiter[r] \in fired \cup {NoOne}

Kept ==
  faults = 0 =>
    /\ \A r \in Requests : place[r] = "done" => r \in answered
    /\ main = "retire" => serving \in answered
    /\ cache \subseteq answered
    /\ \A c \in Clients : client[c] = "waiting" \/ Promised(c) =>
         IF token[c] \in fired \cup {Completed} THEN Settled(Id(c))
         ELSE token[c] = Lost \/ waiter[Id(c)] = token[c]
    /\ \A c \in Clients : client[c] = "fetching" => Settled(Id(c))

IInv == /\ FilesOK /\ ServerOK /\ HandOK /\ EndsOK
        /\ Calls /\ Listed /\ Filed /\ Mine /\ Told /\ Awake /\ Quieted /\ Events /\ Kept

USE NamesAssumption, LimitsAssumption DEF Boot, NoAck, Idle, Id, Text, Becomes, NoFault

-----------------------------------------------------------------------------
(***************************************************************************)
(* The operators of the model.                                             *)
(***************************************************************************)
(* What a client sends is a request and a body.                            *)
LEMMA SentIs ==
  ASSUME EndsOK
  PROVE  \A c \in Clients : Id(c) \in Requests /\ Text(c) \in Bodies
BY DEF EndsOK

(* The next submission gives up the waiters that were signalled, and no    *)
(* other.                                                                  *)
LEMMA ReclaimedIs ==
  ASSUME ServerOK
  PROVE  /\ Reclaimed \in [Requests -> Clients \cup {NoOne}]
         /\ \A r \in Requests : Reclaimed[r] = IF r \in signaled THEN NoOne ELSE waiter[r]
BY DEF ServerOK, Reclaimed

(* A fetch finds a result where there is one, and RESULT_NOT_PERSISTED     *)
(* only where there is none.                                               *)
LEMMA FoundIs ==
  ASSUME NEW r
  PROVE  /\ Found(r) \in Findings
         /\ Found(r) = "ready" <=> r \in cache \cup answered
         /\ Found(r) = "not_persisted" => place[r] = "done" /\ r \notin answered
BY DEF Found, Findings

(* An acknowledgement of this boot is not the absence of one.              *)
LEMMA ReadyIs ==
  ASSUME HandOK
  PROVE  /\ <<Boot, intent>> \in Nat \X Nat /\ <<Boot, intent>>[1] = Boot
         /\ <<0, 0>> \in Nat \X Nat /\ <<0, 0>>[1] = 0 /\ <<0, 0>> # <<Boot, intent>>
         /\ Boot \in Nat \ {0}
BY DEF HandOK

(* The two files are removed, or stay where the card fails.                *)
LEMMA EndHandoffIs ==
  ASSUME HandOK, NEW ack \in Nat \X Nat, ack[1] <= Boot, EndHandoff(ack)
  PROVE  /\ intent' \in Nat /\ faults' \in Nat
         /\ ready' \in Nat \X Nat /\ ready'[1] <= Boot
         /\ intent' \in {0, intent} /\ ready' \in {<<0, 0>>, ack}
BY ReadyIs DEF HandOK, EndHandoff, Fault

-----------------------------------------------------------------------------
(***************************************************************************)
(* The first state, and the steps of a client.                             *)
(***************************************************************************)
(* The invariant holds where the service has never run.                    *)
THEOREM InitInvariant == Init => IInv
<1> SUFFICES ASSUME Init PROVE IInv OBVIOUS
<1> USE DEF Init
<1>1. FilesOK BY DEF FilesOK, Mains, Dirs
<1>2. ServerOK BY DEF ServerOK, Dos
<1>3. HandOK
  <2>1. NoAck \in Nat \X Nat /\ NoAck[1] = 0 OBVIOUS
  <2>2. ready = NoAck OBVIOUS
  <2> HIDE DEF NoAck
  <2>3. accepting \in BOOLEAN /\ quiescing \in BOOLEAN /\ quiet \in Nat OBVIOUS
  <2>4. /\ intent \in Nat /\ flag \in BOOLEAN /\ lapsed \in Nat
        /\ faults \in Nat /\ intents \in Nat /\ restarts \in Nat
    OBVIOUS
  <2>5. ready \in Nat \X Nat BY <2>1, <2>2
  <2>6. ready[1] <= restarts + 1 BY <2>1, <2>2
  <2> QED BY ONLY <2>3, <2>4, <2>5, <2>6 DEF HandOK, Boot
<1>4. EndsOK BY SendsAssumption DEF EndsOK, Labels
<1>5. Calls BY DEF Calls
<1>6. Listed BY DEF Listed, Active
<1>7. Filed BY DEF Filed
<1>8. Mine BY DEF Mine, Promised
<1>9. Told BY DEF Told
<1>10. Awake BY DEF Awake, Active
<1>11. Quieted BY DEF Quieted
<1>12. Events BY DEF Events, Active
<1>13. Kept BY DEF Kept, Promised
<1> QED BY <1>1, <1>2, <1>3, <1>4, <1>5, <1>6, <1>7, <1>8, <1>9, <1>10, <1>11, <1>12, <1>13 DEF
     IInv

(* A call that is not received yet changes nothing else.                   *)
LEMMA SubmitKeeps ==
  ASSUME IInv, NEW c \in Clients, Submit(c)
  PROVE  IInv'
BY DEF IInv, Submit, files, loop, server, quiet3, hand, bounds, FilesOK, ServerOK, HandOK,
     EndsOK, Labels, Calls, Listed, Active, Filed, Mine, Promised, Told, Awake, Quieted, Events,
     Kept, Settled

(* A file dropped into the inbox is of a request that is nowhere else.     *)
LEMMA DropKeeps ==
  ASSUME IInv, NEW c \in Clients, Drop(c)
  PROVE  IInv'
<1> USE DEF IInv, Drop, loop, server, quiet3, hand, Fault
<1>1. FilesOK'
  <2>1. Id(c) \in Requests /\ Text(c) \in Bodies /\ "pending" \in Dirs
    BY SentIs DEF IInv, Dirs
  <2>2. place' \in [Requests -> Dirs] /\ body' \in [Requests -> Bodies \cup {NoBody}]
    BY <2>1 DEF IInv, FilesOK, Drop
  <2> QED BY <2>2 DEF IInv, FilesOK, Drop, loop
<1>2. ServerOK' /\ HandOK' /\ EndsOK' /\ Calls' /\ Listed' /\ Filed' /\ Quieted'
  BY DEF ServerOK, HandOK, EndsOK, Labels, Calls, Listed, Active, FilesOK, Filed, Quieted
<1>3. Mine' /\ Told' /\ Awake' /\ Events' /\ Kept'
  BY DEF ServerOK, EndsOK, Labels, Calls, Active, FilesOK, HandOK, Mine, Promised, Told, Awake, Events, Kept, Settled
<1> QED BY <1>1, <1>2, <1>3

(* Whoever sees its event fired has a settled request to fetch.            *)
LEMMA NoticeKeeps ==
  ASSUME IInv, NEW c \in Clients, Notice(c)
  PROVE  IInv'
BY DEF IInv, Notice, files, loop, server, quiet3, hand, bounds, FilesOK, ServerOK, HandOK,
     EndsOK, Labels, Calls, Listed, Active, Filed, Mine, Promised, Told, Awake, Quieted, Events,
     Kept, Settled

(* The file route only reads.                                              *)
LEMMA PollKeeps ==
  ASSUME IInv, NEW c \in Clients, Poll(c)
  PROVE  IInv'
BY DEF IInv, Poll, files, loop, server, quiet3, hand, bounds, FilesOK, ServerOK, HandOK, EndsOK,
     Labels, Calls, Listed, Active, Filed, Mine, Promised, Told, Awake, Quieted, Events, Kept,
     Settled

(* And so does its second look.                                            *)
LEMMA DoubtKeeps ==
  ASSUME IInv, NEW c \in Clients, Doubt(c)
  PROVE  IInv'
BY DEF IInv, Doubt, files, loop, server, quiet3, hand, bounds, FilesOK, ServerOK, HandOK,
     EndsOK, Labels, Calls, Listed, Active, Filed, Mine, Promised, Told, Awake, Quieted, Events,
     Kept, Settled

(* A client that stops waiting leaves its waiter to whoever shares the     *)
(* request.                                                                *)
LEMMA GiveUpKeeps ==
  ASSUME IInv, NEW c \in Clients, GiveUp(c)
  PROVE  IInv'
BY DEF IInv, GiveUp, files, loop, server, quiet3, hand, bounds, FilesOK, ServerOK, HandOK,
     EndsOK, Labels, Calls, Listed, Active, Filed, Mine, Promised, Told, Awake, Quieted, Events,
     Kept, Settled

-----------------------------------------------------------------------------
(***************************************************************************)
(* The IPC thread.                                                         *)
(***************************************************************************)
(* A refusal reclaims the signalled waiters and promises nothing.          *)
LEMMA RefuseKeeps ==
  ASSUME IInv, NEW c \in Clients, HandleSubmit(c), Fault \/ NoFault,
         NEW status \in {"quiescing", "too_many_waiters"}, Refuse(c, status)
  PROVE  IInv'
<1>1. /\ call = Idle /\ client[c] = "calling" /\ up /\ faults' \in Nat /\ (faults' = 0 => faults = 0)
      /\ call' = [do |-> "reply", for |-> c, status |-> status]
      /\ waiter' = Reclaimed /\ signaled' = {}
      /\ UNCHANGED <<place, body, answered, main, todo, serving, wake, up, fired, cache>>
      /\ UNCHANGED <<accepting, quiescing, quiet, intent, ready, flag, lapsed>>
      /\ UNCHANGED <<client, sent, token, intents, restarts>>
  BY DEF IInv, HandOK, HandleSubmit, Refuse, Free, Fault, loop, quiet3, hand
<1>2. /\ Reclaimed \in [Requests -> Clients \cup {NoOne}]
      /\ \A r \in Requests : Reclaimed[r] = IF r \in signaled THEN NoOne ELSE waiter[r]
  BY ReclaimedIs DEF IInv
<1> HIDE DEF Reclaimed
<1>3. FilesOK' /\ HandOK' /\ EndsOK'
  BY <1>1 DEF IInv, FilesOK, HandOK, EndsOK
<1>4. ServerOK'
  BY <1>1, <1>2 DEF IInv, ServerOK, Dos, Replies, Promises
<1>5. Calls'
  BY <1>1 DEF Calls, Replies, Promises
<1>6. Listed' /\ Filed' /\ Quieted'
  BY <1>1 DEF IInv, Listed, Filed, Quieted, Active
<1>7. Mine' /\ Told'
  BY <1>1 DEF IInv, Mine, Told, Promised, Promises
<1>8. Awake'
  BY <1>1, <1>2 DEF IInv, Awake, Active
<1>9. Events'
  BY <1>1, <1>2 DEF IInv, Events, Active
<1>10. Kept'
  <2>1. \A r \in Requests : Settled(r) => Settled(r)'
    BY <1>1, <1>2 DEF Settled
  <2>2. \A d \in Clients : Id(d) \in Requests /\ Id(d)' = Id(d) /\ ~Promised(d) /\ ~Promised(d)'
    BY <1>1, SentIs DEF IInv, Promised, Promises
  <2>3. \A d \in Clients : waiter[Id(d)] = token[d] /\ token[d] \notin fired => waiter'[Id(d)] = token[d]
    BY <1>1, <1>2, <2>2 DEF IInv, Events
  <2> HIDE DEF Id
  <2> QED BY <1>1, <2>1, <2>2, <2>3 DEF IInv, Kept
<1> QED BY <1>3, <1>4, <1>5, <1>6, <1>7, <1>8, <1>9, <1>10 DEF IInv

(* An admission: the client is given the event of the request's waiter,    *)
(* which is its own, or was created for the same request and has not been  *)
(* fired; or the completed event, where the result is there.               *)
LEMMA AdmitKeeps ==
  ASSUME IInv, NEW c \in Clients, HandleSubmit(c), accepting, NEW status \in Replies, Admit(c, status),
         \/ status = "accepted" /\ ~Known(c) /\ Store(c) /\ NoFault
         \/ status = "duplicate" /\ Known(c) /\ ~Conflict(c) /\ NoFault /\ UNCHANGED <<place, body>>
         \/ status = "conflict" /\ Conflict(c) /\ NoFault /\ UNCHANGED <<place, body>>
         \/ status = "storage_failed" /\ ~Known(c) /\ Fault /\ UNCHANGED <<place, body>>
  PROVE  IInv'
<1>1. PICK r \in Requests : r = Id(c)
  BY SentIs DEF IInv
<1> DEFINE event == IF Reclaimed[r] = NoOne THEN c ELSE Reclaimed[r]
           ok    == status \in {"accepted", "duplicate"}
           known == r \in answered
<1>2. /\ call = Idle /\ client[c] = "calling" /\ up /\ faults' \in Nat /\ (faults' = 0 => faults = 0)
      /\ Text(c) \in Bodies
      /\ UNCHANGED <<answered, main, todo, serving, wake, up, cache>>
      /\ UNCHANGED <<accepting, quiescing, quiet, intent, ready, flag, lapsed, client, sent, intents, restarts>>
  BY <1>1, SentIs DEF IInv, HandOK, HandleSubmit, Free, Fault, loop, quiet3, hand
<1>3. /\ Reclaimed \in [Requests -> Clients \cup {NoOne}]
      /\ \A x \in Requests : Reclaimed[x] = IF x \in signaled THEN NoOne ELSE waiter[x]
  BY ReclaimedIs DEF IInv
<1> HIDE DEF Reclaimed
<1>4. /\ fired' = IF known THEN fired \cup {event} ELSE fired
      /\ waiter' = [Reclaimed EXCEPT ![r] = IF known /\ ok THEN NoOne ELSE event]
      /\ signaled' = IF known /\ ~ok THEN {r} ELSE {}
      /\ token' = [token EXCEPT ![c] = IF known /\ ok THEN Completed ELSE event]
      /\ call' = [do |-> CASE ok /\ ~known -> "wake"
                           [] ~ok /\ Reclaimed[r] = NoOne -> "cleanup"
                           [] OTHER -> "reply",
                  for |-> c, status |-> status]
  BY <1>1 DEF Admit
<1>5. event \in Clients /\ Id(event) = r /\ (event = c <=> Reclaimed[r] = NoOne)
  BY <1>1, <1>2, <1>3 DEF IInv, Events, Active
<1>6. /\ waiter' \in [Requests -> Clients \cup {NoOne}]
      /\ waiter'[r] = IF known /\ ok THEN NoOne ELSE event
      /\ \A x \in Requests \ {r} : waiter'[x] = Reclaimed[x]
      /\ token' \in [Clients -> Clients \cup {Completed, Lost}]
      /\ token'[c] = IF known /\ ok THEN Completed ELSE event
      /\ \A d \in Clients \ {c} : token'[d] = token[d]
  BY <1>2, <1>3, <1>4, <1>5 DEF IInv, EndsOK
<1>7. /\ call'.for = c /\ call'.status = status
      /\ call'.do = "wake" <=> ok /\ ~known
      /\ call'.do = "cleanup" <=> ~ok /\ Reclaimed[r] = NoOne
      /\ call'.do \in {"wake", "cleanup", "reply"}
      /\ call' \in [do : Dos, for : Clients \cup {NoOne}, status : Replies \cup Findings \cup {"none"}]
  BY <1>4 DEF Dos
<1>8. /\ place' \in [Requests -> Dirs] /\ body' \in [Requests -> Bodies \cup {NoBody}]
      /\ \A x \in Requests : \/ place'[x] = place[x] /\ body'[x] = body[x]
                             \/ x = r /\ status = "accepted" /\ place[x] = "none" /\ ~known
                                /\ place'[x] = "pending" /\ body'[x] = Text(c)
      /\ ok => place'[r] # "none" /\ body'[r] = Text(c)
  <2>1. place \in [Requests -> Dirs] /\ body \in [Requests -> Bodies \cup {NoBody}] /\ "pending" \in Dirs
    BY DEF IInv, FilesOK, Dirs
  <2>2. CASE status = "accepted" /\ ~Known(c) /\ Store(c)
    BY <1>1, <1>2, <2>1, <2>2 DEF Known, Store
  <2>3. CASE status = "duplicate" /\ Known(c) /\ ~Conflict(c) /\ UNCHANGED <<place, body>>
    BY <1>1, <1>2, <2>1, <2>3 DEF Known, Conflict, IInv, Filed
  <2>4. CASE status \in {"conflict", "storage_failed"} /\ UNCHANGED <<place, body>>
    BY <2>1, <2>4
  <2> QED BY <2>2, <2>3, <2>4
<1>9. status \in {"accepted", "duplicate", "conflict", "storage_failed"}
      /\ (status = "accepted" => ~known)
      /\ (status = "storage_failed" => ~known /\ place[r] = "none")
  BY <1>1 DEF Known
<1>10. event \notin fired
  BY <1>2, <1>3, <1>5, NamesAssumption DEF IInv, Events, Active
<1> HIDE DEF event, ok, known
<1>11. FilesOK' /\ HandOK' /\ EndsOK'
  BY <1>2, <1>6, <1>8 DEF IInv, FilesOK, HandOK, EndsOK
<1>12. ServerOK'
  BY <1>2, <1>4, <1>5, <1>6, <1>7 DEF IInv, ServerOK
<1>13. Calls'
  BY <1>2, <1>7, <1>9 DEF Calls, Replies, Promises, ok
<1>14. Listed'
  BY <1>2, <1>8 DEF IInv, FilesOK, Listed
<1>15. Filed' /\ Quieted'
  BY <1>2, <1>8 DEF IInv, FilesOK, Filed, Quieted
<1>16. Mine'
  <2>1. \A d \in Clients : Id(d)' = Id(d) /\ Text(d)' = Text(d) /\ Id(d) \in Requests
    BY <1>2, SentIs DEF IInv
  <2>2. \A d \in Clients : Promised(d)' => d = c /\ ok
    BY <1>7, <1>9 DEF Promised, Promises, ok
  <2>3. \A x \in Requests : place[x] # "none" => place'[x] = place[x] /\ body'[x] = body[x]
    BY <1>8
  <2> HIDE DEF Id, Text
  <2> QED BY <1>1, <1>2, <1>8, <2>1, <2>2, <2>3 DEF IInv, Mine
<1>17. Told'
  BY <1>2, <1>7, <1>8, <1>9, SentIs DEF IInv, Told
<1>18. Awake'
  <2>1. \A x \in Active' \ signaled' : x # r => x \in Active \ signaled
    BY <1>3, <1>4, <1>6 DEF Active
  <2>2. r \in Active' \ signaled' => ~known
    BY <1>4, <1>6 DEF Active
  <2>3. Reclaimed[r] # NoOne => r \in Active \ signaled
    BY <1>2, <1>3 DEF Active
  <2>4. ASSUME main = "wait", ~wake, NEW x \in Active \ signaled
        PROVE  x \notin answered /\ place[x] # "done" /\ place'[x] # "done"
    BY <1>2, <1>8, <2>4 DEF IInv, Awake, Active
  <2>5. place[r] # "done" => place'[r] # "done"
    BY <1>2, <1>8
  <2> QED BY <1>1, <1>2, <1>7, <2>1, <2>2, <2>3, <2>4 DEF Awake, known
<1>19. Events'
  <2>1. \A x \in Active' : Id(waiter'[x]) = x
    BY <1>2, <1>3, <1>5, <1>6 DEF IInv, Events, Active
  <2>2. \A d \in Clients : token'[d] \in Clients => Id(token'[d]) = Id(d)
    BY <1>1, <1>5, <1>6, NamesAssumption DEF IInv, Events
  <2>3. ASSUME NEW d \in Clients \ {c}, client[d] \in {"idle", "calling"}
        PROVE  /\ d \notin fired' /\ \A x \in Requests : waiter'[x] # d
               /\ \A e \in Clients : token'[e] # d
    <3>1. d \notin fired /\ (\A x \in Requests : waiter[x] # d) /\ (\A e \in Clients : token[e] # d)
      BY <1>2, <2>3, NamesAssumption DEF IInv, Events
    <3>2. event # d /\ d # NoOne /\ d # Completed
      BY <1>2, <1>3, <3>1 DEF event
    <3> QED BY <1>3, <1>4, <1>6, <3>1, <3>2
  <2>4. ASSUME call'.do = "cleanup"
        PROVE  waiter'[r] = c /\ \A d \in Clients \ {c} : token'[d] # c
    BY <1>2, <1>5, <1>6, <1>7, <2>4, NamesAssumption DEF IInv, Events
  <2>5. \A x \in signaled' : waiter'[x] \in fired'
    BY <1>4, <1>6
  <2>6. \A x \in Active' : waiter'[x] \in Clients
    BY <1>6 DEF Active
  <2>7. ASSUME NEW x \in Active', x \notin signaled'
        PROVE  waiter'[x] \notin fired'
    <3>1. CASE x = r
      BY <1>4, <1>6, <1>10, <2>7, <3>1 DEF Active
    <3>2. CASE x # r
      <4>1. x \in Active \ signaled /\ waiter'[x] = waiter[x] /\ x \in Requests
        BY <1>3, <1>6, <2>7, <3>2 DEF Active
      <4>2. waiter[x] \notin fired /\ waiter[x] # event
        BY <1>5, <3>2, <4>1 DEF IInv, Events
      <4> QED BY <1>4, <4>1, <4>2
    <3> QED BY <3>1, <3>2
  <2>8. /\ \A x \in Active' : sent'[waiter'[x]][1] = x
        /\ \A d \in Clients : token'[d] \in Clients => sent'[token'[d]][1] = sent'[d][1]
    BY <1>2, <2>1, <2>2
  <2>9. \A d \in Clients : client'[d] \in {"idle", "calling"} /\ call'.for # d =>
          d # c /\ client[d] \in {"idle", "calling"}
    BY <1>2, <1>7
  <2>10. call'.do = "cleanup" =>
           /\ waiter'[sent'[call'.for][1]] = call'.for
           /\ \A d \in Clients \ {call'.for} : token'[d] # call'.for
    BY <1>1, <1>2, <1>7, <2>4
  <2> QED BY <2>3, <2>5, <2>7, <2>8, <2>9, <2>10 DEF Events
<1>20. Kept'
  <2> SUFFICES ASSUME faults = 0 PROVE Kept'
    BY <1>2 DEF Kept
  <2>1. \A x \in Requests : Settled(x) /\ x # r => Settled(x)'
    BY <1>2, <1>3, <1>4, <1>6, NamesAssumption DEF Settled
  <2>2. known => Settled(r)'
    BY <1>2, <1>4, <1>6 DEF Settled, known
  <2>3. \A d \in Clients : Id(d)' = Id(d) /\ Id(d) \in Requests /\ (Promised(d)' => d = c /\ ok)
    BY <1>2, <1>7, SentIs DEF Promised, Promises, ok, IInv
  <2>4. \A x \in Requests : place'[x] = "done" => place[x] = "done"
    BY <1>8
  <2>5. /\ \A x \in Requests : place'[x] = "done" => x \in answered'
        /\ main' = "retire" => serving' \in answered'
        /\ cache' \subseteq answered'
    BY <1>2, <2>4 DEF IInv, Kept
  <2> HIDE DEF Id
  <2>6. \A d \in Clients : client'[d] = "fetching" => Settled(Id(d))'
    BY <1>2, <2>1, <2>2, <2>3 DEF IInv, Kept, Settled, known
  <2>7. ASSUME NEW d \in Clients \ {c}, client[d] = "waiting"
        PROVE  IF token'[d] \in fired' \cup {Completed} THEN Settled(Id(d))'
               ELSE token'[d] = Lost \/ waiter'[Id(d)] = token'[d]
    <3>1. token'[d] = token[d] /\ Id(d) \in Requests
      BY <1>6, <2>3
    <3>2. CASE token[d] \in fired \cup {Completed}
      BY <1>4, <2>1, <2>2, <2>3, <2>7, <3>1, <3>2 DEF IInv, Kept, Settled, known
    <3>3. CASE token[d] \notin fired \cup {Completed} /\ token[d] = Lost
      BY <1>4, <1>5, <3>1, <3>3, NamesAssumption
    <3>4. CASE token[d] \notin fired \cup {Completed, Lost}
      <4>1. waiter[Id(d)] = token[d] /\ token[d] \in Clients /\ Id(d) \notin signaled
        BY <2>7, <3>4 DEF IInv, Kept, EndsOK, Events
      <4>2. Reclaimed[Id(d)] = token[d]
        BY <1>3, <3>1, <4>1
      <4>3. CASE Id(d) = r
        <5>1. token[d] = event
          BY <1>3, <4>1, <4>2, <4>3, NamesAssumption DEF event
        <5>2. CASE known
          <6>1. event \in fired' /\ Settled(Id(d))'
            BY <1>4, <2>2, <2>3, <4>3, <5>2
          <6> QED BY <3>1, <5>1, <6>1
        <5>3. CASE ~known
          BY <1>4, <1>6, <2>3, <3>1, <3>4, <4>3, <5>1, <5>3
        <5> QED BY <5>2, <5>3
      <4>4. CASE Id(d) # r
        <5>1. token[d] # event
          BY <1>5, <4>1, <4>4 DEF IInv, Events
        <5> QED BY <1>4, <1>6, <3>1, <3>4, <4>2, <4>4, <5>1
      <4> QED BY <4>3, <4>4
    <3> QED BY <3>2, <3>3, <3>4
  <2>8. ASSUME ok
        PROVE  IF token'[c] \in fired' \cup {Completed} THEN Settled(Id(c))'
               ELSE token'[c] = Lost \/ waiter'[Id(c)] = token'[c]
    <3>1. CASE known
      BY <1>1, <1>6, <2>2, <2>3, <2>8, <3>1
    <3>2. CASE ~known
      <4>1. token'[c] = event /\ waiter'[r] = event /\ fired' = fired /\ event \in Clients
        BY <1>4, <1>5, <1>6, <3>2
      <4>2. event \notin fired
        BY <1>10
      <4> QED BY <1>1, <4>1, <4>2
    <3> QED BY <3>1, <3>2
  <2> QED BY <1>2, <2>3, <2>5, <2>6, <2>7, <2>8 DEF Kept
<1> QED BY <1>11, <1>12, <1>13, <1>14, <1>15, <1>16, <1>17, <1>18, <1>19, <1>20 DEF IInv

(* Every outcome of a submission is a refusal or an admission.             *)
LEMMA HandleSubmitKeeps ==
  ASSUME IInv, NEW c \in Clients, HandleSubmit(c)
  PROVE  IInv'
BY RefuseKeeps, AdmitKeeps DEF HandleSubmit, Admissible, Replies, Promises

(* The wake-up that was owed is given.                                     *)
LEMMA WakeKeeps ==
  ASSUME IInv, Wake
  PROVE  IInv'
BY DEF IInv, Wake, files, loop, server, quiet3, hand, ends, bounds, FilesOK, ServerOK, Dos,
     HandOK, EndsOK, Calls, Listed, Active, Filed, Mine, Promised, Told, Awake, Quieted, Events,
     Kept, Settled

(* A waiter may go when nobody who waits holds its event.                  *)
LEMMA WaiterGoneKeeps ==
  ASSUME IInv, NEW r \in Requests,
         waiter'[r] = NoOne, \A x \in Requests \ {r} : waiter'[x] = waiter[x],
         UNCHANGED <<client, token, fired, answered, place, cache, main, serving, faults, sent>>,
         call'.for = call.for, call'.status = call.status,
         \A c \in Clients :
           /\ faults = 0 /\ token[c] \notin fired \cup {Completed, Lost}
           /\ waiter[Id(c)] = token[c] /\ (client[c] = "waiting" \/ Promised(c))
           => Id(c) # r
  PROVE  Kept'
<1>1. \A x \in Requests : Settled(x) => Settled(x)'
  BY DEF Settled
<1>2. \A c \in Clients : Promised(c)' = Promised(c) /\ Id(c)' = Id(c) /\ Id(c) \in Requests
  BY SentIs DEF Promised, IInv
<1> HIDE DEF Id
<1> QED BY <1>1, <1>2 DEF IInv, Kept

(* The waiter of a failed submission was nobody else's.                    *)
LEMMA CleanupKeeps ==
  ASSUME IInv, Cleanup
  PROVE  IInv'
<1> USE DEF IInv, Cleanup, files, loop, quiet3, hand, ends, bounds
<1>1. /\ FilesOK' /\ ServerOK' /\ HandOK' /\ EndsOK' /\ Calls' /\ Listed' /\ Filed' /\ Mine'
      /\ Told' /\ Awake' /\ Quieted' /\ Events'
  BY DEF FilesOK, ServerOK, Dos, HandOK, EndsOK, Calls, Listed, Active, Filed, Mine, Promised,
       Told, Awake, Quieted, Events
<1>2. Kept'
  <2> DEFINE r == Id(call.for)
  <2>1. r \in Requests /\ call.for \in Clients
    BY SentIs DEF Calls
  <2>2. /\ UNCHANGED <<client, token, fired, answered, place, cache, main, serving, faults, sent>>
        /\ call'.for = call.for /\ call'.status = call.status
    BY DEF ServerOK
  <2>3. waiter'[r] = NoOne /\ \A x \in Requests \ {r} : waiter'[x] = waiter[x]
    BY <2>1 DEF ServerOK
  <2>4. ASSUME faults = 0, NEW c \in Clients, token[c] \notin fired \cup {Completed, Lost},
               waiter[Id(c)] = token[c], client[c] = "waiting" \/ Promised(c)
        PROVE  Id(c) # r
    BY <2>1, <2>4 DEF Events, Calls, Promised, Promises, Replies
  <2> HIDE DEF r
  <2> QED BY <2>1, <2>2, <2>3, <2>4, WaiterGoneKeeps
<1> QED BY <1>1, <1>2

(* A fetch puts only results into the cache.                               *)
LEMMA HandleFetchKeeps ==
  ASSUME IInv, NEW c \in Clients, HandleFetch(c)
  PROVE  IInv'
<1> DEFINE r == Id(c)
           status == Found(r)
<1>1. /\ r \in Requests /\ status \in Findings /\ call = Idle /\ client[c] = "fetching"
      /\ call' = [do |-> IF status \in {"ready", "not_persisted"} THEN "release" ELSE "reply",
                  for |-> c, status |-> status]
      /\ cache' = IF status = "ready" THEN cache \cup {r} ELSE cache
      /\ UNCHANGED <<place, body, answered, main, todo, serving, wake, up, waiter, signaled, fired>>
      /\ UNCHANGED <<accepting, quiescing, quiet, intent, ready, flag, lapsed>>
      /\ UNCHANGED <<client, sent, token, faults, intents, restarts>>
  BY SentIs, FoundIs DEF IInv, HandleFetch, Free, files, loop, quiet3, hand, ends, bounds
<1>2. status = "ready" <=> r \in cache \cup answered
  BY FoundIs
<1>3. status = "not_persisted" => place[r] = "done" /\ r \notin answered
  BY FoundIs
<1> HIDE DEF status
<1>4. FilesOK' /\ HandOK' /\ EndsOK'
  BY <1>1 DEF IInv, FilesOK, HandOK, EndsOK
<1>5. ServerOK'
  BY <1>1 DEF IInv, ServerOK, Dos, Findings
<1>6. Calls'
  BY <1>1 DEF Calls, Findings, Replies, Promises
<1>7. Listed' /\ Filed' /\ Quieted'
  BY <1>1 DEF IInv, Listed, Filed, Quieted, Active
<1>8. Mine'
  BY <1>1 DEF IInv, Mine, Promised, Promises, Findings
<1>9. Told'
  BY <1>1, <1>3 DEF IInv, Told
<1>10. Awake'
  BY <1>1 DEF IInv, Awake, Active
<1>11. Events'
  BY <1>1 DEF IInv, Events, Active
<1>12. Kept'
  BY <1>1, <1>2 DEF IInv, Kept, Settled, Promised, Promises, Findings
<1> QED BY <1>4, <1>5, <1>6, <1>7, <1>8, <1>9, <1>10, <1>11, <1>12 DEF IInv

(* The waiter of a request that is handed out has been fired.              *)
LEMMA ReleaseKeeps ==
  ASSUME IInv, Release
  PROVE  IInv'
<1> USE DEF IInv, Release, files, loop, quiet3, hand, ends, bounds
<1>1. /\ FilesOK' /\ ServerOK' /\ HandOK' /\ EndsOK' /\ Calls' /\ Listed' /\ Filed' /\ Mine'
      /\ Told' /\ Awake' /\ Quieted' /\ Events'
  BY DEF FilesOK, ServerOK, Dos, HandOK, EndsOK, Calls, Listed, Active, Filed, Mine, Promised,
       Told, Awake, Quieted, Events
<1>2. Kept'
  <2> DEFINE r == Id(call.for)
  <2>1. r \in Requests /\ call.for \in Clients
    BY SentIs DEF Calls
  <2>2. /\ UNCHANGED <<client, token, fired, answered, place, cache, main, serving, faults, sent>>
        /\ call'.for = call.for /\ call'.status = call.status
    BY DEF ServerOK
  <2>3. waiter'[r] = NoOne /\ \A x \in Requests \ {r} : waiter'[x] = waiter[x]
    BY <2>1 DEF ServerOK
  <2>4. ASSUME faults = 0, NEW c \in Clients, token[c] \notin fired \cup {Completed, Lost},
               waiter[Id(c)] = token[c], client[c] = "waiting" \/ Promised(c)
        PROVE  Id(c) # r
    <3>1. Settled(r) /\ token[c] \in Clients
      BY <2>4 DEF Kept, Calls, EndsOK, Replies, Promises
    <3> QED BY <2>4, <3>1 DEF Settled
  <2> HIDE DEF r
  <2> QED BY <2>1, <2>2, <2>3, <2>4, WaiterGoneKeeps
<1> QED BY <1>1, <1>2

(* The reply makes of the status what the client holds.                    *)
LEMMA ReplyKeeps ==
  ASSUME IInv, Reply
  PROVE  IInv'
<1> USE DEF IInv, Reply, files, loop, server, quiet3, hand, bounds
<1>1. /\ FilesOK' /\ ServerOK' /\ HandOK' /\ EndsOK' /\ Calls' /\ Listed' /\ Filed' /\ Told'
      /\ Awake' /\ Quieted' /\ Events' /\ Kept'
  BY DEF FilesOK, ServerOK, Dos, HandOK, EndsOK, Labels, Calls, Listed, Active, Filed, Told,
       Awake, Quieted, Events, Kept, Settled, Promised, Promises
<1>2. Mine'
  <2>1. /\ call' = Idle /\ sent' = sent /\ place' = place /\ body' = body
        /\ \A c \in Clients \ {call.for} : client'[c] = client[c]
    BY DEF Reply, files, IInv, EndsOK
  <2>2. call.for \in Clients /\ client'[call.for] \in {"waiting", "fetching", "answered"} =>
          call.status \in Promises \/ client[call.for] = "fetching"
    BY DEF IInv, Calls, Reply, EndsOK, Promises, Replies
  <2>3. ASSUME NEW c \in Clients, client'[c] \in {"waiting", "fetching", "answered"} \/ Promised(c)'
        PROVE  client[c] \in {"waiting", "fetching", "answered"} \/ Promised(c)
    BY <2>1, <2>2, <2>3 DEF Promised, Promises
  <2> QED BY <2>1, <2>3 DEF IInv, Mine
<1> QED BY <1>1, <1>2

-----------------------------------------------------------------------------
(***************************************************************************)
(* The main loop.                                                          *)
(***************************************************************************)
(* The files listed are pending; none is listed by a quiet service.        *)
LEMMA TickStartKeeps ==
  ASSUME IInv, TickStart
  PROVE  IInv'
<1> USE DEF IInv, TickStart, files, server, quiet3, hand, ends, bounds
<1>1. FilesOK'
  BY DEF FilesOK, Mains, PendingFiles
<1>2. /\ ServerOK' /\ HandOK' /\ EndsOK' /\ Calls' /\ Listed' /\ Filed' /\ Mine'
      /\ Told' /\ Awake' /\ Quieted' /\ Events' /\ Kept'
  BY DEF ServerOK, HandOK, EndsOK, Calls, Listed, Active, PendingFiles, Filed, Mine,
         Promised, Told, Awake, Quieted, Events, Kept, Settled
<1> QED BY <1>1, <1>2

(* A quiet service has nothing to take.                                    *)
LEMMA TakeKeeps ==
  ASSUME IInv, NEW r \in Requests, Take(r)
  PROVE  IInv'
BY DEF IInv, Take, server, quiet3, hand, ends, Fault, FilesOK, Dirs, Mains, ServerOK, HandOK,
     EndsOK, Calls, Listed, Active, Filed, Mine, Promised, Told, Awake, Quieted, Events, Kept,
     Settled

(* Only the result of the request that is executed is written, or lost.    *)
LEMMA ExecuteKeeps ==
  ASSUME IInv, Execute
  PROVE  IInv'
<1> USE DEF IInv, Execute, server, quiet3, hand, ends, Fault
<1>1. FilesOK'
  <2>1. serving \in Requests
    BY DEF IInv, Listed, Execute
  <2>2. answered' \subseteq Requests
    BY <2>1 DEF IInv, FilesOK, Execute
  <2> QED BY <2>2 DEF IInv, FilesOK, Execute, Mains
<1>2. /\ ServerOK' /\ HandOK' /\ EndsOK' /\ Calls' /\ Listed' /\ Filed' /\ Mine' /\ Told'
      /\ Awake' /\ Quieted' /\ Events' /\ Kept'
  BY DEF ServerOK, HandOK, EndsOK, Calls, Listed, Active, Filed, Mine, Promised, Told, Awake,
       Quieted, Events, Kept, Settled
<1> QED BY <1>1, <1>2

(* What is retired has its result, unless a write of it failed.            *)
LEMMA RetireKeeps ==
  ASSUME IInv, Retire
  PROVE  IInv'
BY DEF IInv, Retire, server, quiet3, hand, ends, Fault, FilesOK, Dirs, Mains, ServerOK, HandOK,
     EndsOK, Calls, Listed, Active, Filed, Mine, Promised, Told, Awake, Quieted, Events, Kept,
     Settled

(* At the end of the first tick, when the server starts, there is no       *)
(* waiter.                                                                 *)
LEMMA TickEndKeeps ==
  ASSUME IInv, TickEnd
  PROVE  IInv'
BY DEF IInv, TickEnd, quiet3, hand, ends, bounds, FilesOK, Mains, ServerOK, HandOK, EndsOK,
     Calls, Listed, Active, Filed, Mine, Promised, Told, Awake, files, server, Quieted, Events,
     Kept, Settled

(* Without an intent nothing is acknowledged.                              *)
LEMMA HandoffUnaskedKeeps ==
  ASSUME IInv, HandoffUnasked
  PROVE  IInv'
<1> USE DEF IInv, HandoffUnasked, files, server, hand, ends, bounds, Resumed
<1>1. HandOK'
  BY DEF HandOK
<1>2. /\ FilesOK' /\ ServerOK' /\ EndsOK' /\ Calls' /\ Listed' /\ Filed' /\ Mine'
      /\ Told' /\ Awake' /\ Quieted' /\ Events' /\ Kept'
  BY DEF FilesOK, Mains, ServerOK, EndsOK, Calls, Listed, Active, Filed, Mine,
         Promised, Told, Awake, Quieted, Events, Kept, Settled
<1> QED BY <1>1, <1>2

(* A hand-off that is put off acknowledges nothing new.                    *)
LEMMA HandoffJournalOpenKeeps ==
  ASSUME IInv, HandoffJournalOpen
  PROVE  IInv'
<1> USE DEF IInv, HandoffJournalOpen, files, server, hand, ends, Fault
<1>1. /\ FilesOK' /\ ServerOK' /\ EndsOK' /\ Calls' /\ Listed' /\ Filed' /\ Mine' /\ Told'
      /\ Awake' /\ Quieted' /\ Events' /\ Kept'
  BY DEF FilesOK, Mains, ServerOK, EndsOK, Calls, Listed, Active, Filed, Mine, Promised, Told,
       Awake, Quieted, Events, Kept, Settled, HandOK
<1>2. HandOK'
  <2>1. faults' \in Nat /\ UNCHANGED <<quiescing, quiet, intent, ready, flag, lapsed, intents, restarts>>
    BY DEF IInv, HandOK, HandoffJournalOpen, hand, Fault
  <2>2. accepting' \in BOOLEAN
    BY DEF HandoffJournalOpen
  <2> QED BY <2>1, <2>2 DEF IInv, HandOK
<1> QED BY <1>1, <1>2

(* The acknowledgement is written by a service that has become quiet, and  *)
(* is gone with one that resumes.                                          *)
LEMMA HandoffQuietKeeps ==
  ASSUME IInv, HandoffQuiet
  PROVE  IInv'
<1> USE DEF IInv, HandoffQuiet, files, server, ends, Fault
<1>1. /\ FilesOK' /\ ServerOK' /\ EndsOK' /\ Calls' /\ Listed' /\ Filed' /\ Mine' /\ Told'
      /\ Awake' /\ Events' /\ Kept'
  BY DEF FilesOK, Mains, ServerOK, EndsOK, Calls, Listed, Active, Filed, Mine, Promised, Told,
       Awake, Events, Kept, Settled, HandOK, EndHandoff
<1>2. HandOK'
  <2>1. /\ ready' \in Nat \X Nat /\ ready'[1] <= Boot /\ intent' \in Nat /\ faults' \in Nat
    BY ReadyIs, EndHandoffIs DEF IInv, HandOK, HandoffQuiet, Fault
  <2>2. quiet' \in Nat
    BY DEF IInv, HandOK, HandoffQuiet, Resumed
  <2>3. accepting' \in BOOLEAN /\ quiescing' \in BOOLEAN
    BY DEF HandoffQuiet, Resumed
  <2>4. UNCHANGED <<flag, intents, restarts>> /\ lapsed' \in Nat
    BY <2>1 DEF HandoffQuiet, HandOK
  <2> QED BY <2>1, <2>2, <2>3, <2>4 DEF IInv, HandOK
<1>3. Quieted'
  <2>1. main' = "signal" /\ todo' = {} /\ restarts' = restarts
    BY DEF IInv, Listed, HandoffQuiet
  <2>2. CASE Resumed
    <3>1. CASE quiet + 1 >= MaxQuiesce
      <4>1. ready' \in {<<0, 0>>, <<Boot, intent>>} /\ intent' \in {0, intent}
        BY <3>1, ReadyIs, EndHandoffIs DEF IInv, HandoffQuiet, HandOK
      <4>2. ready' = <<Boot, intent>> => lapsed' = intent'
        BY <3>1 DEF HandoffQuiet, IInv, HandOK
      <4> QED BY <2>1, <4>1, <4>2, ReadyIs DEF IInv, Quieted, HandOK
    <3>2. CASE ~(quiet + 1 >= MaxQuiesce)
      BY <2>1, <3>2 DEF HandoffQuiet, Quieted
    <3> QED BY <3>1, <3>2
  <2>3. CASE quiescing' = TRUE /\ accepting' = FALSE
    BY <2>1, <2>3 DEF Quieted
  <2> QED BY <2>2, <2>3 DEF HandoffQuiet
<1> QED BY <1>1, <1>2, <1>3

(* A service that leaves stays quiet.                                      *)
LEMMA HandoffExitKeeps ==
  ASSUME IInv, HandoffExit
  PROVE  IInv'
<1> USE DEF IInv, HandoffExit, files, server, ends
<1>1. /\ FilesOK' /\ ServerOK' /\ EndsOK' /\ Calls' /\ Listed' /\ Filed' /\ Mine' /\ Told'
      /\ Awake' /\ Quieted' /\ Events' /\ Kept'
  BY DEF FilesOK, Mains, ServerOK, EndsOK, Calls, Listed, Active, Filed, Mine, Promised, Told,
       Awake, Quieted, EndHandoff, Events, Kept, Settled, HandOK, Fault
<1>2. HandOK'
  <2>1. /\ ready' \in Nat \X Nat /\ ready'[1] <= Boot /\ intent' \in Nat /\ faults' \in Nat
    BY ReadyIs, EndHandoffIs DEF IInv, HandoffExit
  <2>2. /\ accepting' \in BOOLEAN /\ quiescing' \in BOOLEAN
        /\ UNCHANGED <<quiet, flag, lapsed, intents, restarts>>
    BY DEF HandoffExit
  <2> QED BY <2>1, <2>2 DEF IInv, HandOK
<1> QED BY <1>1, <1>2

(* Every waiter whose request is answered or retired is signalled before   *)
(* the main loop sleeps.                                                   *)
LEMMA SignalKeeps ==
  ASSUME IInv, Signal
  PROVE  IInv'
<1> USE DEF IInv, Signal, files, quiet3, hand, ends, bounds
<1>1. /\ FilesOK' /\ HandOK' /\ EndsOK' /\ Calls' /\ Listed' /\ Filed' /\ Mine' /\ Told'
      /\ Awake' /\ Quieted' /\ Events'
  BY DEF FilesOK, Mains, HandOK, EndsOK, Calls, Listed, Active, Filed, Mine, Promised, Told,
       Awake, CompletedWaiters, Quieted, Events
<1>2. ServerOK'
  <2>1. CompletedWaiters \subseteq Requests /\ \A r \in CompletedWaiters : waiter[r] \in Clients
    BY DEF IInv, ServerOK, CompletedWaiters, Active
  <2> QED BY <2>1 DEF IInv, ServerOK, Signal
<1>3. Kept'
  <2> SUFFICES ASSUME faults = 0 PROVE Kept'
    BY DEF Signal, bounds, Kept
  <2>1. /\ client' = client /\ token' = token /\ answered' = answered /\ place' = place
        /\ waiter' = waiter /\ call' = call /\ serving' = serving /\ main' = "wait" /\ sent' = sent
        /\ fired' = fired \cup {waiter[r] : r \in CompletedWaiters}
        /\ cache' = cache \cup (CompletedWaiters \cap answered)
    BY DEF Signal, files, ends
  <2>2. \A r \in CompletedWaiters : /\ r \in Requests /\ r \in answered
                                    /\ waiter[r] \in Clients /\ Id(waiter[r]) = r
    BY DEF IInv, ServerOK, Kept, Events, CompletedWaiters, Active
  <2>3. \A r \in Requests : Settled(r) => Settled(r)'
    BY <2>1 DEF Settled
  <2>4. \A r \in CompletedWaiters : Settled(r)'
    BY <2>1, <2>2 DEF Settled
  <2>5. \A c \in Clients : Promised(c)' = Promised(c) /\ Id(c)' = Id(c) /\ Id(c) \in Requests
    BY <2>1, SentIs DEF Promised, IInv
  <2>6. ASSUME NEW c \in Clients, token[c] \in fired', token[c] \notin fired \cup {Completed}
        PROVE  Settled(Id(c))'
    <3>1. PICK r \in CompletedWaiters : token[c] = waiter[r]
      BY <2>1, <2>6
    <3>2. Id(c) = r
      BY <3>1, <2>2 DEF IInv, Events
    <3> QED BY <3>2, <2>4, <2>1
  <2>7. cache' \subseteq answered' /\ \A r \in Requests : place'[r] = "done" => r \in answered'
    BY <2>1 DEF IInv, Kept
  <2> HIDE DEF Id
  <2>8. \A c \in Clients : client'[c] = "fetching" => Settled(Id(c))'
    BY <2>1, <2>3, <2>5 DEF IInv, Kept
  <2>9. ASSUME NEW c \in Clients, client'[c] = "waiting" \/ Promised(c)'
        PROVE  IF token'[c] \in fired' \cup {Completed} THEN Settled(Id(c))'
               ELSE token'[c] = Lost \/ waiter'[Id(c)] = token'[c]
    BY <2>1, <2>3, <2>5, <2>6, <2>9 DEF IInv, Kept
  <2> QED BY <2>1, <2>5, <2>7, <2>8, <2>9 DEF Kept
<1> QED BY <1>1, <1>2, <1>3

-----------------------------------------------------------------------------
(***************************************************************************)
(* The world.                                                              *)
(***************************************************************************)
(* A hand-off that is asked for has no acknowledgement yet.                *)
LEMMA AskHandoffKeeps ==
  ASSUME IInv, AskHandoff
  PROVE  IInv'
BY DEF IInv, AskHandoff, files, loop, server, quiet3, ends, FilesOK, ServerOK, HandOK, EndsOK,
     Calls, Listed, Active, Filed, Mine, Promised, Told, Awake, Quieted, Events, Kept, Settled

(* The boot flag is of no account here.                                    *)
LEMMA CommitHandoffKeeps ==
  ASSUME IInv, CommitHandoff
  PROVE  IInv'
<1> USE DEF IInv, CommitHandoff, files, loop, server, quiet3, ends, bounds
<1>1. HandOK'
  BY DEF HandOK
<1>2. /\ FilesOK' /\ ServerOK' /\ EndsOK' /\ Calls' /\ Listed' /\ Filed' /\ Mine'
      /\ Told' /\ Awake' /\ Quieted' /\ Events' /\ Kept'
  BY DEF FilesOK, ServerOK, EndsOK, Calls, Listed, Active, Filed, Mine, Promised,
         Told, Awake, Quieted, Events, Kept, Settled
<1> QED BY <1>1, <1>2

(* A hand-off that is given up is not an acknowledged one.                 *)
LEMMA CancelHandoffKeeps ==
  ASSUME IInv, CancelHandoff
  PROVE  IInv'
<1> USE DEF IInv, CancelHandoff, files, loop, server, quiet3, ends
<1>1. /\ FilesOK' /\ ServerOK' /\ EndsOK' /\ Calls' /\ Listed' /\ Filed' /\ Mine' /\ Told'
      /\ Awake' /\ Quieted' /\ Events' /\ Kept'
  BY DEF FilesOK, ServerOK, EndsOK, Calls, Listed, Active, Filed, Mine, Promised, Told, Awake,
       Quieted, EndHandoff, Events, Kept, Settled, HandOK, Fault
<1>2. HandOK'
  BY EndHandoffIs DEF HandOK
<1> QED BY <1>1, <1>2

(* A restart leaves no waiter, and an acknowledgement of an earlier boot   *)
(* says nothing.                                                           *)
LEMMA RestartKeeps ==
  ASSUME IInv, Restart
  PROVE  IInv'
<1> USE DEF IInv, Restart, Fault
<1>1. FilesOK'
  BY DEF FilesOK, Dirs, Mains
<1>2. ServerOK'
  BY DEF ServerOK, Dos
<1>3. HandOK'
  <2>1. /\ ready' \in Nat \X Nat /\ ready'[1] <= Boot /\ intent' \in Nat
    BY ReadyIs DEF IInv, HandOK, Restart
  <2>2. Boot' = Boot + 1 /\ restarts' \in Nat /\ faults' \in Nat /\ intents' \in Nat
    BY DEF IInv, HandOK, Restart, Fault
  <2>3. quiet' \in Nat /\ accepting' \in BOOLEAN /\ quiescing' \in BOOLEAN /\ flag' \in BOOLEAN
    BY DEF Restart, Resumed
  <2>4. Boot \in Nat /\ ready'[1] \in Nat
    BY <2>1, ReadyIs DEF IInv
  <2>5. ready'[1] <= Boot'
    BY <2>1, <2>2, <2>4
  <2> QED BY <2>1, <2>2, <2>3, <2>5 DEF HandOK
<1>4. EndsOK'
  BY DEF EndsOK, Labels
<1>5. Calls'
  BY DEF Calls
<1>6. Listed'
  BY DEF Listed, Active
<1>7. Filed'
  BY DEF Filed, FilesOK
<1>8. Mine'
  BY DEF Mine, Promised, EndsOK
<1>9. Told'
  BY DEF Told, EndsOK
<1>10. Awake'
  BY DEF Awake, Active
<1>11. Quieted'
  BY DEF Quieted, HandOK
<1>12. Events'
  BY DEF Events, Active
<1>13. Kept'
  BY DEF Kept, Settled, Promised, HandOK, FilesOK
<1> QED BY <1>1, <1>2, <1>3, <1>4, <1>5, <1>6, <1>7, <1>8, <1>9, <1>10, <1>11, <1>12, <1>13

-----------------------------------------------------------------------------
(***************************************************************************)
(* The theorems.                                                           *)
(***************************************************************************)
(* The invariant holds in every behaviour.                                 *)
THEOREM Invariance == Spec => []IInv
<1>1. ASSUME IInv, UNCHANGED vars PROVE IInv'
  BY <1>1 DEF vars, files, loop, server, quiet3, hand, ends, bounds, IInv, FilesOK, ServerOK,
       HandOK, EndsOK, Calls, Listed, Filed, Mine, Told, Awake, Quieted, Events, Kept, Active,
       Settled, Promised
<1>2. ASSUME IInv, NEW c \in Clients, ClientStep(c) PROVE IInv'
  BY <1>2, DropKeeps, SubmitKeeps, NoticeKeeps, PollKeeps, DoubtKeeps, GiveUpKeeps DEF ClientStep
<1>3. ASSUME IInv, IpcStep PROVE IInv'
  BY <1>3, HandleSubmitKeeps, HandleFetchKeeps, CleanupKeeps, ReleaseKeeps, WakeKeeps,
       ReplyKeeps DEF IpcStep, IpcSection
<1>4. ASSUME IInv, LoopStep PROVE IInv'
  BY <1>4, TickStartKeeps, TickEndKeeps, ExecuteKeeps, RetireKeeps, SignalKeeps, TakeKeeps,
       HandoffUnaskedKeeps, HandoffJournalOpenKeeps, HandoffQuietKeeps, HandoffExitKeeps DEF
       LoopStep
<1>5. ASSUME IInv, World PROVE IInv'
  BY <1>5, AskHandoffKeeps, CommitHandoffKeeps, CancelHandoffKeeps, RestartKeeps DEF World
<1>6. IInv /\ [Next]_vars => IInv'
  BY <1>1, <1>2, <1>3, <1>4, <1>5 DEF Next
<1> QED BY InitInvariant, <1>6, PTL DEF Spec

(* Type correctness, for every number of clients, requests and faults.     *)
THEOREM TypeCorrect == Spec => [](FilesOK /\ ServerOK /\ HandOK /\ EndsOK)
<1>1. IInv => FilesOK /\ ServerOK /\ HandOK /\ EndsOK
  BY DEF IInv
<1> QED BY Invariance, <1>1, PTL

(* When the main loop of sysmodule_run goes to sleep without a wake-up     *)
(* owed, signal_completed_waiters has missed no waiter (NoMissedSignal).   *)
THEOREM NeverMissed == Spec => []NoMissedSignal
<1>1. IInv => NoMissedSignal
  BY DEF IInv, Awake, NoMissedSignal
<1> QED BY Invariance, <1>1, PTL

(* Whoever handle_submit accepted waits for, and is handed, the answer to  *)
(* what it asked (AnswerIsMine).                                           *)
THEOREM AnswersAreMine == Spec => []AnswerIsMine
<1>1. IInv => AnswerIsMine
  BY DEF IInv, Mine, AnswerIsMine
<1> QED BY Invariance, <1>1, PTL

(* handle_get_result says RESULT_NOT_PERSISTED only of a request that has  *)
(* no result (UnpersistedIsTrue).                                          *)
THEOREM UnpersistedTold == Spec => []UnpersistedIsTrue
<1>1. IInv => UnpersistedIsTrue
  BY DEF IInv, Told, UnpersistedIsTrue
<1> QED BY Invariance, <1>1, PTL

(* As long as no storage call has failed, the event a client waits for is  *)
(* held by the waiter of its request until it has been fired (TokenLive).  *)
THEOREM TokensLive == Spec => []TokenLive
<1>1. IInv => TokenLive
  BY DEF IInv, Kept, TokenLive, EventHeld
<1> QED BY Invariance, <1>1, PTL

(* Once ready.json acknowledges the hand-off under way, handoff_tick lets  *)
(* no request in and the inbox alone until the hand-off is over            *)
(* (QuietWhenReady).                                                       *)
THEOREM QuietHolds == Spec => QuietWhenReady
<1> DEFINE Quiet == intent # 0 /\ intent # lapsed /\ ready = <<Boot, intent>> /\ restarts' = restarts =>
                      /\ main' \notin {"execute", "retire"}
                      /\ call = Idle => call'.status \notin {"accepted", "duplicate"}
<1>1. ASSUME IInv, [Next]_vars, intent # 0, intent # lapsed, ready = <<Boot, intent>>, restarts' = restarts
      PROVE  /\ main' \notin {"execute", "retire"}
             /\ call = Idle => call'.status \notin {"accepted", "duplicate"}
  <2>1. quiescing /\ ~accepting /\ main \notin {"execute", "retire"} /\ todo = {}
    BY <1>1 DEF IInv, Quieted
  <2>2. main' \notin {"execute", "retire"}
    BY <1>1, <2>1 DEF Next, ClientStep, Submit, Drop, Notice, Poll, Doubt, GiveUp, IpcStep,
         IpcSection, HandleSubmit, HandleFetch, Cleanup, Release, Wake, Reply, LoopStep,
         TickStart, TickEnd, Execute, Retire, Signal, Take, HandoffUnasked, HandoffJournalOpen,
         HandoffQuiet, HandoffExit, World, AskHandoff, CommitHandoff, CancelHandoff, Restart,
         vars, loop
  <2>3. ASSUME call = Idle PROVE call'.status \notin {"accepted", "duplicate"}
    <3>1. \A c \in Clients : HandleSubmit(c) => call'.status \notin {"accepted", "duplicate"}
      BY <2>1 DEF HandleSubmit, Refuse, Admissible
    <3>2. \A c \in Clients : HandleFetch(c) => call'.status \notin {"accepted", "duplicate"}
      BY FoundIs DEF HandleFetch, Findings
    <3>3. CASE \E c \in Clients : HandleSubmit(c) \/ HandleFetch(c)
      BY <3>1, <3>2, <3>3
    <3>4. CASE call' = call \/ call' = Idle
      BY <2>3, <3>4
    <3>5. (\E c \in Clients : HandleSubmit(c) \/ HandleFetch(c)) \/ call' = call \/ call' = Idle
      BY <1>1, <2>3 DEF Next, ClientStep, Submit, Drop, Notice, Poll, Doubt, GiveUp, IpcStep,
           IpcSection, Cleanup, Release, Wake, Reply, LoopStep, TickStart, TickEnd, Execute,
           Retire, Signal, Take, HandoffUnasked, HandoffJournalOpen, HandoffQuiet, HandoffExit,
           World, AskHandoff, CommitHandoff, CancelHandoff, Restart, vars
    <3> QED BY <3>3, <3>4, <3>5
  <2> QED BY <2>2, <2>3
<1>2. IInv /\ [Next]_vars => [Quiet]_vars
  BY <1>1
<1> HIDE DEF Quiet
<1>3. Spec => [][Quiet]_vars
  BY Invariance, <1>2, PTL DEF Spec
<1> QED BY <1>3 DEF Quiet, QuietWhenReady
=============================================================================
