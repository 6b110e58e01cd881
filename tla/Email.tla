-------------------------------- MODULE Email --------------------------------
(***************************************************************************)
(* The e-mail queue (backend/internal/worker, store/redis_stores.go): mails *)
(* are entries of a Redis stream, read by a consumer group, sent through an *)
(* HTTP API, retried by adding them again with a higher retry_count, and    *)
(* moved to a dead-letter stream at the end.  An entry that was read and    *)
(* never acknowledged stays in the group's pending list until XAUTOCLAIM    *)
(* gives it to the claim loop of some worker.                               *)
(*                                                                         *)
(* Each worker process has two goroutines that process entries, "main" and  *)
(* "claim".  Redis commands are atomic; a process may die between any two.  *)
(* Faults are counted, so that duplicates can be told from the faults that  *)
(* justify them, and bounded by MaxFaults.                                  *)
(***************************************************************************)
EXTENDS FiniteSets, Integers

CONSTANTS Mail,        \* e-mails, each enqueued at most once
          BadMail,     \* those whose payload does not parse
          Entry,       \* bound: entries of the stream alive at the same time
          Worker,      \* worker processes
          MaxRetries,  \* EmailWorker.maxRetries
          BatchSize,   \* Count of XReadGroup
          MaxFaults,   \* bound: faults in a behaviour
          None         \* no entry, no mail

ASSUME NoneAssumption == None \notin Entry /\ None \notin Mail
ASSUME BadMailAssumption == BadMail \subseteq Mail
ASSUME BoundsAssumption ==
  MaxRetries \in Nat /\ BatchSize \in Nat \ {0} /\ MaxFaults \in Nat
ASSUME FiniteAssumption == IsFiniteSet(Entry) /\ IsFiniteSet(Worker)

VARIABLES group,    \* the consumer group exists
          entry,    \* the stream and the state of its entries in the group
          proc,     \* the processing goroutines
          started,  \* mails EnqueueEmail has accepted
          sends,    \* sends[m]: times the API has accepted m
          dead,     \* mails in the dead-letter stream
          dropped,  \* mails acknowledged without send and without dead letter
          missed,   \* mails added before the group that will never be delivered
          trimmed,  \* mails one of whose entries was cut off by MAXLEN
          faults    \* faults so far

vars == <<group, entry, proc, started, sends, dead, dropped, missed, trimmed, faults>>

Proc == Worker \X {"main", "claim"}

(* "new": not delivered to the group yet; "pending": delivered and not      *)
(* acknowledged; "gone": acknowledged, or never added.                      *)
EntryState == {"gone", "new", "pending"}

ProcPc == {"idle", "send", "retry", "deadLetter", "deadPermanent", "ack"}

Idle == [pc |-> "idle", cur |-> None, batch |-> {}]

(* Type invariant.  No entry ever has a higher retry count than allowed.    *)
(* Attempts are not bounded by it: after a failed XADD or XACK, or a stop   *)
(* in the backoff, the entry is claimed and tried again at the same count.  *)
TypeOK ==
  /\ group \in BOOLEAN
  /\ entry \in [Entry -> [st : EntryState, mail : Mail \cup {None}, retries : 0 .. MaxRetries]]
  /\ proc \in [Proc -> [pc : ProcPc, cur : Entry \cup {None}, batch : SUBSET Entry]]
  /\ started \subseteq Mail /\ dead \subseteq Mail /\ dropped \subseteq Mail
  /\ missed \subseteq Mail /\ trimmed \subseteq Mail
  /\ sends \in [Mail -> Nat]
  /\ faults \in 0 .. MaxFaults

Init ==
  /\ group = FALSE
  /\ entry = [e \in Entry |-> [st |-> "gone", mail |-> None, retries |-> 0]]
  /\ proc = [p \in Proc |-> Idle]
  /\ started = {} /\ dead = {} /\ dropped = {} /\ missed = {} /\ trimmed = {}
  /\ sends = [m \in Mail |-> 0]
  /\ faults = 0

Held(e) == \E p \in Proc : proc[p].cur = e \/ e \in proc[p].batch

Free == {e \in Entry : entry[e].st = "gone" /\ ~Held(e)}

Unread == {e \in Entry : entry[e].st \in {"new", "pending"}}

(* What MAXLEN may cut off: the oldest entries, and what was delivered is   *)
(* older than what is new.  Acknowledged entries stay in the stream and     *)
(* count too, so how much of the unread is cut is left open; a retry trims  *)
(* to a tenth of what the producers let the stream grow to.                 *)
Oldest(T) ==
  T \subseteq Unread /\ ((\E e \in T : entry[e].st = "new") =>
                           \A e \in Unread : entry[e].st = "pending" => e \in T)

(* XADD to the queue, under any identifier that no goroutine knows, with    *)
(* the trimming it asks for.  Who holds a trimmed entry goes on with it;    *)
(* it is neither delivered nor claimed any more.                            *)
XAdd(m, n) ==
  /\ Free # {}
  /\ \E T \in {U \in SUBSET Unread : Oldest(U)} :
       /\ entry' = [e \in Entry |->
                      IF e = (CHOOSE f \in Free : TRUE)
                        THEN [st |-> "new", mail |-> m, retries |-> n]
                      ELSE IF e \in T THEN [entry[e] EXCEPT !.st = "gone"] ELSE entry[e]]
       /\ trimmed' = trimmed \cup {entry[e].mail : e \in T}

(* One more fault. *)
Fault == faults < MaxFaults /\ faults' = faults + 1

(* The goroutine is through with its entry and takes the next of its batch. *)
Next1(p) ==
  IF proc[p].batch = {}
    THEN proc' = [proc EXCEPT ![p] = Idle]
    ELSE \E e \in proc[p].batch :
           proc' = [proc EXCEPT ![p] = [pc |-> "send", cur |-> e, batch |-> @.batch \ {e}]]

Goto(p, pc) == proc' = [proc EXCEPT ![p].pc = pc]

-----------------------------------------------------------------------------
EnqueueEmail(m) ==
  /\ m \notin started
  /\ started' = started \cup {m}
  /\ XAdd(m, 0)
  /\ UNCHANGED <<group, missed, proc, sends, dead, dropped, faults>>

(* The first worker to start creates the group at "$", the end of the       *)
(* stream: what was added before is never delivered.                        *)
XGroupCreate ==
  /\ ~group /\ group' = TRUE
  /\ missed' = {entry[e].mail : e \in {f \in Entry : entry[f].st = "new"}}
  /\ entry' = [e \in Entry |-> [entry[e] EXCEPT !.st = "gone"]]
  /\ UNCHANGED <<trimmed, proc, started, sends, dead, dropped, faults>>

Fetch(p, E) ==
  \E e \in E : proc' = [proc EXCEPT ![p] = [pc |-> "send", cur |-> e, batch |-> E \ {e}]]

(* XREADGROUP ">": entries nobody was given before. *)
XReadGroup(w) ==
  /\ group /\ proc[<<w, "main">>].pc = "idle"
  /\ \E E \in SUBSET {e \in Entry : entry[e].st = "new"} :
       /\ E # {} /\ Cardinality(E) <= BatchSize
       /\ Fetch(<<w, "main">>, E)
       /\ entry' = [e \in Entry |-> IF e \in E THEN [entry[e] EXCEPT !.st = "pending"]
                                               ELSE entry[e]]
  /\ UNCHANGED <<group, missed, trimmed, started, sends, dead, dropped, faults>>

(* Mutant: only entries of the first attempt are claimed. *)
Claimable_FirstAttempt(e) ==
  entry[e].st = "pending" /\ ~Held(e) /\ entry[e].retries = 0

(* Idle for five minutes: no goroutine works on it. *)
Claimable(e) == entry[e].st = "pending" /\ ~Held(e)

(* XAUTOCLAIM.  That an entry somebody still works on has been idle that    *)
(* long counts as a fault.                                                  *)
XAutoClaim(w) ==
  /\ proc[<<w, "claim">>].pc = "idle"
  /\ \/ /\ {e \in Entry : Claimable(e)} # {}
        /\ Fetch(<<w, "claim">>, {e \in Entry : Claimable(e)})
        /\ UNCHANGED faults
     \/ /\ \E e \in Entry : entry[e].st = "pending" /\ Held(e) /\ Fetch(<<w, "claim">>, {e})
        /\ Fault
  /\ UNCHANGED <<group, missed, trimmed, entry, started, sends, dead, dropped>>

-----------------------------------------------------------------------------
(* processMessage, from the read to the acknowledgement.                    *)

(* A payload that does not parse is acknowledged. *)
InvalidPayload(p) ==
  /\ proc[p].pc = "send" /\ entry[proc[p].cur].mail \in BadMail
  /\ dropped' = dropped \cup {entry[proc[p].cur].mail}
  /\ Goto(p, "ack")
  /\ UNCHANGED <<group, missed, trimmed, entry, started, sends, dead, faults>>

Sendable(p) == proc[p].pc = "send" /\ entry[proc[p].cur].mail \notin BadMail

sendEmail(p) ==
  /\ Sendable(p)
  /\ sends' = [sends EXCEPT ![entry[proc[p].cur].mail] = @ + 1]
  /\ Goto(p, "ack")
  /\ UNCHANGED <<group, missed, trimmed, entry, started, dead, dropped, faults>>

(* Mutant: one attempt too many. *)
handleRetry_OneMore(p) ==
  IF entry[proc[p].cur].retries > MaxRetries THEN "deadLetter" ELSE "retry"

handleRetry(p) ==
  IF entry[proc[p].cur].retries >= MaxRetries THEN "deadLetter" ELSE "retry"

(* handleSendFailure after a 4xx answer, or after a failure worth a retry:  *)
(* 5xx, 429, no answer, an open circuit breaker.                            *)
SendFails(p) ==
  /\ Sendable(p)
  /\ Goto(p, "deadPermanent") \/ Goto(p, handleRetry(p))
  /\ UNCHANGED <<group, missed, trimmed, entry, started, sends, dead, dropped, faults>>

(* The API accepts the mail and the answer is lost: a failure to the worker. *)
AnswerLost(p) ==
  /\ Sendable(p) /\ Fault
  /\ sends' = [sends EXCEPT ![entry[proc[p].cur].mail] = @ + 1]
  /\ Goto(p, handleRetry(p))
  /\ UNCHANGED <<group, missed, trimmed, entry, started, dead, dropped>>

(* reenqueueWithBackoff, after the delay: a failed XADD leaves the entry    *)
(* pending.                                                                 *)
reenqueueWithBackoff(p) ==
  /\ proc[p].pc = "retry"
  /\ \/ /\ XAdd(entry[proc[p].cur].mail, entry[proc[p].cur].retries + 1)
        /\ Goto(p, "ack") /\ UNCHANGED faults
     \/ Fault /\ Next1(p) /\ UNCHANGED <<entry, trimmed>>
  /\ UNCHANGED <<group, missed, started, sends, dead, dropped>>

(* Mutant: the entry is acknowledged although the dead letter is not written. *)
moveToDeadLetter_AcksAnyway(p) ==
  /\ proc[p].pc = "deadLetter"
  /\ \/ dead' = dead \cup {entry[proc[p].cur].mail} /\ UNCHANGED faults
     \/ Fault /\ UNCHANGED dead
  /\ Goto(p, "ack")
  /\ UNCHANGED <<group, missed, trimmed, entry, started, sends, dropped>>

(* moveToDeadLetter: a failed XADD leaves the entry pending. *)
moveToDeadLetter(p) ==
  /\ proc[p].pc = "deadLetter"
  /\ \/ /\ dead' = dead \cup {entry[proc[p].cur].mail}
        /\ Goto(p, "ack") /\ UNCHANGED faults
     \/ Fault /\ Next1(p) /\ UNCHANGED dead
  /\ UNCHANGED <<group, missed, trimmed, entry, started, sends, dropped>>

(* The permanent branch of handleSendFailure acknowledges in any case. *)
DeadLetterPermanent(p) ==
  /\ proc[p].pc = "deadPermanent"
  /\ \/ /\ dead' = dead \cup {entry[proc[p].cur].mail}
        /\ UNCHANGED <<dropped, faults>>
     \/ /\ dropped' = dropped \cup {entry[proc[p].cur].mail}
        /\ Fault /\ UNCHANGED dead
  /\ Goto(p, "ack")
  /\ UNCHANGED <<group, missed, trimmed, entry, started, sends>>

(* Mutant: the acknowledgement is forgotten. *)
XAck_Forgotten(p) ==
  /\ proc[p].pc = "ack"
  /\ Next1(p)
  /\ UNCHANGED <<entry, group, missed, trimmed, started, sends, dead, dropped, faults>>

(* XACK; when it fails the entry stays pending. *)
XAck(p) ==
  /\ proc[p].pc = "ack"
  /\ \/ entry' = [entry EXCEPT ![proc[p].cur].st = "gone"] /\ UNCHANGED faults
     \/ Fault /\ UNCHANGED entry
  /\ Next1(p)
  /\ UNCHANGED <<group, missed, trimmed, started, sends, dead, dropped>>

(* A worker dies, or is stopped in a backoff, and is started again. *)
Crash(w) ==
  /\ \E k \in {"main", "claim"} : proc[<<w, k>>].pc # "idle"
  /\ Fault
  /\ proc' = [p \in Proc |-> IF p[1] = w THEN Idle ELSE proc[p]]
  /\ UNCHANGED <<group, missed, trimmed, entry, started, sends, dead, dropped>>

ProcStep(p) ==
  \/ InvalidPayload(p)
  \/ sendEmail(p)
  \/ SendFails(p)
  \/ AnswerLost(p)
  \/ reenqueueWithBackoff(p)
  \/ moveToDeadLetter(p)
  \/ DeadLetterPermanent(p)
  \/ XAck(p)

Next ==
  \/ \E m \in Mail : EnqueueEmail(m)
  \/ XGroupCreate
  \/ \E w \in Worker : XReadGroup(w) \/ XAutoClaim(w) \/ Crash(w)
  \/ \E p \in Proc : ProcStep(p)

Spec == Init /\ [][Next]_vars

(* Workers start, their loops run on, and XAUTOCLAIM comes round. *)
FairSpec ==
  /\ Spec
  /\ WF_vars(XGroupCreate)
  /\ \A w \in Worker : WF_vars(XReadGroup(w)) /\ WF_vars(XAutoClaim(w))
  /\ \A p \in Proc : WF_vars(ProcStep(p))

-----------------------------------------------------------------------------
Sent(m) == sends[m] > 0

Queued(m) == \E e \in Entry : entry[e].mail = m /\ entry[e].st \in {"new", "pending"}

(* No mail vanishes in retries, crashes, failed commands and claims: it is  *)
(* in the queue, sent, a dead letter, knowingly dropped, was added before   *)
(* there was a group, or had an entry cut off by MAXLEN.                    *)
NoMailVanishes ==
  \A m \in started :
    Queued(m) \/ Sent(m) \/ m \in dead \cup dropped \cup missed \cup trimmed

(* Duplicates come from faults only: without one a mail is sent once; a     *)
(* lost answer, a failed command or an early claim costs at most one        *)
(* further copy, a crash one for each of the worker's two goroutines.       *)
DuplicatesNeedFaults == \A m \in Mail : sends[m] <= 1 + 2 * faults

(* Every mail is settled in the end: sent, a dead letter, dropped, added    *)
(* before there was a group or cut off by MAXLEN.                           *)
EveryMailSettles ==
  \A m \in Mail :
    m \in started ~> (Sent(m) \/ m \in dead \cup dropped \cup missed \cup trimmed)

-----------------------------------------------------------------------------
(* "ensuring at-least-once delivery" (comment of EmailWorker.Start): a mail *)
(* the group was given leaves the queue sent or as a dead letter, if        *)
(* trimming is left aside.                                                  *)
AtLeastOnce ==
  \A m \in started \ (BadMail \cup missed \cup trimmed) : Queued(m) \/ Sent(m) \/ m \in dead

=============================================================================
