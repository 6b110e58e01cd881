---------------------------- MODULE WorkerProofs ----------------------------
(***************************************************************************)
(* Proofs about the work that goes on behind the requests: the e-mail queue *)
(* (Email), and the goroutines and the clean-up worker that record games    *)
(* and erase users (Results).                                               *)
(*                                                                         *)
(* Email, for every set of mails, entries and workers and any number of     *)
(* retries and faults: type correctness, NoMailVanishes and                 *)
(* DuplicatesNeedFaults.  An entry is acknowledged only when its mail is    *)
(* settled or queued once more with a higher retry count (AckOK), where a   *)
(* mail one of whose entries MAXLEN cut off counts as settled; the          *)
(* higher count is what keeps two goroutines from acknowledging two copies  *)
(* of a mail on the strength of each other.  The sends of a mail and the    *)
(* copies of it that are still to be tried are bounded together (CopiesOK): *)
(* a send uses a copy up, and only a fault leaves one behind.               *)
(*                                                                         *)
(* Results, for every set of players, any number of games, taps and         *)
(* retries: ResultsAreFinal.  Only a recorded game has results, and only of *)
(* users with a row (RowsOK).                                               *)
(***************************************************************************)
EXTENDS Email, Results, FiniteSetTheorems, TLAPS

Settled(m) == Sent(m) \/ m \in dead \cup dropped \cup trimmed

InQueue(e) == entry[e].st \in {"new", "pending"}

(* The mail of e is settled, or queued again with more retries. *)
Accounted(e) ==
  \/ Settled(entry[e].mail)
  \/ \E f \in Entry : /\ InQueue(f) /\ entry[f].mail = entry[e].mail
                      /\ entry[f].retries > entry[e].retries

EntriesOK == \A e \in Entry : InQueue(e) => entry[e].mail \in started

(* Goroutines hold entries of mails that were enqueued. *)
HeldOK ==
  \A p \in Proc :
    /\ proc[p].pc = "idle" => proc[p].cur = None /\ proc[p].batch = {}
    /\ proc[p].pc # "idle" => proc[p].cur \in Entry /\ entry[proc[p].cur].mail \in started
    /\ \A e \in proc[p].batch : entry[e].mail \in started

RetryOK ==
  \A p \in Proc : proc[p].pc = "retry" => entry[proc[p].cur].retries < MaxRetries

(* Whoever is about to acknowledge an entry has accounted for its mail. *)
AckOK ==
  \A p \in Proc, e \in Entry : proc[p].pc = "ack" /\ proc[p].cur = e => Accounted(e)

(* Before there is a group nothing is delivered. *)
GroupOK ==
  ~group => /\ missed = {}
            /\ \A e \in Entry : entry[e].st # "pending"
            /\ \A p \in Proc : proc[p].pc = "idle"

Inv ==
  /\ TypeOK
  /\ EntriesOK
  /\ HeldOK
  /\ RetryOK
  /\ AckOK
  /\ GroupOK
  /\ NoMailVanishes

USE NoneAssumption, BadMailAssumption, BoundsAssumption

EntryType == [st : EntryState, mail : Mail \cup {None}, retries : 0 .. MaxRetries]

ProcType == [pc : ProcPc, cur : Entry \cup {None}, batch : SUBSET Entry]

(* What is settled stays settled. *)
Grows ==
  /\ dead \subseteq dead' /\ dropped \subseteq dropped' /\ trimmed \subseteq trimmed'
  /\ missed' = missed
  /\ dead' \subseteq Mail /\ dropped' \subseteq Mail /\ trimmed' \subseteq Mail
  /\ sends' \in [Mail -> Nat] /\ \A m \in Mail : sends[m] <= sends'[m]

(* A settled mail stays settled. *)
LEMMA SettledStays ==
  ASSUME TypeOK, Grows
  PROVE  \A m \in Mail : Settled(m) => Settled(m)'
  BY DEF TypeOK, Grows, Settled, Sent

(* Nothing unsettles a mail in a step that settles none. *)
LEMMA GrowsWhenUnchanged ==
  ASSUME TypeOK, UNCHANGED <<dead, dropped, missed, trimmed, sends>>
  PROVE  Grows
  BY DEF TypeOK, Grows

(* An entry stays accounted for while queued entries stay queued. *)
LEMMA AccountedStays ==
  ASSUME TypeOK, Grows, NEW e \in Entry, Accounted(e), entry[e].mail \in Mail,
         entry'[e].mail = entry[e].mail, entry'[e].retries = entry[e].retries,
         \A f \in Entry : InQueue(f) => /\ InQueue(f)'
                                        /\ entry'[f].mail = entry[f].mail
                                        /\ entry'[f].retries = entry[f].retries
  PROVE  Accounted(e)'
<1>1. CASE Settled(entry[e].mail)
  <2>1. Settled(entry[e].mail)'
    <3>. DEFINE m == entry[e].mail
    <3>1. sends[m] \in Nat /\ sends'[m] \in Nat /\ sends[m] <= sends'[m]
      BY DEF TypeOK, Grows
    <3>2. sends'[m] > 0 \/ m \in dead' \cup dropped' \cup trimmed'
      BY <1>1, <3>1 DEF Grows, Settled, Sent
    <3>. QED BY <3>2 DEF Settled, Sent
  <2>. QED BY <2>1 DEF Accounted
<1>2. CASE ~Settled(entry[e].mail)
  <2>1. PICK f \in Entry : /\ InQueue(f) /\ entry[f].mail = entry[e].mail
                           /\ entry[f].retries > entry[e].retries
    BY <1>2 DEF Accounted
  <2>. QED BY <2>1 DEF Accounted
<1>. QED BY <1>1, <1>2

(* Initially nothing is queued and nobody works. *)
LEMMA InitInv == Init => Inv
<1>. SUFFICES ASSUME Init PROVE Inv
  OBVIOUS
<1>1. TypeOK
  <2>1. entry \in [Entry -> [st : EntryState, mail : Mail \cup {None}, retries : 0 .. MaxRetries]]
    BY DEF Init, EntryState
  <2>2. proc \in [Proc -> [pc : ProcPc, cur : Entry \cup {None}, batch : SUBSET Entry]]
    BY DEF Init, ProcPc, Idle
  <2>3. faults \in 0 .. MaxFaults /\ sends \in [Mail -> Nat]
    BY DEF Init
  <2>4. group \in BOOLEAN
    BY DEF Init
  <2>. QED BY <2>1, <2>2, <2>3, <2>4 DEF Init, TypeOK
<1>2. \A p \in Proc : proc[p].pc = "idle" /\ proc[p].cur = None /\ proc[p].batch = {}
  BY DEF Init, Idle
<1>3. \A e \in Entry : entry[e].st = "gone"
  BY DEF Init
<1>4. EntriesOK
  BY <1>3 DEF EntriesOK, InQueue
<1>5. HeldOK
  BY <1>2 DEF HeldOK
<1>6. RetryOK /\ AckOK
  BY <1>2 DEF RetryOK, AckOK
<1>7. GroupOK
  BY <1>2, <1>3 DEF Init, GroupOK
<1>8. NoMailVanishes
  BY DEF Init, NoMailVanishes
<1>. QED BY <1>1, <1>4, <1>5, <1>6, <1>7, <1>8 DEF Inv

(* The stream stays as it is while a goroutine moves on with its entry.     *)
LEMMA ProcMoves ==
  ASSUME Inv, NEW p \in Proc, NEW pc \in ProcPc \ {"idle"},
         proc[p].pc # "idle", Goto(p, pc), Grows,
         UNCHANGED <<group, entry, started>>, faults' \in 0 .. MaxFaults,
         pc = "retry" => entry[proc[p].cur].retries < MaxRetries,
         \A e \in Entry : pc = "ack" /\ proc[p].cur = e => Accounted(e)'
  PROVE  Inv'
<1>1. proc \in [Proc -> ProcType] /\ entry \in [Entry -> EntryType] /\ started \subseteq Mail
  BY DEF Inv, TypeOK, ProcType, EntryType
<1>2. /\ proc' \in [Proc -> ProcType]
      /\ proc'[p].pc = pc /\ proc'[p].cur = proc[p].cur /\ proc'[p].batch = proc[p].batch
      /\ \A o \in Proc \ {p} : proc'[o] = proc[o]
  BY <1>1 DEF Goto, ProcType
<1>3. TypeOK'
  BY <1>2 DEF Inv, TypeOK, Grows, ProcType
<1>4. \A m \in Mail : Settled(m) => Settled(m)'
  BY SettledStays DEF Inv
<1>5. EntriesOK'
  BY DEF Inv, EntriesOK, InQueue
<1>6. HeldOK'
  BY <1>2 DEF Inv, HeldOK
<1>7. RetryOK'
  BY <1>2 DEF Inv, RetryOK
<1>8. AckOK'
  <2>1. ASSUME NEW o \in Proc, NEW e \in Entry, proc'[o].pc = "ack", proc'[o].cur = e
        PROVE  Accounted(e)'
    <3>1. CASE o = p
      BY <1>2, <2>1, <3>1
    <3>2. CASE o # p
      <4>1. Accounted(e) /\ entry[e].mail \in Mail
        BY <1>1, <1>2, <2>1, <3>2 DEF Inv, AckOK, HeldOK
      <4>2. \A f \in Entry : InQueue(f) => InQueue(f)'
        BY DEF InQueue
      <4>. QED BY <4>1, <4>2, AccountedStays DEF Inv
    <3>. QED BY <3>1, <3>2
  <2>. QED BY <2>1 DEF AckOK
<1>9. GroupOK'
  BY <1>2 DEF Inv, GroupOK, Grows
<1>10. NoMailVanishes'
  BY <1>1, <1>4 DEF Inv, NoMailVanishes, Grows, Queued, Settled
<1>. QED BY <1>3, <1>5, <1>6, <1>7, <1>8, <1>9, <1>10 DEF Inv

(* Where a goroutine is when it is through with its entry. *)
LEMMA NextProc ==
  ASSUME Inv, NEW p \in Proc, Next1(p)
  PROVE  /\ proc' \in [Proc -> ProcType]
         /\ proc'[p].pc \in {"idle", "send"}
         /\ proc'[p].pc = "idle" => proc'[p].cur = None /\ proc'[p].batch = {}
         /\ proc'[p].pc = "send" => proc'[p].cur \in proc[p].batch
         /\ proc'[p].batch \subseteq proc[p].batch
         /\ \A o \in Proc \ {p} : proc'[o] = proc[o]
<1>1. proc \in [Proc -> ProcType]
  BY DEF Inv, TypeOK, ProcType
<1>2. CASE proc[p].batch = {}
  BY <1>1, <1>2 DEF Next1, Idle, ProcType, ProcPc
<1>3. CASE proc[p].batch # {}
  <2>1. PICK e \in proc[p].batch :
          proc' = [proc EXCEPT ![p] = [pc |-> "send", cur |-> e, batch |-> @.batch \ {e}]]
    BY <1>3 DEF Next1
  <2>. QED BY <1>1, <2>1 DEF ProcType, ProcPc
<1>. QED BY <1>2, <1>3

(* A goroutine leaves its entry e: the entry stays as it is, or it is       *)
(* acknowledged after its mail was accounted for.                           *)
LEMMA EntryLeft ==
  ASSUME Inv, NEW p \in Proc, NEW e \in Entry, proc[p].cur = e, proc[p].pc # "idle", Next1(p),
         \/ UNCHANGED entry
         \/ Accounted(e) /\ entry' = [entry EXCEPT ![e].st = "gone"],
         UNCHANGED <<group, started, dead, dropped, missed, trimmed, sends>>,
         faults' \in 0 .. MaxFaults
  PROVE  Inv'
<1>1. proc \in [Proc -> ProcType] /\ entry \in [Entry -> EntryType] /\ started \subseteq Mail
  BY DEF Inv, TypeOK, ProcType, EntryType
<1>2. /\ proc' \in [Proc -> ProcType]
      /\ proc'[p].pc \in {"idle", "send"}
      /\ proc'[p].pc = "idle" => proc'[p].cur = None /\ proc'[p].batch = {}
      /\ proc'[p].pc = "send" => proc'[p].cur \in proc[p].batch
      /\ proc'[p].batch \subseteq proc[p].batch
      /\ \A o \in Proc \ {p} : proc'[o] = proc[o]
  BY NextProc
<1>3. /\ entry' \in [Entry -> EntryType]
      /\ \A f \in Entry : entry'[f].mail = entry[f].mail /\ entry'[f].retries = entry[f].retries
      /\ \A f \in Entry : entry'[f].st = entry[f].st \/ entry'[f].st = "gone"
      /\ \A f \in Entry \ {e} : entry'[f] = entry[f]
      /\ entry' # entry => Accounted(e)
  BY <1>1 DEF EntryType, EntryState
<1>4. TypeOK'
  BY <1>2, <1>3 DEF Inv, TypeOK, ProcType, EntryType
<1>5. EntriesOK'
  BY <1>3 DEF Inv, EntriesOK, InQueue
<1>6. HeldOK'
  BY SMTT(40), <1>1, <1>2, <1>3 DEF Inv, HeldOK, ProcType
<1>7. RetryOK'
  <2>1. ASSUME NEW o \in Proc, proc'[o].pc = "retry" PROVE entry'[proc'[o].cur].retries < MaxRetries
    <3>1. o # p /\ proc'[o] = proc[o]
      BY <1>2, <2>1
    <3>2. proc[o].cur \in Entry /\ entry[proc[o].cur].retries < MaxRetries
      BY <2>1, <3>1 DEF Inv, RetryOK, HeldOK
    <3>. QED BY <1>3, <3>1, <3>2
  <2>. QED BY <2>1 DEF RetryOK
<1>8. \A g \in Entry : Accounted(g) => Accounted(g)'
  <2>. SUFFICES ASSUME NEW g \in Entry, Accounted(g) PROVE Accounted(g)'
    OBVIOUS
  <2>1. CASE Settled(entry[g].mail)
    BY <1>3, <2>1 DEF Accounted, Settled, Sent
  <2>2. CASE ~Settled(entry[g].mail)
    <3>1. PICK f \in Entry : /\ InQueue(f) /\ entry[f].mail = entry[g].mail
                             /\ entry[f].retries > entry[g].retries
      BY <2>2 DEF Accounted
    <3>2. CASE f # e \/ entry' = entry
      BY <1>3, <3>1, <3>2 DEF Accounted, InQueue
    <3>3. CASE f = e /\ entry' # entry
      <4>1. PICK h \in Entry : /\ InQueue(h) /\ entry[h].mail = entry[e].mail
                               /\ entry[h].retries > entry[e].retries
        BY <1>3, <2>2, <3>1, <3>3 DEF Accounted
      <4>2. h # e /\ entry[h].retries > entry[g].retries /\ entry[h].mail = entry[g].mail
        BY <1>1, <3>1, <3>3, <4>1 DEF EntryType
      <4>3. entry'[h] = entry[h]
        BY <1>3, <4>2
      <4>. QED BY <1>3, <4>1, <4>2, <4>3 DEF Accounted, InQueue
    <3>. QED BY <3>2, <3>3
  <2>. QED BY <2>1, <2>2
<1>9. AckOK'
  <2>1. ASSUME NEW o \in Proc, NEW g \in Entry, proc'[o].pc = "ack", proc'[o].cur = g
        PROVE  Accounted(g)'
    <3>1. proc'[o] = proc[o]
      BY <1>2, <2>1
    <3>2. Accounted(g)
      BY <2>1, <3>1 DEF Inv, AckOK
    <3>. QED BY <1>8, <3>2
  <2>. QED BY <2>1 DEF AckOK
<1>10. GroupOK'
  <2>1. ~group => entry' = entry /\ FALSE
    BY DEF Inv, GroupOK
  <2>. QED BY <2>1 DEF GroupOK
<1>11. NoMailVanishes'
  <2>. SUFFICES ASSUME NEW m \in started, Queued(m), ~Settled(m)
                PROVE  Queued(m)'
    BY DEF Inv, NoMailVanishes, Settled, Sent
  <2>1. PICK f \in Entry : entry[f].mail = m /\ InQueue(f)
    BY DEF Queued, InQueue
  <2>2. CASE f # e \/ entry' = entry
    BY <1>3, <2>1, <2>2 DEF Queued, InQueue
  <2>3. CASE f = e /\ entry' # entry
    <3>1. PICK h \in Entry : /\ InQueue(h) /\ entry[h].mail = entry[e].mail
                             /\ entry[h].retries > entry[e].retries
      BY <1>3, <2>1, <2>3 DEF Accounted
    <3>2. h # e
      BY <1>1, <3>1 DEF EntryType
    <3>. QED BY <1>3, <2>1, <2>3, <3>1, <3>2 DEF Queued, InQueue
  <2>. QED BY <2>2, <2>3
<1>. QED BY <1>4, <1>5, <1>6, <1>7, <1>9, <1>10, <1>11 DEF Inv

(* What XADD does to the stream: a new entry nobody holds, and the mails of *)
(* the entries it cuts off are trimmed.                                     *)
LEMMA XAddWrites ==
  ASSUME Inv, NEW m \in Mail, NEW n \in 0 .. MaxRetries, XAdd(m, n)
  PROVE  \E a \in Entry :
           /\ entry[a].st = "gone" /\ \A p \in Proc : proc[p].cur # a /\ a \notin proc[p].batch
           /\ entry' \in [Entry -> EntryType]
           /\ entry'[a].st = "new" /\ entry'[a].mail = m /\ entry'[a].retries = n
           /\ \A f \in Entry \ {a} :
                /\ entry'[f].mail = entry[f].mail /\ entry'[f].retries = entry[f].retries
                /\ \/ entry'[f].st = entry[f].st
                   \/ entry'[f].st = "gone" /\ entry[f].mail \in trimmed'
           /\ trimmed \subseteq trimmed' /\ trimmed' \subseteq Mail
<1>1. entry \in [Entry -> EntryType] /\ started \subseteq Mail /\ trimmed \subseteq Mail
  BY DEF Inv, TypeOK, EntryType
<1> DEFINE a == CHOOSE f \in Free : TRUE
<1>2. a \in Free
  BY DEF XAdd
<1>3. a \in Entry /\ entry[a].st = "gone"
      /\ \A p \in Proc : proc[p].cur # a /\ a \notin proc[p].batch
  BY <1>2 DEF Free, Held
<1>4. PICK T \in {U \in SUBSET Unread : Oldest(U)} :
        /\ entry' = [e \in Entry |->
                       IF e = a THEN [st |-> "new", mail |-> m, retries |-> n]
                       ELSE IF e \in T THEN [entry[e] EXCEPT !.st = "gone"] ELSE entry[e]]
        /\ trimmed' = trimmed \cup {entry[e].mail : e \in T}
  BY DEF XAdd
<1> HIDE DEF a
<1>5. \A e \in T : e \in Entry /\ entry[e].mail \in Mail
  BY <1>1 DEF Unread, Inv, EntriesOK, InQueue
<1>6. entry' \in [Entry -> EntryType]
  BY <1>1, <1>4 DEF EntryType, EntryState
<1>7. entry'[a] = [st |-> "new", mail |-> m, retries |-> n]
  BY <1>3, <1>4
<1>8. ASSUME NEW f \in Entry \ {a}
      PROVE  /\ entry'[f].mail = entry[f].mail /\ entry'[f].retries = entry[f].retries
             /\ \/ entry'[f].st = entry[f].st
                \/ entry'[f].st = "gone" /\ entry[f].mail \in trimmed'
  BY <1>1, <1>4 DEF EntryType
<1>9. trimmed \subseteq trimmed' /\ trimmed' \subseteq Mail
  BY <1>1, <1>4, <1>5
<1>. QED BY <1>3, <1>6, <1>7, <1>8, <1>9

(* XADD writes an entry that nobody holds; the goroutine that asked for it, *)
(* if any, goes on to its acknowledgement.                                  *)
LEMMA EntryAdded ==
  ASSUME Inv, NEW m \in Mail, NEW n \in 0 .. MaxRetries, XAdd(m, n),
         started \subseteq started', started' \subseteq started \cup {m}, m \in started',
         \/ UNCHANGED proc
         \/ \E p \in Proc : /\ proc[p].pc = "retry" /\ Goto(p, "ack")
                            /\ entry[proc[p].cur].mail = m /\ n > entry[proc[p].cur].retries,
         UNCHANGED <<group, dead, dropped, missed, sends, faults>>
  PROVE  Inv'
<1>1. proc \in [Proc -> ProcType] /\ entry \in [Entry -> EntryType] /\ started \subseteq Mail
  BY DEF Inv, TypeOK, ProcType, EntryType
<1>2. PICK a \in Entry :
        /\ entry[a].st = "gone" /\ \A p \in Proc : proc[p].cur # a /\ a \notin proc[p].batch
        /\ entry' \in [Entry -> EntryType]
        /\ entry'[a].st = "new" /\ entry'[a].mail = m /\ entry'[a].retries = n
        /\ \A f \in Entry \ {a} :
             /\ entry'[f].mail = entry[f].mail /\ entry'[f].retries = entry[f].retries
             /\ \/ entry'[f].st = entry[f].st
                \/ entry'[f].st = "gone" /\ entry[f].mail \in trimmed'
        /\ trimmed \subseteq trimmed' /\ trimmed' \subseteq Mail
  BY XAddWrites
<1>3. /\ entry[a].st = "gone" /\ \A p \in Proc : proc[p].cur # a /\ a \notin proc[p].batch
      /\ entry' \in [Entry -> EntryType]
      /\ entry'[a].st = "new" /\ entry'[a].mail = m /\ entry'[a].retries = n
  BY <1>2
<1>4. \A f \in Entry \ {a} :
        /\ entry'[f].mail = entry[f].mail /\ entry'[f].retries = entry[f].retries
        /\ entry'[f].st = entry[f].st \/ entry'[f].st = "gone"
  BY <1>2
<1>5. \A f \in Entry : InQueue(f) =>
        /\ f # a /\ entry'[f].mail = entry[f].mail /\ entry'[f].retries = entry[f].retries
        /\ InQueue(f)' \/ entry[f].mail \in trimmed'
  BY <1>2 DEF InQueue
<1>g. Grows
  BY <1>2 DEF Grows, Inv, TypeOK
<1>6. /\ proc' \in [Proc -> ProcType]
      /\ \A o \in Proc : /\ proc'[o].cur = proc[o].cur /\ proc'[o].batch = proc[o].batch
                         /\ proc'[o].pc = proc[o].pc \/ (proc[o].pc = "retry" /\ proc'[o].pc = "ack")
  BY <1>1 DEF Goto, ProcType, ProcPc
<1>7. TypeOK'
  BY <1>1, <1>2, <1>6 DEF Inv, TypeOK, ProcType, EntryType
<1>8. EntriesOK'
  BY <1>3, <1>4 DEF Inv, EntriesOK, InQueue
<1>9. HeldOK'
  <2>. SUFFICES ASSUME NEW o \in Proc
                PROVE  /\ proc'[o].pc = "idle" => proc'[o].cur = None /\ proc'[o].batch = {}
                       /\ proc'[o].pc # "idle" => /\ proc'[o].cur \in Entry
                                                  /\ entry'[proc'[o].cur].mail \in started'
                       /\ \A e \in proc'[o].batch : entry'[e].mail \in started'
    BY DEF HeldOK
  <2>1. proc'[o].pc = "idle" => proc'[o].cur = None /\ proc'[o].batch = {}
    BY <1>6 DEF Inv, HeldOK
  <2>2. proc'[o].pc # "idle" => proc'[o].cur \in Entry /\ entry'[proc'[o].cur].mail \in started'
    BY <1>3, <1>4, <1>6 DEF Inv, HeldOK
  <2>3. \A e \in proc'[o].batch : entry'[e].mail \in started'
    BY <1>1, <1>3, <1>4, <1>6 DEF Inv, HeldOK, ProcType
  <2>. QED BY <2>1, <2>2, <2>3
<1>10. RetryOK'
  <2>1. ASSUME NEW o \in Proc, proc'[o].pc = "retry" PROVE entry'[proc'[o].cur].retries < MaxRetries
    <3>1. proc'[o].cur = proc[o].cur /\ proc[o].pc = "retry"
      BY <1>6, <2>1
    <3>2. proc[o].cur \in Entry \ {a} /\ entry[proc[o].cur].retries < MaxRetries
      BY <1>3, <3>1 DEF Inv, RetryOK, HeldOK
    <3>. QED BY <1>4, <3>1, <3>2
  <2>. QED BY <2>1 DEF RetryOK
<1>11. AckOK'
  <2>1. ASSUME NEW o \in Proc, NEW e \in Entry, proc'[o].pc = "ack", proc'[o].cur = e
        PROVE  Accounted(e)'
    <3>1. e # a /\ proc[o].cur = e /\ entry[e].mail \in Mail
          /\ entry'[e].mail = entry[e].mail /\ entry'[e].retries = entry[e].retries
      BY <1>1, <1>3, <1>4, <1>6, <2>1 DEF Inv, HeldOK
    <3>2. CASE proc[o].pc = "ack"
      <4>1. Accounted(e)
        BY <2>1, <3>1, <3>2 DEF Inv, AckOK
      <4>2. CASE Settled(entry[e].mail)
        <5>1. Settled(entry[e].mail)'
          BY <1>g, <3>1, <4>2, SettledStays DEF Inv
        <5>. QED BY <3>1, <5>1 DEF Accounted, Settled, Sent
      <4>3. CASE ~Settled(entry[e].mail)
        <5>1. PICK f \in Entry : /\ InQueue(f) /\ entry[f].mail = entry[e].mail
                                 /\ entry[f].retries > entry[e].retries
          BY <4>1, <4>3 DEF Accounted
        <5>2. CASE InQueue(f)'
          BY <1>5, <3>1, <5>1, <5>2 DEF Accounted
        <5>3. CASE entry[f].mail \in trimmed'
          BY <3>1, <5>1, <5>3 DEF Accounted, Settled
        <5>. QED BY <1>5, <5>1, <5>2, <5>3
      <4>. QED BY <4>2, <4>3
    <3>3. CASE proc[o].pc # "ack"
      <4>1. PICK p \in Proc : /\ proc[p].pc = "retry" /\ Goto(p, "ack")
                              /\ entry[proc[p].cur].mail = m /\ n > entry[proc[p].cur].retries
        BY <2>1, <3>3
      <4>2. o = p
        BY <1>1, <2>1, <3>3, <4>1 DEF Goto, ProcType
      <4>3. entry'[e].mail = m /\ n > entry'[e].retries
        BY <3>1, <4>1, <4>2
      <4>. QED BY <1>3, <1>4, <4>3 DEF Accounted, InQueue
    <3>. QED BY <3>2, <3>3
  <2>. QED BY <2>1 DEF AckOK
<1>12. GroupOK'
  <2>1. ~group => \A o \in Proc : proc'[o].pc = "idle"
    BY <1>6 DEF Inv, GroupOK
  <2>2. ~group => \A e \in Entry : entry'[e].st # "pending"
    BY <1>3, <1>4 DEF Inv, GroupOK
  <2>. QED BY <2>1, <2>2 DEF Inv, GroupOK
<1>13. NoMailVanishes'
  <2>1. Queued(m)'
    BY <1>3, <1>4 DEF Queued
  <2>2. \A x \in started : Queued(x) => Queued(x)' \/ x \in trimmed'
    BY <1>5 DEF Queued, InQueue
  <2>. QED BY <1>2, <2>1, <2>2 DEF Inv, NoMailVanishes, Sent
<1>. QED BY <1>7, <1>8, <1>9, <1>10, <1>11, <1>12, <1>13 DEF Inv

(* A goroutine is handed entries that are queued; new ones become pending.  *)
LEMMA EntriesFetched ==
  ASSUME Inv, NEW p \in Proc, NEW E \in SUBSET Entry, Fetch(p, E), group,
         proc[p].pc = "idle", \A e \in E : InQueue(e),
         entry' = [e \in Entry |-> IF e \in E THEN [entry[e] EXCEPT !.st = "pending"]
                                              ELSE entry[e]],
         UNCHANGED <<group, started, dead, dropped, missed, trimmed, sends>>,
         faults' \in 0 .. MaxFaults
  PROVE  Inv'
<1>1. proc \in [Proc -> ProcType] /\ entry \in [Entry -> EntryType] /\ started \subseteq Mail
  BY DEF Inv, TypeOK, ProcType, EntryType
<1>2. PICK c \in E : proc' = [proc EXCEPT ![p] = [pc |-> "send", cur |-> c, batch |-> E \ {c}]]
  BY DEF Fetch
<1>3. /\ proc' \in [Proc -> ProcType]
      /\ proc'[p].pc = "send" /\ proc'[p].cur = c /\ proc'[p].batch = E \ {c}
      /\ \A o \in Proc \ {p} : proc'[o] = proc[o]
  BY <1>1, <1>2 DEF ProcType, ProcPc
<1>4. /\ entry' \in [Entry -> EntryType]
      /\ \A f \in Entry : /\ entry'[f].mail = entry[f].mail
                          /\ entry'[f].retries = entry[f].retries
                          /\ entry'[f].st = IF f \in E THEN "pending" ELSE entry[f].st
  BY <1>1 DEF EntryType, EntryState
<1>5. \A f \in Entry : InQueue(f)' <=> InQueue(f)
  BY <1>4 DEF InQueue
<1>6. TypeOK'
  BY <1>3, <1>4 DEF Inv, TypeOK, ProcType, EntryType
<1>7. EntriesOK'
  BY <1>4, <1>5 DEF Inv, EntriesOK
<1>8. HeldOK'
  <2>1. \A f \in E : entry[f].mail \in started
    BY DEF Inv, EntriesOK
  <2>. QED BY <1>1, <1>3, <1>4, <2>1 DEF Inv, HeldOK, ProcType
<1>9. RetryOK'
  BY <1>3, <1>4 DEF Inv, RetryOK, HeldOK
<1>10. AckOK'
  <2>1. ASSUME NEW o \in Proc, NEW e \in Entry, proc'[o].pc = "ack", proc'[o].cur = e
        PROVE  Accounted(e)'
    <3>1. Accounted(e) /\ entry[e].mail \in Mail
      BY <1>1, <1>3, <2>1 DEF Inv, AckOK, HeldOK
    <3>2. Grows
      BY GrowsWhenUnchanged DEF Inv
    <3>. QED BY <1>4, <1>5, <3>1, <3>2, AccountedStays DEF Inv
  <2>. QED BY <2>1 DEF AckOK
<1>11. GroupOK'
  BY DEF GroupOK
<1>12. NoMailVanishes'
  <2>1. \A m \in started : Queued(m) => Queued(m)'
    BY <1>4, <1>5 DEF Queued, InQueue
  <2>. QED BY <2>1 DEF Inv, NoMailVanishes, Sent
<1>. QED BY <1>6, <1>7, <1>8, <1>9, <1>10, <1>11, <1>12 DEF Inv

(* The group is created before anything is delivered. *)
LEMMA GroupCreated == ASSUME Inv, XGroupCreate PROVE Inv'
<1>1. proc \in [Proc -> ProcType] /\ entry \in [Entry -> EntryType] /\ started \subseteq Mail
  BY DEF Inv, TypeOK, ProcType, EntryType
<1>2. /\ entry' \in [Entry -> EntryType]
      /\ \A f \in Entry : entry'[f].mail = entry[f].mail /\ entry'[f].st = "gone"
  BY <1>1 DEF XGroupCreate, EntryType, EntryState
<1>3. missed' \subseteq Mail
  BY <1>1 DEF XGroupCreate, Inv, EntriesOK, InQueue
<1>4. TypeOK'
  BY <1>2, <1>3 DEF XGroupCreate, Inv, TypeOK, EntryType
<1>5. EntriesOK'
  BY <1>2 DEF EntriesOK, InQueue
<1>6. \A p \in Proc : proc'[p] = proc[p] /\ proc[p].pc = "idle" /\ proc[p].batch = {}
                      /\ proc[p].cur = None
  BY DEF XGroupCreate, Inv, GroupOK, HeldOK
<1>7. HeldOK'
  BY <1>6 DEF HeldOK
<1>8. RetryOK' /\ AckOK'
  BY <1>6 DEF RetryOK, AckOK
<1>9. GroupOK'
  BY DEF XGroupCreate, GroupOK
<1>10. NoMailVanishes'
  <2>1. \A m \in started : Queued(m) => m \in missed'
    BY DEF XGroupCreate, Inv, GroupOK, Queued
  <2>. QED BY <2>1 DEF XGroupCreate, Inv, GroupOK, NoMailVanishes, Sent
<1>. QED BY <1>4, <1>5, <1>7, <1>8, <1>9, <1>10 DEF Inv

(* A worker that dies holds nothing any more; its entries stay pending.     *)
LEMMA WorkerDies == ASSUME Inv, NEW w \in Worker, Crash(w) PROVE Inv'
<1>1. proc \in [Proc -> ProcType] /\ entry \in [Entry -> EntryType]
  BY DEF Inv, TypeOK, ProcType, EntryType
<1>2. Idle \in ProcType /\ Idle.pc = "idle" /\ Idle.cur = None /\ Idle.batch = {}
  BY DEF Idle, ProcType, ProcPc
<1>3. /\ proc' \in [Proc -> ProcType]
      /\ \A o \in Proc : proc'[o] = Idle \/ proc'[o] = proc[o]
  BY <1>1, <1>2 DEF Crash
<1>4. faults' \in 0 .. MaxFaults
  BY DEF Crash, Fault, Inv, TypeOK
<1>5. TypeOK'
  BY <1>3, <1>4 DEF Crash, Inv, TypeOK, ProcType
<1>6. EntriesOK'
  BY DEF Crash, Inv, EntriesOK, InQueue
<1>7. HeldOK'
  <2>. SUFFICES ASSUME NEW o \in Proc
                PROVE  /\ proc'[o].pc = "idle" => proc'[o].cur = None /\ proc'[o].batch = {}
                       /\ proc'[o].pc # "idle" => /\ proc'[o].cur \in Entry
                                                  /\ entry'[proc'[o].cur].mail \in started'
                       /\ \A e \in proc'[o].batch : entry'[e].mail \in started'
    BY DEF HeldOK
  <2>1. CASE proc'[o] = Idle
    BY <1>2, <2>1
  <2>2. CASE proc'[o] = proc[o]
    BY <2>2 DEF Crash, Inv, HeldOK
  <2>. QED BY <1>3, <2>1, <2>2
<1>8. RetryOK'
  BY <1>2, <1>3 DEF Crash, Inv, RetryOK
<1>9. AckOK'
  <2>1. ASSUME NEW o \in Proc, NEW e \in Entry, proc'[o].pc = "ack", proc'[o].cur = e
        PROVE  Accounted(e)'
    <3>1. Accounted(e)
      BY <1>2, <1>3, <2>1 DEF Inv, AckOK
    <3>. QED BY <3>1 DEF Crash, Accounted, InQueue, Settled, Sent
  <2>. QED BY <2>1 DEF AckOK
<1>10. GroupOK'
  BY <1>2, <1>3 DEF Crash, Inv, GroupOK
<1>11. NoMailVanishes'
  BY DEF Crash, Inv, NoMailVanishes, Queued, Sent
<1>. QED BY <1>5, <1>6, <1>7, <1>8, <1>9, <1>10, <1>11 DEF Inv

(* The steps of processMessage. *)
LEMMA ProcInv == ASSUME Inv, NEW p \in Proc, ProcStep(p) PROVE Inv'
<1>. DEFINE e == proc[p].cur
            m == entry[proc[p].cur].mail
<1>1. proc \in [Proc -> ProcType] /\ entry \in [Entry -> EntryType] /\ started \subseteq Mail
  BY DEF Inv, TypeOK, ProcType, EntryType
<1>2. /\ proc[p].pc # "idle" /\ e \in Entry /\ m \in started /\ m \in Mail
      /\ entry[e].retries \in 0 .. MaxRetries
  BY <1>1 DEF ProcStep, InvalidPayload, sendEmail, SendFails, AnswerLost, reenqueueWithBackoff,
       moveToDeadLetter, DeadLetterPermanent, XAck, Sendable, Inv, HeldOK, EntryType
<1>3. dead \subseteq Mail /\ dropped \subseteq Mail /\ trimmed \subseteq Mail
      /\ sends \in [Mail -> Nat] /\ faults \in 0 .. MaxFaults
  BY DEF Inv, TypeOK
<1>4. Fault => faults' \in 0 .. MaxFaults
  BY <1>3 DEF Fault
<1>5. /\ handleRetry(p) \in {"retry", "deadLetter"}
      /\ handleRetry(p) = "retry" => entry[e].retries < MaxRetries
  BY <1>2 DEF handleRetry
<1>6. CASE InvalidPayload(p)
  <2>1. Grows
    BY <1>2, <1>3, <1>6 DEF InvalidPayload, Grows
  <2>2. \A f \in Entry : proc[p].cur = f => Accounted(f)'
    BY <1>6 DEF InvalidPayload, Accounted, Settled
  <2>. QED BY <1>2, <1>3, <1>6, <2>1, <2>2, ProcMoves DEF InvalidPayload, ProcPc
<1>7. CASE sendEmail(p)
  <2>1. sends' \in [Mail -> Nat] /\ sends'[m] > 0 /\ \A x \in Mail : sends[x] <= sends'[x]
    BY <1>2, <1>3, <1>7 DEF sendEmail
  <2>2. Grows
    BY <1>3, <1>7, <2>1 DEF sendEmail, Grows
  <2>3. \A f \in Entry : proc[p].cur = f => Accounted(f)'
    BY <1>7, <2>1 DEF sendEmail, Accounted, Settled, Sent
  <2>. QED BY <1>2, <1>3, <1>7, <2>2, <2>3, ProcMoves DEF sendEmail, ProcPc
<1>8. CASE SendFails(p)
  <2>1. Grows
    BY <1>8, GrowsWhenUnchanged DEF SendFails, Inv
  <2>2. CASE Goto(p, "deadPermanent")
    BY <1>2, <1>3, <1>8, <2>1, <2>2, ProcMoves DEF SendFails, ProcPc
  <2>3. CASE Goto(p, handleRetry(p))
    BY <1>2, <1>3, <1>5, <1>8, <2>1, <2>3, ProcMoves DEF SendFails, ProcPc
  <2>. QED BY <1>8, <2>2, <2>3 DEF SendFails
<1>9. CASE AnswerLost(p)
  <2>1. sends' \in [Mail -> Nat] /\ \A x \in Mail : sends[x] <= sends'[x]
    BY <1>2, <1>3, <1>9 DEF AnswerLost
  <2>2. Grows
    BY <1>3, <1>9, <2>1 DEF AnswerLost, Grows
  <2>. QED BY <1>2, <1>4, <1>5, <1>9, <2>2, ProcMoves DEF AnswerLost, ProcPc
<1>10. CASE reenqueueWithBackoff(p)
  <2>1. CASE XAdd(m, entry[e].retries + 1) /\ Goto(p, "ack") /\ UNCHANGED faults
    <3>1. entry[e].retries + 1 \in 0 .. MaxRetries /\ entry[e].retries + 1 > entry[e].retries
      BY <1>2, <1>10 DEF reenqueueWithBackoff, Inv, RetryOK
    <3>. QED BY <1>2, <1>10, <2>1, <3>1, EntryAdded DEF reenqueueWithBackoff
  <2>2. CASE Fault /\ Next1(p) /\ UNCHANGED <<entry, trimmed>>
    BY <1>2, <1>4, <1>10, <2>2, EntryLeft DEF reenqueueWithBackoff
  <2>. QED BY <1>10, <2>1, <2>2 DEF reenqueueWithBackoff
<1>11. CASE moveToDeadLetter(p)
  <2>1. CASE dead' = dead \cup {m} /\ Goto(p, "ack") /\ UNCHANGED faults
    <3>1. Grows
      BY <1>2, <1>3, <1>11, <2>1 DEF moveToDeadLetter, Grows
    <3>2. \A f \in Entry : proc[p].cur = f => Accounted(f)'
      BY <1>11, <2>1 DEF moveToDeadLetter, Accounted, Settled
    <3>. QED BY <1>2, <1>3, <1>11, <2>1, <3>1, <3>2, ProcMoves DEF moveToDeadLetter, ProcPc
  <2>2. CASE Fault /\ Next1(p) /\ UNCHANGED dead
    BY <1>2, <1>4, <1>11, <2>2, EntryLeft DEF moveToDeadLetter
  <2>. QED BY <1>11, <2>1, <2>2 DEF moveToDeadLetter
<1>12. CASE DeadLetterPermanent(p)
  <2>1. Grows /\ m \in dead' \cup dropped'
    BY <1>2, <1>3, <1>12 DEF DeadLetterPermanent, Grows
  <2>2. \A f \in Entry : proc[p].cur = f => Accounted(f)'
    BY <1>12, <2>1 DEF DeadLetterPermanent, Accounted, Settled
  <2>3. faults' \in 0 .. MaxFaults
    BY <1>3, <1>4, <1>12 DEF DeadLetterPermanent
  <2>. QED BY <1>2, <1>12, <2>1, <2>2, <2>3, ProcMoves DEF DeadLetterPermanent, ProcPc
<1>13. CASE XAck(p)
  <2>1. Accounted(e)
    BY <1>2, <1>13 DEF XAck, Inv, AckOK
  <2>2. faults' \in 0 .. MaxFaults
    BY <1>3, <1>4, <1>13 DEF XAck
  <2>. QED BY <1>2, <1>13, <2>1, <2>2, EntryLeft DEF XAck
<1>. QED BY <1>6, <1>7, <1>8, <1>9, <1>10, <1>11, <1>12, <1>13 DEF ProcStep

(* Every step keeps the invariant. *)
LEMMA NextInv == Inv /\ [Next]_vars => Inv'
<1>. SUFFICES ASSUME Inv, [Next]_vars PROVE Inv'
  OBVIOUS
<1>0. entry \in [Entry -> EntryType] /\ started \subseteq Mail /\ faults \in 0 .. MaxFaults
  BY DEF Inv, TypeOK, EntryType
<1>1. ASSUME NEW m \in Mail, EnqueueEmail(m) PROVE Inv'
  <2>1. 0 \in 0 .. MaxRetries
    OBVIOUS
  <2>. QED BY <1>1, <2>1, EntryAdded DEF EnqueueEmail
<1>2. CASE XGroupCreate
  BY <1>2, GroupCreated
<1>3. ASSUME NEW w \in Worker, XReadGroup(w) PROVE Inv'
  <2>1. <<w, "main">> \in Proc
    BY DEF Proc
  <2>2. PICK E \in SUBSET {e \in Entry : entry[e].st = "new"} :
          /\ Fetch(<<w, "main">>, E)
          /\ entry' = [e \in Entry |-> IF e \in E THEN [entry[e] EXCEPT !.st = "pending"]
                                                  ELSE entry[e]]
    BY <1>3 DEF XReadGroup
  <2>3. E \in SUBSET Entry /\ \A e \in E : InQueue(e)
    BY <2>2 DEF InQueue
  <2>. QED BY <1>0, <1>3, <2>1, <2>2, <2>3, EntriesFetched DEF XReadGroup
<1>4. ASSUME NEW w \in Worker, XAutoClaim(w) PROVE Inv'
  <2>1. <<w, "claim">> \in Proc
    BY DEF Proc
  <2>2. PICK E \in SUBSET Entry : /\ Fetch(<<w, "claim">>, E)
                                  /\ \A e \in E : entry[e].st = "pending"
    <3>1. CASE Fetch(<<w, "claim">>, {e \in Entry : Claimable(e)})
      BY <3>1 DEF Claimable
    <3>2. CASE \E e \in Entry : entry[e].st = "pending" /\ Fetch(<<w, "claim">>, {e})
      BY <3>2
    <3>. QED BY <1>4, <3>1, <3>2 DEF XAutoClaim
  <2>3. E # {} /\ group
    BY <2>2 DEF Fetch, Inv, GroupOK
  <2>4. entry' = [e \in Entry |-> IF e \in E THEN [entry[e] EXCEPT !.st = "pending"]
                                             ELSE entry[e]]
    BY <1>0, <1>4, <2>2 DEF XAutoClaim, EntryType
  <2>5. faults' \in 0 .. MaxFaults
    BY <1>0, <1>4 DEF XAutoClaim, Fault
  <2>6. \A e \in E : InQueue(e)
    BY <2>2 DEF InQueue
  <2>. QED BY <1>4, <2>1, <2>2, <2>3, <2>4, <2>5, <2>6, EntriesFetched DEF XAutoClaim
<1>5. ASSUME NEW w \in Worker, Crash(w) PROVE Inv'
  BY <1>5, WorkerDies
<1>6. ASSUME NEW p \in Proc, ProcStep(p) PROVE Inv'
  BY <1>6, ProcInv
<1>7. CASE UNCHANGED vars
  BY <1>7 DEF vars, Inv, TypeOK, EntriesOK, InQueue, HeldOK, RetryOK, AckOK, Accounted, Settled,
       Sent, GroupOK, NoMailVanishes, Queued
<1>. QED BY <1>1, <1>2, <1>3, <1>4, <1>5, <1>6, <1>7 DEF Next

(* The inductive invariant holds in every reachable state. *)
LEMMA Invariance == Spec => []Inv
  BY InitInv, NextInv, PTL DEF Spec

(* Type correctness of Email; in particular no entry has a retry count      *)
(* above MaxRetries, whichever commands fail.  The attempts to send a mail  *)
(* are not bounded by this.                                                 *)
THEOREM TypeCorrect == Spec => []TypeOK
<1>1. Inv => TypeOK
  BY DEF Inv
<1>. QED BY <1>1, Invariance, PTL

(* No mail vanishes between EnqueueEmail and a send, a dead letter or a     *)
(* drop, whatever fails and however many workers share the group, unless    *)
(* MAXLEN cuts off one of its entries or it was added before the group.     *)
THEOREM MailsDoNotVanish == Spec => []NoMailVanishes
<1>1. Inv => NoMailVanishes
  BY DEF Inv
<1>. QED BY <1>1, Invariance, PTL

-----------------------------------------------------------------------------
(* Duplicates.  A copy of a mail is an entry that will be delivered without *)
(* a fault, or one that a goroutine has taken and will still try to send.   *)

Nobody == CHOOSE x : x \notin Proc

(* The entry waits for a reader, or for a claim nobody can object to. *)
Waits(e) == entry[e].st = "new" \/ (entry[e].st = "pending" /\ ~Held(e))

(* The goroutine has not got to e yet, or is about to try it (again). *)
Carries(p, e) ==
  \/ e \in proc[p].batch
  \/ e = proc[p].cur /\ proc[p].pc \in {"send", "retry"}

IsCopy(m, o, e) ==
  /\ entry[e].mail = m
  /\ (o = Nobody /\ Waits(e)) \/ (o \in Proc /\ Carries(o, e))

Copies(m) == {x \in (Proc \cup {Nobody}) \X Entry : IsCopy(m, x[1], x[2])}

Allowed(m) == (IF m \in started THEN 1 ELSE 0) + 2 * faults

(* The sends of a mail and its copies are bounded together. *)
CopiesOK == \A m \in Mail : sends[m] + Cardinality(Copies(m)) <= Allowed(m)

BatchOK == \A p \in Proc : proc[p].cur \notin proc[p].batch

DupInv == Inv /\ BatchOK /\ CopiesOK

LEMMA NobodyIsNoProc == Nobody \notin Proc
<1>1. \E x : x \notin Proc
  BY NoSetContainsEverything
<1>. QED BY <1>1 DEF Nobody

LEMMA CopiesFinite == ASSUME NEW m PROVE IsFiniteSet(Copies(m)) /\ Cardinality(Copies(m)) \in Nat
<1>1. IsFiniteSet({"main", "claim"})
  <2>1. IsFiniteSet({"main"}) /\ {"main", "claim"} = {"main"} \cup {"claim"}
    BY FS_Singleton
  <2>. QED BY <2>1, FS_AddElement
<1>2. IsFiniteSet(Proc)
  BY <1>1, FS_Product, FiniteAssumption DEF Proc
<1>3. IsFiniteSet(Proc \cup {Nobody})
  BY <1>2, FS_AddElement
<1>4. IsFiniteSet((Proc \cup {Nobody}) \X Entry)
  BY <1>3, FS_Product, FiniteAssumption
<1>5. Copies(m) \in SUBSET ((Proc \cup {Nobody}) \X Entry)
  BY DEF Copies
<1>. QED BY <1>4, <1>5, FS_Subset, FS_CardinalityType

(* Counting: at most one element more, one less, one replaced, and all of   *)
(* them moved somewhere else.                                               *)
LEMMA OneMore ==
  ASSUME NEW A, IsFiniteSet(A), NEW B, NEW x, B \subseteq A \cup {x}
  PROVE  IsFiniteSet(B) /\ Cardinality(B) \in Nat /\ Cardinality(B) <= Cardinality(A) + 1
<1>1. IsFiniteSet(A \cup {x}) /\ Cardinality(A) \in Nat
      /\ (Cardinality(A \cup {x}) = Cardinality(A) \/ Cardinality(A \cup {x}) = Cardinality(A) + 1)
  BY FS_AddElement, FS_CardinalityType
<1>2. IsFiniteSet(B) /\ Cardinality(B) <= Cardinality(A \cup {x})
  BY <1>1, FS_Subset
<1>3. Cardinality(B) \in Nat
  BY <1>2, FS_CardinalityType
<1>. QED BY <1>1, <1>2, <1>3

LEMMA OneLess ==
  ASSUME NEW A, IsFiniteSet(A), NEW B, NEW x \in A, B \subseteq A \ {x}
  PROVE  IsFiniteSet(B) /\ Cardinality(B) \in Nat /\ Cardinality(B) + 1 <= Cardinality(A)
<1>1. IsFiniteSet(A \ {x}) /\ Cardinality(A) \in Nat /\ Cardinality(A \ {x}) = Cardinality(A) - 1
  BY FS_RemoveElement, FS_CardinalityType
<1>2. IsFiniteSet(B) /\ Cardinality(B) <= Cardinality(A \ {x})
  BY <1>1, FS_Subset
<1>3. Cardinality(B) \in Nat
  BY <1>2, FS_CardinalityType
<1>. QED BY <1>1, <1>2, <1>3

LEMMA OneReplaced ==
  ASSUME NEW A, IsFiniteSet(A), NEW B, NEW x \in A, NEW y, B \subseteq (A \ {x}) \cup {y}
  PROVE  IsFiniteSet(B) /\ Cardinality(B) \in Nat /\ Cardinality(B) <= Cardinality(A)
<1>1. IsFiniteSet(A \ {x}) /\ Cardinality(A) \in Nat /\ Cardinality(A \ {x}) = Cardinality(A) - 1
  BY FS_RemoveElement, FS_CardinalityType
<1>2. IsFiniteSet(B) /\ Cardinality(B) \in Nat /\ Cardinality(B) <= Cardinality(A \ {x}) + 1
  BY <1>1, OneMore
<1>. QED BY <1>1, <1>2

LEMMA AllMoved ==
  ASSUME NEW A, IsFiniteSet(A), NEW B, NEW f, \A b \in B : \E a \in A : b = f[a]
  PROVE  IsFiniteSet(B) /\ Cardinality(B) \in Nat /\ Cardinality(B) <= Cardinality(A)
<1> DEFINE g == [a \in A |-> f[a]]
           T == {f[a] : a \in A}
<1>1. g \in Surjection(A, T)
  BY DEF Surjection
<1>2. IsFiniteSet(T) /\ Cardinality(T) <= Cardinality(A)
  <2> HIDE DEF g, T
  <2>. QED BY <1>1, FS_Surjection
<1>3. B \in SUBSET T
  OBVIOUS
<1>4. IsFiniteSet(B) /\ Cardinality(B) <= Cardinality(T)
  BY <1>2, <1>3, FS_Subset
<1>5. Cardinality(A) \in Nat /\ Cardinality(B) \in Nat /\ Cardinality(T) \in Nat
  BY <1>2, <1>4, FS_CardinalityType
<1>. QED BY <1>2, <1>4, <1>5

(* The same for the copies of a mail in a step. *)
LEMMA CopiesStay ==
  ASSUME NEW m, \A o \in Proc \cup {Nobody}, e \in Entry : IsCopy(m, o, e)' => IsCopy(m, o, e)
  PROVE  Cardinality(Copies(m)') \in Nat /\ Cardinality(Copies(m)') <= Cardinality(Copies(m))
<1>1. Copies(m)' \in SUBSET Copies(m)
  BY DEF Copies
<1>. QED BY <1>1, CopiesFinite, FS_Subset, FS_CardinalityType

LEMMA CopyAdded ==
  ASSUME NEW m, NEW q \in Proc \cup {Nobody}, NEW c \in Entry,
         \A o \in Proc \cup {Nobody}, e \in Entry :
           IsCopy(m, o, e)' => IsCopy(m, o, e) \/ (o = q /\ e = c)
  PROVE  Cardinality(Copies(m)') \in Nat /\ Cardinality(Copies(m)') <= Cardinality(Copies(m)) + 1
<1>1. Copies(m)' \subseteq Copies(m) \cup {<<q, c>>}
  BY DEF Copies
<1>. QED BY <1>1, CopiesFinite, OneMore

LEMMA CopyUsed ==
  ASSUME NEW m, NEW p \in Proc, NEW c \in Entry, IsCopy(m, p, c),
         \A o \in Proc \cup {Nobody}, e \in Entry :
           IsCopy(m, o, e)' => IsCopy(m, o, e) /\ ~(o = p /\ e = c)
  PROVE  Cardinality(Copies(m)') \in Nat /\ Cardinality(Copies(m)') + 1 <= Cardinality(Copies(m))
<1>1. Copies(m)' \subseteq Copies(m) \ {<<p, c>>} /\ <<p, c>> \in Copies(m)
  BY DEF Copies
<1>. QED BY <1>1, CopiesFinite, OneLess

LEMMA CopyReplaced ==
  ASSUME NEW m, NEW p \in Proc, NEW c \in Entry, IsCopy(m, p, c), NEW a \in Entry,
         \A o \in Proc \cup {Nobody}, e \in Entry :
           IsCopy(m, o, e)' => \/ IsCopy(m, o, e) /\ ~(o = p /\ e = c)
                               \/ o = Nobody /\ e = a
  PROVE  Cardinality(Copies(m)') \in Nat /\ Cardinality(Copies(m)') <= Cardinality(Copies(m))
<1>1. Copies(m)' \subseteq (Copies(m) \ {<<p, c>>}) \cup {<<Nobody, a>>} /\ <<p, c>> \in Copies(m)
  BY DEF Copies
<1>. QED BY <1>1, CopiesFinite, OneReplaced

(* What a goroutine carries when it moves on with its entry ... *)
LEMMA AfterGoto ==
  ASSUME Inv, BatchOK, NEW p \in Proc, NEW pc, Goto(p, pc)
  PROVE  /\ BatchOK'
         /\ \A e \in Entry : Held(e)' <=> Held(e)
         /\ \A o \in Proc, e \in Entry : o # p => (Carries(o, e)' <=> Carries(o, e))
         /\ \A e \in Entry : Carries(p, e)' <=> \/ e \in proc[p].batch
                                                \/ e = proc[p].cur /\ pc \in {"send", "retry"}
<1>1. proc \in [Proc -> ProcType]
  BY DEF Inv, TypeOK, ProcType
<1>2. /\ proc'[p].pc = pc /\ proc'[p].cur = proc[p].cur /\ proc'[p].batch = proc[p].batch
      /\ \A o \in Proc : o # p => proc'[o] = proc[o]
  BY <1>1 DEF Goto, ProcType
<1>3. \A o \in Proc : proc'[o].cur = proc[o].cur /\ proc'[o].batch = proc[o].batch
  BY <1>2
<1>4. BatchOK' /\ \A e \in Entry : Held(e)' <=> Held(e)
  BY <1>3 DEF BatchOK, Held
<1>5. \A o \in Proc, e \in Entry : o # p => (Carries(o, e)' <=> Carries(o, e))
  BY <1>2 DEF Carries
<1>6. \A e \in Entry : Carries(p, e)' <=> \/ e \in proc[p].batch
                                          \/ e = proc[p].cur /\ pc \in {"send", "retry"}
  BY <1>2 DEF Carries
<1>. QED BY <1>4, <1>5, <1>6

(* ... and when it leaves it. *)
LEMMA AfterNext1 ==
  ASSUME Inv, BatchOK, NEW p \in Proc, Next1(p)
  PROVE  /\ BatchOK'
         /\ \A e \in Entry : e # proc[p].cur => (Held(e)' <=> Held(e))
         /\ \A o \in Proc, e \in Entry : o # p => (Carries(o, e)' <=> Carries(o, e))
         /\ \A e \in Entry : Carries(p, e)' <=> e \in proc[p].batch
<1>1. proc \in [Proc -> ProcType] /\ proc[p].batch \subseteq Entry
  BY DEF Inv, TypeOK, ProcType
<1>2. /\ proc'[p].cur \notin proc'[p].batch
      /\ \A e \in Entry : (e = proc'[p].cur \/ e \in proc'[p].batch) <=> e \in proc[p].batch
      /\ \A o \in Proc : o # p => proc'[o] = proc[o]
      /\ \A e \in Entry : Carries(p, e)' <=> e \in proc[p].batch
  <2>1. CASE proc[p].batch = {}
    <3>1. proc' = [proc EXCEPT ![p] = Idle]
      BY <2>1 DEF Next1
    <3>2. /\ proc'[p].cur = None /\ proc'[p].batch = {}
          /\ \A o \in Proc : o # p => proc'[o] = proc[o]
      BY <1>1, <3>1 DEF Idle
    <3>. QED BY <2>1, <3>2 DEF Carries
  <2>2. CASE proc[p].batch # {}
    <3>1. PICK e \in proc[p].batch :
            proc' = [proc EXCEPT ![p] = [pc |-> "send", cur |-> e, batch |-> @.batch \ {e}]]
      BY <2>2 DEF Next1
    <3>2. /\ proc'[p].cur = e /\ proc'[p].batch = proc[p].batch \ {e} /\ proc'[p].pc = "send"
          /\ \A o \in Proc : o # p => proc'[o] = proc[o]
      BY <1>1, <3>1
    <3>. QED BY <1>1, <3>2 DEF Carries
  <2>. QED BY <2>1, <2>2
<1>3. BatchOK'
  BY <1>2 DEF BatchOK
<1>4. ASSUME NEW e \in Entry, e # proc[p].cur PROVE Held(e)' <=> Held(e)
  <2>1. \A o \in Proc : (proc'[o].cur = e \/ e \in proc'[o].batch)
                        <=> (proc[o].cur = e \/ e \in proc[o].batch)
    BY <1>2, <1>4
  <2>. QED BY <2>1 DEF Held
<1>5. \A o \in Proc, e \in Entry : o # p => (Carries(o, e)' <=> Carries(o, e))
  BY <1>2 DEF Carries
<1>. QED BY <1>2, <1>3, <1>4, <1>5

(* The steps of processMessage: a send uses up a copy, a retry replaces it, *)
(* and only a fault leaves one behind.                                      *)
LEMMA ProcCopies ==
  ASSUME DupInv, NEW p \in Proc, ProcStep(p)
  PROVE  BatchOK' /\ CopiesOK'
<1> USE NobodyIsNoProc
<1> DEFINE c == proc[p].cur
           k == entry[proc[p].cur].mail
<1>0. Inv /\ BatchOK
  BY DEF DupInv
<1>1. /\ proc \in [Proc -> ProcType] /\ entry \in [Entry -> EntryType] /\ started \subseteq Mail
      /\ sends \in [Mail -> Nat] /\ faults \in 0 .. MaxFaults
  BY <1>0 DEF Inv, TypeOK, ProcType, EntryType
<1>2. c \in Entry /\ k \in Mail /\ c \notin proc[p].batch
  BY <1>0, <1>1 DEF ProcStep, InvalidPayload, sendEmail, SendFails, AnswerLost, reenqueueWithBackoff,
       moveToDeadLetter, DeadLetterPermanent, XAck, Sendable, Inv, HeldOK, BatchOK
<1>3. started' = started /\ (faults' = faults \/ faults' = faults + 1)
  BY DEF ProcStep, InvalidPayload, sendEmail, SendFails, AnswerLost, reenqueueWithBackoff,
       moveToDeadLetter, DeadLetterPermanent, XAck, Fault
<1>4. \A m \in Mail : /\ sends[m] \in Nat /\ Cardinality(Copies(m)) \in Nat
                      /\ sends[m] + Cardinality(Copies(m)) <= Allowed(m)
  BY <1>1, CopiesFinite DEF DupInv, CopiesOK
<1>5. ASSUME NEW pc, Goto(p, pc), UNCHANGED entry,
             pc = "retry" => proc[p].pc \in {"send", "retry"}, pc # "send"
      PROVE  /\ BatchOK'
             /\ \A m \in Mail, o \in Proc \cup {Nobody}, e \in Entry :
                  IsCopy(m, o, e)' => IsCopy(m, o, e) /\ (pc # "retry" => ~(o = p /\ e = c))
  <2>1. /\ BatchOK'
        /\ \A e \in Entry : Held(e)' <=> Held(e)
        /\ \A o \in Proc, e \in Entry : o # p => (Carries(o, e)' <=> Carries(o, e))
        /\ \A e \in Entry : Carries(p, e)' <=> \/ e \in proc[p].batch
                                               \/ e = c /\ pc \in {"send", "retry"}
    BY <1>0, <1>5, AfterGoto
  <2>2. \A e \in Entry : Waits(e)' => Waits(e)
    BY <1>5, <2>1 DEF Waits
  <2>3. \A e \in Entry : Carries(p, e)' => Carries(p, e) /\ (pc # "retry" => e # c)
    BY <1>2, <1>5, <2>1 DEF Carries
  <2>. QED BY <1>5, <2>1, <2>2, <2>3 DEF IsCopy
<1>6. ASSUME Next1(p), faults' = faults + 1, UNCHANGED <<entry, sends>>
      PROVE  BatchOK' /\ CopiesOK'
  <2>1. /\ BatchOK'
        /\ \A e \in Entry : e # c => (Held(e)' <=> Held(e))
        /\ \A o \in Proc, e \in Entry : o # p => (Carries(o, e)' <=> Carries(o, e))
        /\ \A e \in Entry : Carries(p, e)' <=> e \in proc[p].batch
    BY <1>0, <1>6, AfterNext1
  <2>2. \A e \in Entry : e # c /\ Waits(e)' => Waits(e)
    BY <1>6, <2>1 DEF Waits
  <2>3. \A o \in Proc, e \in Entry : Carries(o, e)' => Carries(o, e)
    BY <2>1 DEF Carries
  <2>4. \A m \in Mail, o \in Proc \cup {Nobody}, e \in Entry :
           IsCopy(m, o, e)' => IsCopy(m, o, e) \/ (o = Nobody /\ e = c)
    BY <1>6, <2>2, <2>3 DEF IsCopy
  <2>5. \A m \in Mail : /\ Cardinality(Copies(m)') \in Nat
                        /\ Cardinality(Copies(m)') <= Cardinality(Copies(m)) + 1
    BY <1>2, <2>4, CopyAdded
  <2>. QED BY <1>1, <1>3, <1>4, <1>6, <2>1, <2>5 DEF CopiesOK, Allowed
<1>7. CASE InvalidPayload(p) \/ SendFails(p) \/ DeadLetterPermanent(p) \/ AnswerLost(p)
           \/ (moveToDeadLetter(p) /\ Goto(p, "ack"))
  <2>1. PICK pc \in {"ack", "retry", "deadLetter", "deadPermanent"} :
           /\ Goto(p, pc) /\ UNCHANGED entry
           /\ pc = "retry" => proc[p].pc = "send"
    BY <1>7 DEF InvalidPayload, SendFails, DeadLetterPermanent, AnswerLost, moveToDeadLetter,
         handleRetry, Sendable
  <2>2. BatchOK' /\ \A m \in Mail, o \in Proc \cup {Nobody}, e \in Entry :
                       IsCopy(m, o, e)' => IsCopy(m, o, e)
    BY <1>5, <2>1
  <2>3. \A m \in Mail : /\ Cardinality(Copies(m)') \in Nat
                        /\ Cardinality(Copies(m)') <= Cardinality(Copies(m))
    BY <2>2, CopiesStay
  <2>4. \/ sends' = sends
        \/ faults' = faults + 1 /\ sends' = [sends EXCEPT ![k] = @ + 1]
    BY <1>7 DEF InvalidPayload, SendFails, DeadLetterPermanent, AnswerLost, moveToDeadLetter, Fault
  <2>5. \A m \in Mail : sends'[m] = sends[m] \/ (sends'[m] = sends[m] + 1 /\ faults' = faults + 1)
    BY <1>1, <1>2, <2>4
  <2>. QED BY <1>1, <1>3, <1>4, <2>2, <2>3, <2>5 DEF CopiesOK, Allowed
<1>8. CASE sendEmail(p)
  <2>1. Goto(p, "ack") /\ UNCHANGED <<entry, faults>> /\ sends' = [sends EXCEPT ![k] = @ + 1]
        /\ proc[p].pc = "send"
    BY <1>8 DEF sendEmail, Sendable
  <2>2. BatchOK' /\ \A m \in Mail, o \in Proc \cup {Nobody}, e \in Entry :
                       IsCopy(m, o, e)' => IsCopy(m, o, e) /\ ~(o = p /\ e = c)
    BY <1>5, <2>1
  <2>3. ASSUME NEW m \in Mail
        PROVE  sends'[m] + Cardinality(Copies(m)') <= Allowed(m)'
    <3>1. CASE m = k
      <4>1. IsCopy(m, p, c)
        BY <1>2, <2>1, <3>1 DEF IsCopy, Carries
      <4>2. Cardinality(Copies(m)') \in Nat /\ Cardinality(Copies(m)') + 1 <= Cardinality(Copies(m))
        BY <1>2, <2>2, <4>1, CopyUsed
      <4>3. sends'[m] = sends[m] + 1
        BY <1>1, <1>2, <2>1, <3>1
      <4>. QED BY <1>1, <1>3, <1>4, <2>1, <4>2, <4>3 DEF Allowed
    <3>2. CASE m # k
      <4>1. Cardinality(Copies(m)') \in Nat /\ Cardinality(Copies(m)') <= Cardinality(Copies(m))
        BY <2>2, CopiesStay
      <4>2. sends'[m] = sends[m]
        BY <1>1, <1>2, <2>1, <3>2
      <4>. QED BY <1>1, <1>3, <1>4, <2>1, <4>1, <4>2 DEF Allowed
    <3>. QED BY <3>1, <3>2
  <2>. QED BY <2>2, <2>3 DEF CopiesOK
<1>9. CASE reenqueueWithBackoff(p) /\ XAdd(k, entry[c].retries + 1) /\ Goto(p, "ack") /\ UNCHANGED faults
  <2>1. proc[p].pc = "retry" /\ UNCHANGED sends
    BY <1>9 DEF reenqueueWithBackoff
  <2>2. entry[c].retries + 1 \in 0 .. MaxRetries
    BY <1>0, <1>1, <1>2, <2>1 DEF Inv, RetryOK, EntryType
  <2>3. PICK a \in Entry :
          /\ \A o \in Proc : proc[o].cur # a /\ a \notin proc[o].batch
          /\ entry'[a].mail = k
          /\ \A e \in Entry : e # a => entry'[e].mail = entry[e].mail
          /\ \A e \in Entry : e # a => entry'[e].st = entry[e].st \/ entry'[e].st = "gone"
    BY <1>0, <1>2, <1>9, <2>2, XAddWrites
  <2>4. a # c /\ ~Held(a)
    BY <2>3 DEF Held
  <2>5. /\ BatchOK'
        /\ \A e \in Entry : Held(e)' <=> Held(e)
        /\ \A o \in Proc, e \in Entry : o # p => (Carries(o, e)' <=> Carries(o, e))
        /\ \A e \in Entry : Carries(p, e)' <=> e \in proc[p].batch
    BY <1>0, <1>9, AfterGoto
  <2>6. \A o \in Proc, e \in Entry : Carries(o, e)' => Carries(o, e) /\ e # a /\ ~(o = p /\ e = c)
    BY <1>2, <2>3, <2>4, <2>5 DEF Carries, Held
  <2>7. \A e \in Entry : e # a /\ Waits(e)' => Waits(e)
    BY <2>3, <2>5 DEF Waits
  <2>8. \A m \in Mail, o \in Proc \cup {Nobody}, e \in Entry :
          IsCopy(m, o, e)' => \/ IsCopy(m, o, e) /\ ~(o = p /\ e = c)
                              \/ m = k /\ o = Nobody /\ e = a
    <3>1. \A e \in Entry : e # a => entry'[e].mail = entry[e].mail
      BY <2>3
    <3>2. entry'[a].mail = k
      BY <2>3
    <3>. QED BY <2>6, <2>7, <3>1, <3>2 DEF IsCopy
  <2>9. ASSUME NEW m \in Mail
        PROVE  Cardinality(Copies(m)') \in Nat /\ Cardinality(Copies(m)') <= Cardinality(Copies(m))
    <3>1. CASE m = k
      <4>1. IsCopy(m, p, c)
        BY <1>2, <2>1, <3>1 DEF IsCopy, Carries
      <4>. QED BY <1>2, <2>3, <2>8, <4>1, CopyReplaced
    <3>2. CASE m # k
      BY <2>8, <3>2, CopiesStay
    <3>. QED BY <3>1, <3>2
  <2>. QED BY <1>1, <1>3, <1>4, <1>9, <2>1, <2>5, <2>9 DEF CopiesOK, Allowed
<1>10. CASE XAck(p) /\ UNCHANGED faults /\ entry' = [entry EXCEPT ![c].st = "gone"]
  <2>1. Next1(p) /\ UNCHANGED sends
    BY <1>10 DEF XAck
  <2>2. /\ BatchOK'
        /\ \A e \in Entry : e # c => (Held(e)' <=> Held(e))
        /\ \A o \in Proc, e \in Entry : o # p => (Carries(o, e)' <=> Carries(o, e))
        /\ \A e \in Entry : Carries(p, e)' <=> e \in proc[p].batch
    BY <1>0, <2>1, AfterNext1
  <2>3. /\ entry'[c].st = "gone" /\ \A e \in Entry : e # c => entry'[e] = entry[e]
        /\ \A e \in Entry : entry'[e].mail = entry[e].mail
    BY <1>1, <1>2, <1>10 DEF EntryType
  <2>4. \A e \in Entry : Waits(e)' => Waits(e)
    BY <2>2, <2>3 DEF Waits
  <2>5. \A o \in Proc, e \in Entry : Carries(o, e)' => Carries(o, e)
    BY <2>2 DEF Carries
  <2>6. \A m \in Mail, o \in Proc \cup {Nobody}, e \in Entry : IsCopy(m, o, e)' => IsCopy(m, o, e)
    BY <2>3, <2>4, <2>5 DEF IsCopy
  <2>7. \A m \in Mail : /\ Cardinality(Copies(m)') \in Nat
                        /\ Cardinality(Copies(m)') <= Cardinality(Copies(m))
    BY <2>6, CopiesStay
  <2>. QED BY <1>1, <1>3, <1>4, <1>10, <2>1, <2>2, <2>7 DEF CopiesOK, Allowed
<1>11. CASE /\ reenqueueWithBackoff(p) \/ moveToDeadLetter(p) \/ XAck(p)
            /\ Next1(p) /\ Fault /\ UNCHANGED <<entry, sends>>
  BY <1>6, <1>11 DEF Fault
<1>. QED BY <1>7, <1>8, <1>9, <1>10, <1>11
       DEF ProcStep, reenqueueWithBackoff, moveToDeadLetter, XAck

(* A mail is enqueued once. *)
LEMMA EnqueuedCopies == ASSUME DupInv, NEW k \in Mail, EnqueueEmail(k) PROVE BatchOK' /\ CopiesOK'
<1> USE NobodyIsNoProc
<1>1. /\ entry \in [Entry -> EntryType] /\ sends \in [Mail -> Nat] /\ faults \in 0 .. MaxFaults
  BY DEF DupInv, Inv, TypeOK, EntryType
<1>2. Inv /\ XAdd(k, 0) /\ 0 \in 0 .. MaxRetries
  BY DEF EnqueueEmail, DupInv
<1>3. PICK a \in Entry :
        /\ \A o \in Proc : proc[o].cur # a /\ a \notin proc[o].batch
        /\ entry'[a].mail = k
        /\ \A e \in Entry : e # a => entry'[e].mail = entry[e].mail
        /\ \A e \in Entry : e # a => entry'[e].st = entry[e].st \/ entry'[e].st = "gone"
  BY <1>2, XAddWrites
<1>4. /\ UNCHANGED <<proc, sends, faults>> /\ k \notin started /\ started' = started \cup {k}
  BY DEF EnqueueEmail
<1>5. \A o \in Proc, e \in Entry : Carries(o, e)' => Carries(o, e) /\ e # a
  BY <1>3, <1>4 DEF Carries, Held
<1>6. \A e \in Entry : e # a /\ Waits(e)' => Waits(e)
  BY <1>3, <1>4 DEF Waits, Held
<1>7. \A m \in Mail, o \in Proc \cup {Nobody}, e \in Entry :
        IsCopy(m, o, e)' => IsCopy(m, o, e) \/ (m = k /\ o = Nobody /\ e = a)
  <2>1. \A e \in Entry : e # a => entry'[e].mail = entry[e].mail
    BY <1>3
  <2>2. entry'[a].mail = k
    BY <1>3
  <2>. QED BY <1>5, <1>6, <2>1, <2>2 DEF IsCopy
<1>8. BatchOK'
  BY <1>4 DEF DupInv, BatchOK
<1>9. ASSUME NEW m \in Mail PROVE sends'[m] + Cardinality(Copies(m)') <= Allowed(m)'
  <2>1. /\ sends[m] \in Nat /\ Cardinality(Copies(m)) \in Nat
        /\ sends[m] + Cardinality(Copies(m)) <= Allowed(m)
    BY <1>1, CopiesFinite DEF DupInv, CopiesOK
  <2>2. CASE m = k
    <3>1. Cardinality(Copies(m)') \in Nat /\ Cardinality(Copies(m)') <= Cardinality(Copies(m)) + 1
      BY <1>3, <1>7, CopyAdded
    <3>2. Allowed(m)' = Allowed(m) + 1 /\ Allowed(m) \in Nat
      BY <1>1, <1>4, <2>2 DEF Allowed
    <3>. QED BY <1>4, <2>1, <3>1, <3>2
  <2>3. CASE m # k
    <3>1. Cardinality(Copies(m)') \in Nat /\ Cardinality(Copies(m)') <= Cardinality(Copies(m))
      BY <1>7, <2>3, CopiesStay
    <3>2. Allowed(m)' = Allowed(m) /\ Allowed(m) \in Nat
      BY <1>1, <1>4, <2>3 DEF Allowed
    <3>. QED BY <1>4, <2>1, <3>1, <3>2
  <2>. QED BY <2>2, <2>3
<1>. QED BY <1>8, <1>9 DEF CopiesOK

(* What was added before the group is never delivered. *)
LEMMA GroupCopies == ASSUME DupInv, XGroupCreate PROVE BatchOK' /\ CopiesOK'
<1>1. /\ entry \in [Entry -> EntryType] /\ sends \in [Mail -> Nat] /\ faults \in 0 .. MaxFaults
  BY DEF DupInv, Inv, TypeOK, EntryType
<1>2. /\ UNCHANGED <<proc, sends, faults, started>>
      /\ \A e \in Entry : entry'[e].mail = entry[e].mail /\ entry'[e].st = "gone"
  BY <1>1 DEF XGroupCreate, EntryType
<1>3. BatchOK' /\ \A o \in Proc, e \in Entry : Carries(o, e)' => Carries(o, e)
  BY <1>2 DEF Carries, DupInv, BatchOK
<1>4. \A m \in Mail, o \in Proc \cup {Nobody}, e \in Entry : IsCopy(m, o, e)' => IsCopy(m, o, e)
  BY <1>2, <1>3 DEF IsCopy, Waits
<1>5. \A m \in Mail : /\ Cardinality(Copies(m)') \in Nat
                      /\ Cardinality(Copies(m)') <= Cardinality(Copies(m))
  BY <1>4, CopiesStay
<1>6. \A m \in Mail : /\ sends[m] \in Nat /\ Cardinality(Copies(m)) \in Nat
                      /\ sends[m] + Cardinality(Copies(m)) <= Allowed(m)
  BY <1>1, CopiesFinite DEF DupInv, CopiesOK
<1>. QED BY <1>1, <1>2, <1>3, <1>5, <1>6 DEF CopiesOK, Allowed

(* What a goroutine carries after it was handed entries. *)
LEMMA AfterFetch ==
  ASSUME Inv, BatchOK, NEW p \in Proc, proc[p].pc = "idle", NEW E \in SUBSET Entry, Fetch(p, E)
  PROVE  /\ BatchOK'
         /\ \A e \in Entry : Held(e)' <=> Held(e) \/ e \in E
         /\ \A o \in Proc, e \in Entry : o # p => (Carries(o, e)' <=> Carries(o, e))
         /\ \A e \in Entry : Carries(p, e)' <=> e \in E
<1>1. proc \in [Proc -> ProcType] /\ proc[p].cur = None /\ proc[p].batch = {}
  BY DEF Inv, TypeOK, ProcType, HeldOK
<1>2. PICK c \in E : proc' = [proc EXCEPT ![p] = [pc |-> "send", cur |-> c, batch |-> E \ {c}]]
  BY DEF Fetch
<1>3. /\ proc'[p].cur = c /\ proc'[p].batch = E \ {c} /\ proc'[p].pc = "send"
      /\ \A o \in Proc : o # p => proc'[o] = proc[o]
  BY <1>1, <1>2
<1>4. BatchOK'
  BY <1>3 DEF BatchOK
<1>5. ASSUME NEW e \in Entry PROVE Held(e)' <=> Held(e) \/ e \in E
  <2>1. (proc'[p].cur = e \/ e \in proc'[p].batch) <=> e \in E
    BY <1>3
  <2>2. ~(proc[p].cur = e \/ e \in proc[p].batch)
    BY <1>1
  <2>. QED BY <1>3, <2>1, <2>2 DEF Held
<1>6. \A o \in Proc, e \in Entry : o # p => (Carries(o, e)' <=> Carries(o, e))
  BY <1>3 DEF Carries
<1>7. \A e \in Entry : Carries(p, e)' <=> e \in E
  BY <1>3 DEF Carries
<1>. QED BY <1>4, <1>5, <1>6, <1>7

(* A reader takes over the copies that waited. *)
LEMMA FetchedCopies ==
  ASSUME DupInv, NEW p \in Proc, proc[p].pc = "idle", NEW E \in SUBSET Entry, Fetch(p, E),
         \A e \in E : Waits(e),
         \A e \in Entry : /\ entry'[e].mail = entry[e].mail
                          /\ entry'[e].st = IF e \in E THEN "pending" ELSE entry[e].st,
         UNCHANGED <<started, sends, faults>>
  PROVE  BatchOK' /\ CopiesOK'
<1> USE NobodyIsNoProc
<1>1. /\ BatchOK'
      /\ \A e \in Entry : Held(e)' <=> Held(e) \/ e \in E
      /\ \A o \in Proc, e \in Entry : o # p => (Carries(o, e)' <=> Carries(o, e))
      /\ \A e \in Entry : Carries(p, e)' <=> e \in E
  BY AfterFetch DEF DupInv
<1>2. \A e \in Entry : Waits(e)' => Waits(e) /\ e \notin E
  BY <1>1 DEF Waits
<1>3. ASSUME NEW m \in Mail
      PROVE  Cardinality(Copies(m)') \in Nat /\ Cardinality(Copies(m)') <= Cardinality(Copies(m))
  <2> DEFINE f == [x \in Copies(m) |-> IF x[1] = Nobody /\ x[2] \in E THEN <<p, x[2]>> ELSE x]
  <2>1. ASSUME NEW o \in Proc \cup {Nobody}, NEW e \in Entry, IsCopy(m, o, e)'
        PROVE  \E a \in Copies(m) : <<o, e>> = f[a]
    <3>1. entry[e].mail = m
      BY <2>1 DEF IsCopy
    <3>2. CASE o = p
      <4>1. e \in E /\ <<Nobody, e>> \in Copies(m)
        BY <1>1, <2>1, <3>1, <3>2 DEF IsCopy, Copies
      <4>2. f[<<Nobody, e>>] = <<p, e>>
        BY <4>1
      <4>. QED BY <3>2, <4>1, <4>2
    <3>3. CASE o # p
      <4>1. IsCopy(m, o, e) /\ (o = Nobody => e \notin E)
        BY <1>1, <1>2, <2>1, <3>1, <3>3 DEF IsCopy
      <4>2. <<o, e>> \in Copies(m)
        BY <4>1 DEF Copies
      <4>3. f[<<o, e>>] = <<o, e>>
        BY <4>1, <4>2
      <4>. QED BY <4>2, <4>3
    <3>. QED BY <3>2, <3>3
  <2> HIDE DEF f
  <2>2. ASSUME NEW b \in Copies(m)' PROVE \E a \in Copies(m) : b = f[a]
    <3>1. PICK o \in Proc \cup {Nobody}, e \in Entry : b = <<o, e>> /\ IsCopy(m, o, e)'
      BY <2>2 DEF Copies
    <3>. QED BY <2>1, <3>1
  <2>. QED BY <2>2, AllMoved, CopiesFinite
<1>4. \A m \in Mail : /\ sends[m] \in Nat /\ Cardinality(Copies(m)) \in Nat
                      /\ sends[m] + Cardinality(Copies(m)) <= Allowed(m)
  BY CopiesFinite DEF DupInv, CopiesOK, Inv, TypeOK
<1>5. \A m \in Mail : Allowed(m)' = Allowed(m) /\ Allowed(m) \in Nat
  BY DEF Allowed, DupInv, Inv, TypeOK
<1>. QED BY <1>1, <1>3, <1>4, <1>5 DEF CopiesOK

(* XREADGROUP and XAUTOCLAIM: only a claim of what is still worked on adds  *)
(* a copy.                                                                  *)
LEMMA ReaderCopies ==
  ASSUME DupInv, NEW w \in Worker, XReadGroup(w) \/ XAutoClaim(w)
  PROVE  BatchOK' /\ CopiesOK'
<1> USE NobodyIsNoProc
<1>1. entry \in [Entry -> EntryType] /\ sends \in [Mail -> Nat] /\ faults \in 0 .. MaxFaults
  BY DEF DupInv, Inv, TypeOK, EntryType
<1>2. <<w, "main">> \in Proc /\ <<w, "claim">> \in Proc
  BY DEF Proc
<1>3. CASE XReadGroup(w)
  <2>1. PICK E \in SUBSET {e \in Entry : entry[e].st = "new"} :
          /\ Fetch(<<w, "main">>, E)
          /\ entry' = [e \in Entry |-> IF e \in E THEN [entry[e] EXCEPT !.st = "pending"]
                                                  ELSE entry[e]]
    BY <1>3 DEF XReadGroup
  <2>2. /\ E \in SUBSET Entry /\ \A e \in E : Waits(e)
        /\ \A e \in Entry : /\ entry'[e].mail = entry[e].mail
                            /\ entry'[e].st = IF e \in E THEN "pending" ELSE entry[e].st
    BY <1>1, <2>1 DEF Waits, EntryType
  <2>3. proc[<<w, "main">>].pc = "idle" /\ UNCHANGED <<started, sends, faults>>
    BY <1>3 DEF XReadGroup
  <2>. QED BY <1>2, <2>1, <2>2, <2>3, FetchedCopies
<1>4. CASE XAutoClaim(w) /\ UNCHANGED faults /\ Fetch(<<w, "claim">>, {e \in Entry : Claimable(e)})
  <2> DEFINE E == {e \in Entry : Claimable(e)}
  <2>1. proc[<<w, "claim">>].pc = "idle" /\ UNCHANGED <<entry, started, sends, faults>>
    BY <1>4 DEF XAutoClaim
  <2>2. /\ E \in SUBSET Entry /\ \A e \in E : Waits(e)
        /\ \A e \in Entry : /\ entry'[e].mail = entry[e].mail
                            /\ entry'[e].st = IF e \in E THEN "pending" ELSE entry[e].st
    BY <2>1 DEF Claimable, Waits
  <2>3. Fetch(<<w, "claim">>, E)
    BY <1>4
  <2> HIDE DEF E
  <2>. QED BY <1>2, <2>1, <2>2, <2>3, FetchedCopies
<1>5. ASSUME NEW c \in Entry, XAutoClaim(w), entry[c].st = "pending", Held(c),
             Fetch(<<w, "claim">>, {c}), Fault
      PROVE  BatchOK' /\ CopiesOK'
  <2> DEFINE p == <<w, "claim">>
  <2>1. proc[p].pc = "idle" /\ UNCHANGED <<entry, started, sends>> /\ faults' = faults + 1
    BY <1>5 DEF XAutoClaim, Fault
  <2>2. /\ BatchOK'
        /\ \A e \in Entry : Held(e)' <=> Held(e) \/ e \in {c}
        /\ \A o \in Proc, e \in Entry : o # p => (Carries(o, e)' <=> Carries(o, e))
        /\ \A e \in Entry : Carries(p, e)' <=> e \in {c}
    BY <1>2, <1>5, <2>1, AfterFetch DEF DupInv
  <2> HIDE DEF p
  <2>3. \A e \in Entry : Waits(e)' => Waits(e)
    BY <2>1, <2>2 DEF Waits
  <2>4. p \in Proc \cup {Nobody} /\
        \A m \in Mail, o \in Proc \cup {Nobody}, e \in Entry :
          IsCopy(m, o, e)' => IsCopy(m, o, e) \/ (o = p /\ e = c)
    BY <1>2, <2>1, <2>2, <2>3 DEF IsCopy, p
  <2>5. \A m \in Mail : /\ Cardinality(Copies(m)') \in Nat
                        /\ Cardinality(Copies(m)') <= Cardinality(Copies(m)) + 1
    BY <2>4, CopyAdded
  <2>6. \A m \in Mail : /\ sends[m] \in Nat /\ Cardinality(Copies(m)) \in Nat
                        /\ sends[m] + Cardinality(Copies(m)) <= Allowed(m)
    BY <1>1, CopiesFinite DEF DupInv, CopiesOK
  <2>. QED BY <1>1, <2>1, <2>2, <2>5, <2>6 DEF CopiesOK, Allowed
<1>. QED BY <1>3, <1>4, <1>5 DEF XAutoClaim

(* A crash releases what its goroutines carried, and leaves at most the two *)
(* entries behind that they were through with and had not acknowledged.     *)
LEMMA CrashCopies == ASSUME DupInv, NEW w \in Worker, Crash(w) PROVE BatchOK' /\ CopiesOK'
<1> USE NobodyIsNoProc
<1> DEFINE a1 == <<w, "main">>
           a2 == <<w, "claim">>
<1>1. sends \in [Mail -> Nat] /\ faults \in 0 .. MaxFaults /\ proc \in [Proc -> ProcType]
  BY DEF DupInv, Inv, TypeOK, ProcType
<1>2. /\ \A o \in Proc : o # a1 /\ o # a2 => proc'[o] = proc[o]
      /\ \A o \in {a1, a2} : o \in Proc /\ proc'[o].cur = None /\ proc'[o].batch = {}
  <2>1. proc' = [o \in Proc |-> IF o[1] = w THEN Idle ELSE proc[o]]
    BY DEF Crash
  <2>2. a1 \in Proc /\ a2 \in Proc /\ \A o \in Proc : o[1] = w <=> o \in {a1, a2}
    BY DEF Proc
  <2>3. \A o \in Proc : proc'[o] = IF o \in {a1, a2} THEN Idle ELSE proc[o]
    BY <2>1, <2>2
  <2> HIDE DEF a1, a2
  <2>. QED BY <2>2, <2>3 DEF Idle
<1>3. UNCHANGED <<entry, started, sends>> /\ faults' = faults + 1
  BY DEF Crash, Fault
<1> HIDE DEF a1, a2
<1>4. BatchOK'
  BY <1>1, <1>2 DEF DupInv, BatchOK
<1>5. ASSUME NEW m \in Mail
      PROVE  Cardinality(Copies(m)') \in Nat /\ Cardinality(Copies(m)') <= Cardinality(Copies(m)) + 2
  <2> DEFINE A1 == Copies(m) \cup {<<a1, proc[a1].cur>>}
             A == A1 \cup {<<a2, proc[a2].cur>>}
             f == [x \in A |-> IF x[1] \in {a1, a2} THEN <<Nobody, x[2]>> ELSE x]
  <2>1. ASSUME NEW o \in Proc \cup {Nobody}, NEW e \in Entry, IsCopy(m, o, e)'
        PROVE  \E a \in A : <<o, e>> = f[a]
    <3>1. entry[e].mail = m
      BY <1>3, <2>1 DEF IsCopy
    <3>2. CASE IsCopy(m, o, e) /\ o \notin {a1, a2}
      <4>1. <<o, e>> \in A
        BY <3>2 DEF Copies
      <4>. QED BY <3>2, <4>1
    <3>3. CASE o \in {a1, a2}
      BY ZenonT(60), <1>2, <2>1, <3>3 DEF IsCopy, Carries
    <3>4. CASE o \notin {a1, a2} /\ ~IsCopy(m, o, e)
      <4>1. o = Nobody /\ entry[e].st = "pending" /\ Held(e) /\ ~Held(e)'
        BY <1>2, <1>3, <2>1, <3>1, <3>4 DEF IsCopy, Carries, Waits
      <4>2. PICK q \in Proc : proc[q].cur = e \/ e \in proc[q].batch
        BY <4>1 DEF Held
      <4>3. q \in {a1, a2}
        BY <1>2, <4>1, <4>2 DEF Held
      <4>4. <<q, e>> \in A
        <5>1. CASE proc[q].cur = e
          BY <4>3, <5>1
        <5>2. CASE e \in proc[q].batch
          BY <3>1, <5>2 DEF Copies, IsCopy, Carries
        <5>. QED BY <4>2, <5>1, <5>2
      <4>5. f[<<q, e>>] = <<Nobody, e>>
        BY <4>3, <4>4
      <4>. QED BY <4>1, <4>4, <4>5
    <3>. QED BY <3>2, <3>3, <3>4
  <2>2. /\ IsFiniteSet(A) /\ Cardinality(A) \in Nat
        /\ Cardinality(A) <= Cardinality(Copies(m)) + 2
    <3>1. IsFiniteSet(A1) /\ Cardinality(A1) \in Nat /\ Cardinality(A1) <= Cardinality(Copies(m)) + 1
      BY CopiesFinite, OneMore
    <3> HIDE DEF A1
    <3>2. IsFiniteSet(A) /\ Cardinality(A) \in Nat /\ Cardinality(A) <= Cardinality(A1) + 1
      BY <3>1, OneMore
    <3> HIDE DEF A
    <3>. QED BY <3>1, <3>2, CopiesFinite
  <2> HIDE DEF A, f
  <2>3. ASSUME NEW b \in Copies(m)' PROVE \E a \in A : b = f[a]
    <3>1. PICK o \in Proc \cup {Nobody}, e \in Entry : b = <<o, e>> /\ IsCopy(m, o, e)'
      BY <2>3 DEF Copies
    <3>. QED BY <2>1, <3>1
  <2>4. Cardinality(Copies(m)') \in Nat /\ Cardinality(Copies(m)') <= Cardinality(A)
    BY <2>2, <2>3, AllMoved
  <2>. QED BY <2>2, <2>4, CopiesFinite
<1>6. \A m \in Mail : /\ sends[m] \in Nat /\ Cardinality(Copies(m)) \in Nat
                      /\ sends[m] + Cardinality(Copies(m)) <= Allowed(m)
  BY <1>1, CopiesFinite DEF DupInv, CopiesOK
<1>. QED BY <1>1, <1>3, <1>4, <1>5, <1>6 DEF CopiesOK, Allowed

LEMMA DupStart == Init => DupInv
<1>. SUFFICES ASSUME Init PROVE DupInv
  OBVIOUS
<1>1. \A p \in Proc : proc[p].cur = None /\ proc[p].batch = {}
  BY DEF Init, Idle
<1>2. \A e \in Entry : entry[e].st = "gone"
  BY DEF Init
<1>3. ASSUME NEW m \in Mail PROVE Copies(m) = {}
  BY <1>1, <1>2 DEF Copies, IsCopy, Carries, Waits
<1>4. \A m \in Mail : sends[m] = 0 /\ Cardinality(Copies(m)) = 0 /\ Allowed(m) = 0
  BY SMTT(40), <1>3, FS_EmptySet DEF Init, Allowed
<1>5. BatchOK /\ CopiesOK
  BY <1>1, <1>4 DEF BatchOK, CopiesOK
<1>. QED BY <1>5, InitInv DEF DupInv

LEMMA DupStep == DupInv /\ [Next]_vars => DupInv'
<1>. SUFFICES ASSUME DupInv, [Next]_vars PROVE BatchOK' /\ CopiesOK'
  BY NextInv DEF DupInv
<1>1. CASE UNCHANGED vars
  <2>1. \A m : Copies(m)' = Copies(m) /\ Allowed(m)' = Allowed(m)
    BY <1>1 DEF vars, Copies, IsCopy, Carries, Waits, Held, Allowed
  <2>. QED BY <1>1, <2>1 DEF vars, DupInv, BatchOK, CopiesOK
<1>2. ASSUME NEW m \in Mail, EnqueueEmail(m) PROVE BatchOK' /\ CopiesOK'
  BY <1>2, EnqueuedCopies
<1>3. ASSUME NEW w \in Worker, XReadGroup(w) \/ XAutoClaim(w) PROVE BatchOK' /\ CopiesOK'
  BY <1>3, ReaderCopies
<1>4. ASSUME NEW w \in Worker, Crash(w) PROVE BatchOK' /\ CopiesOK'
  BY <1>4, CrashCopies
<1>5. ASSUME NEW p \in Proc, ProcStep(p) PROVE BatchOK' /\ CopiesOK'
  BY <1>5, ProcCopies
<1>. QED BY <1>1, <1>2, <1>3, <1>4, <1>5, GroupCopies DEF Next

(* Duplicates come from faults only, for any number of workers that share   *)
(* the group: without one a mail is sent at most once.                      *)
THEOREM FewDuplicates == Spec => []DuplicatesNeedFaults
<1>1. DupInv => DuplicatesNeedFaults
  <2>. SUFFICES ASSUME DupInv, NEW m \in Mail PROVE sends[m] <= 1 + 2 * faults
    BY DEF DuplicatesNeedFaults
  <2>1. /\ sends[m] \in Nat /\ Cardinality(Copies(m)) \in Nat /\ faults \in 0 .. MaxFaults
        /\ sends[m] + Cardinality(Copies(m)) <= Allowed(m)
    BY CopiesFinite DEF DupInv, CopiesOK, Inv, TypeOK
  <2>. QED BY <2>1 DEF Allowed
<1>. QED BY <1>1, DupStart, DupStep, PTL DEF Spec

-----------------------------------------------------------------------------
(* Results.                                                                 *)

(* A game that is about to be created or recorded has a session. *)
RoomOK(r) ==
  /\ r \in RoomState
  /\ r.phase \in {"countdown", "playing"} => r.session \in Session

(* What a request to erase a user has done so far. *)
ErasureOK(a) ==
  /\ a.erasure # "none" => a.row \in {"anonymized", "deleted"}
  /\ a.erasure = "half" => a.row = "anonymized"
  /\ a.erasure = "acknowledged" => a.outbox = "anonymized"

(* Only a recorded game has results, and only of users with a row. *)
RowsOK ==
  \A s \in Session, p \in Player :
    result[s][p] # Absent =>
      session[s].status = "ended" /\ account[p].row \in {"active", "anonymized"}

ResultsInv ==
  /\ ResultsTypeOK
  /\ RoomOK(room) /\ (saved # Absent => RoomOK(saved))
  /\ \A p \in Player : ErasureOK(account[p])
  /\ RowsOK

SessionType == [status : {"none", "active", "ended"}, score : Score]

LEMMA ResultsStart == ResultsInit => ResultsInv
<1>. SUFFICES ASSUME ResultsInit PROVE ResultsInv
  OBVIOUS
<1> USE BoundAssumption
<1>1. room \in RoomState /\ room.phase = "waiting"
  BY DEF ResultsInit, RoomState, Taps, Score, NoSession
<1>2. account \in [Player -> Account] /\ \A p \in Player : account[p].erasure = "none"
  BY DEF ResultsInit, Account
<1>3. session \in [Session -> SessionType]
  BY DEF ResultsInit, SessionType, Score
<1>4. result \in [Session -> Taps] /\ \A s \in Session, p \in Player : result[s][p] = Absent
  BY DEF ResultsInit, Taps
<1>5. ResultsTypeOK
  <2>1. saved = Absent /\ issued \in 0 .. MaxGames /\ jobs \subseteq Job
        /\ retried \in 0 .. DBRetries
    BY DEF ResultsInit
  <2>. QED BY <1>1, <1>2, <1>3, <1>4, <2>1 DEF ResultsTypeOK, SessionType
<1>6. RoomOK(room) /\ saved = Absent
  BY <1>1 DEF RoomOK, ResultsInit
<1>7. \A p \in Player : ErasureOK(account[p])
  BY <1>2 DEF ErasureOK
<1>8. RowsOK
  BY <1>4 DEF RowsOK
<1>. QED BY <1>5, <1>6, <1>7, <1>8 DEF ResultsInv

(* What only concerns the room leaves the rest as it is. *)
LEMMA RoomStep ==
  ASSUME ResultsInv, NEW r, RoomOK(r), Becomes(r), issued' \in 0 .. MaxGames,
         jobs' \subseteq Job, UNCHANGED <<retried, account, session, result>>
  PROVE  ResultsInv' /\ KeepsResults
<1>1. room' = r /\ (saved' = Absent \/ RoomOK(saved'))
  BY DEF Becomes, ResultsInv
<1>2. RoomOK(room') /\ saved' \in RoomState \cup {Absent} /\ room' \in RoomState
  BY <1>1 DEF RoomOK
<1>3. ResultsTypeOK'
  BY <1>2 DEF ResultsInv, ResultsTypeOK
<1>4. RowsOK' /\ \A p \in Player : ErasureOK(account'[p])
  BY DEF ResultsInv, RowsOK
<1>5. KeepsResults
  BY DEF KeepsResults
<1>. QED BY <1>1, <1>2, <1>3, <1>4, <1>5 DEF ResultsInv, RoomOK

LEMMA RoomSteps ==
  ASSUME ResultsInv,
         \/ StartGame \/ RestartAndStart \/ handleCountdownEnd \/ EndGame
         \/ \E p \in Player : addNewPlayer(p) \/ updatePlayerStats(p)
  PROVE  ResultsInv' /\ KeepsResults
<1> USE BoundAssumption
<1>1. /\ room \in RoomState /\ RoomOK(room) /\ issued \in 0 .. MaxGames /\ jobs \subseteq Job
      /\ room.taps \in Taps
  BY DEF ResultsInv, ResultsTypeOK, RoomState
<1>2. CASE StartGame
  <2> DEFINE r == [room EXCEPT !.phase = "countdown", !.session = issued + 1, !.score = 0]
  <2>1. Becomes(r) /\ issued' \in 0 .. MaxGames /\ issued + 1 \in Session
    BY <1>1, <1>2 DEF StartGame, Session
  <2>2. r \in RoomState /\ r.session = issued + 1
    BY <1>1, <2>1 DEF RoomState, Score
  <2>3. RoomOK(r)
    BY <2>1, <2>2 DEF RoomOK
  <2> HIDE DEF r
  <2>. QED BY <1>1, <1>2, <2>1, <2>3, RoomStep DEF StartGame
<1>3. CASE RestartAndStart
  <2> DEFINE f == [p \in Player |-> IF p \in InRoom THEN 0 ELSE Absent]
             r == [phase |-> "countdown", session |-> issued + 1, score |-> 0, taps |-> f]
  <2>1. Becomes(r) /\ issued' \in 0 .. MaxGames /\ issued + 1 \in Session
    BY <1>1, <1>3 DEF RestartAndStart, Session
  <2>2. f \in Taps
    BY DEF Taps
  <2> HIDE DEF f
  <2>3. r \in RoomState /\ r.session = issued + 1
    BY <2>1, <2>2 DEF RoomState, Score
  <2>4. RoomOK(r)
    BY <2>1, <2>3 DEF RoomOK
  <2> HIDE DEF r
  <2>. QED BY <1>1, <1>3, <2>1, <2>4, RoomStep DEF RestartAndStart
<1>4. ASSUME NEW kind \in {"create", "record"}, Spawn(kind), room.phase \in {"countdown", "playing"}
      PROVE  jobs' \subseteq Job
  BY <1>1, <1>4 DEF Spawn, Job, RoomOK, RoomState
<1>5. CASE handleCountdownEnd
  <2> DEFINE r == [room EXCEPT !.phase = "playing"]
  <2>1. Becomes(r) /\ jobs' \subseteq Job /\ room.phase = "countdown"
    BY <1>4, <1>5 DEF handleCountdownEnd
  <2>2. r \in RoomState /\ r.session = room.session
    BY <1>1 DEF RoomState
  <2>3. RoomOK(r)
    BY <1>1, <2>1, <2>2 DEF RoomOK
  <2> HIDE DEF r
  <2>. QED BY <1>1, <1>5, <2>1, <2>3, RoomStep DEF handleCountdownEnd
<1>6. CASE EndGame
  <2>1. PICK phase \in {"ended", "waiting"} : Becomes([room EXCEPT !.phase = phase])
    BY <1>6 DEF EndGame
  <2> DEFINE r == [room EXCEPT !.phase = phase]
  <2>2. Becomes(r) /\ jobs' \subseteq Job
    BY <1>4, <1>6, <2>1 DEF EndGame
  <2>3. r \in RoomState /\ r.phase = phase
    BY <1>1 DEF RoomState
  <2>4. RoomOK(r)
    BY <2>3 DEF RoomOK
  <2> HIDE DEF r
  <2>. QED BY <1>1, <1>6, <2>2, <2>4, RoomStep DEF EndGame
<1>7. ASSUME NEW p \in Player, addNewPlayer(p) PROVE ResultsInv' /\ KeepsResults
  <2> DEFINE f == [room.taps EXCEPT ![p] = 0]
             ph == IF room.phase \in {"countdown", "playing"} THEN "waiting" ELSE room.phase
             r == [room EXCEPT !.taps = f, !.phase = ph]
  <2>1. Becomes(r)
    BY <1>7 DEF addNewPlayer
  <2>2. f \in Taps /\ ph \in {"waiting", "countdown", "playing", "ended"}
        /\ ph \notin {"countdown", "playing"}
    BY <1>1 DEF Taps, RoomState
  <2> HIDE DEF f, ph
  <2>3. r \in RoomState /\ r.phase = ph
    BY <1>1, <2>2 DEF RoomState
  <2>4. RoomOK(r)
    BY <2>2, <2>3 DEF RoomOK
  <2> HIDE DEF r
  <2>. QED BY <1>1, <1>7, <2>1, <2>4, RoomStep DEF addNewPlayer
<1>8. ASSUME NEW p \in Player, updatePlayerStats(p) PROVE ResultsInv' /\ KeepsResults
  <2> DEFINE f == [room.taps EXCEPT ![p] = room.taps[p] + 1]
             r == [room EXCEPT !.score = room.score + 1, !.taps = f]
  <2>1. Becomes(r)
    <3>1. [room EXCEPT !.score = room.score + 1].taps = room.taps
      BY <1>1 DEF RoomState
    <3>2. [room EXCEPT !.score = room.score + 1, !.taps[p] = room.taps[p] + 1] = r
      BY <3>1
    <3> HIDE DEF r
    <3>3. Becomes([room EXCEPT !.score = room.score + 1, !.taps[p] = room.taps[p] + 1])
      BY <1>8 DEF updatePlayerStats
    <3>. QED BY <3>2, <3>3 DEF Becomes
  <2>2. room.taps[p] \in 0 .. MaxTaps /\ room.taps[p] + 1 \in 0 .. MaxTaps
    <3>1. room.taps[p] \in 0 .. MaxTaps \cup {Absent}
      BY <1>1 DEF Taps
    <3>2. p \in InRoom /\ room.taps[p] < MaxTaps
      BY <1>8 DEF updatePlayerStats
    <3>3. room.taps[p] # Absent
      BY <3>2 DEF InRoom
    <3> HIDE DEF f, r
    <3>. QED BY <3>1, <3>2, <3>3
  <2>3. f \in Taps /\ room.score + 1 \in Nat
    BY <1>1, <2>2 DEF Taps, RoomState, Score
  <2> HIDE DEF f
  <2>4. r \in RoomState /\ r.phase = room.phase /\ r.session = room.session
    BY <1>1, <2>3 DEF RoomState, Score
  <2>5. RoomOK(r)
    BY <1>1, <2>4 DEF RoomOK
  <2> HIDE DEF r
  <2>. QED BY <1>1, <1>8, <2>1, <2>5, RoomStep DEF updatePlayerStats
<1>. QED BY <1>2, <1>3, <1>5, <1>6, <1>7, <1>8

(* A save, and a restart that loses the goroutines and brings an old room. *)
LEMMA SavedSteps ==
  ASSUME ResultsInv, SaveLobbyState \/ Restart
  PROVE  ResultsInv' /\ KeepsResults
<1> USE BoundAssumption
<1>1. RoomOK(room') /\ saved' = Absent /\ room' \in RoomState
  BY DEF SaveLobbyState, Restart, ResultsInv, RoomOK
<1>2. /\ UNCHANGED <<issued, account, session, result>>
      /\ jobs' \subseteq jobs /\ retried' \in 0 .. DBRetries
  BY DEF SaveLobbyState, Restart, ResultsInv, ResultsTypeOK
<1>3. ResultsTypeOK'
  BY <1>1, <1>2 DEF ResultsInv, ResultsTypeOK
<1>4. RowsOK' /\ \A p \in Player : ErasureOK(account'[p])
  BY <1>2 DEF ResultsInv, RowsOK
<1>5. KeepsResults
  BY <1>2 DEF KeepsResults
<1>. QED BY <1>1, <1>3, <1>4, <1>5 DEF ResultsInv, RoomOK

(* The end of an attempt, or one more of the retries. *)
LEMMA AttemptTypes ==
  ASSUME ResultsTypeOK, NEW j \in jobs, Attempted(j)
  PROVE  jobs' \subseteq Job /\ retried' \in 0 .. DBRetries
  BY BoundAssumption DEF ResultsTypeOK, Attempted

(* A row is created where there is none; a result is recorded once, and     *)
(* with it the end of its game.                                             *)
LEMMA JobSteps ==
  ASSUME ResultsInv, NEW j \in jobs,
         AttemptFails(j) \/ CreateGameSession(j) \/ RecordGameResult(j)
  PROVE  ResultsInv' /\ KeepsResults
<1> USE BoundAssumption
<1>1. /\ j \in Job /\ j.session \in Session /\ j.score \in Score /\ j.taps \in Taps
      /\ session \in [Session -> SessionType] /\ result \in [Session -> Taps]
  BY DEF ResultsInv, ResultsTypeOK, Job, SessionType
<1>2. UNCHANGED <<room, saved, issued, account>> /\ jobs' \subseteq Job /\ retried' \in 0 .. DBRetries
  <2>1. \/ Attempted(j)
        \/ jobs' = jobs \ {j} /\ UNCHANGED retried
    BY DEF AttemptFails, CreateGameSession, RecordGameResult
  <2>2. jobs' \subseteq Job /\ retried' \in 0 .. DBRetries
    BY <2>1, AttemptTypes DEF ResultsInv, ResultsTypeOK
  <2>. QED BY <2>2 DEF AttemptFails, CreateGameSession, RecordGameResult, roomVars
<1>3. /\ session' \in [Session -> SessionType] /\ result' \in [Session -> Taps]
      /\ \A s \in Session : session[s].status = "ended" => session'[s].status = "ended"
      /\ \A s \in Session, p \in Player :
           result'[s][p] # result[s][p] =>
             /\ result[s][p] = Absent /\ session'[s].status = "ended"
             /\ account[p].row \in {"active", "anonymized"}
  <2>1. CASE UNCHANGED <<session, result>>
    BY <1>1, <2>1
  <2>2. CASE /\ session[j.session].status = "none" /\ UNCHANGED result
             /\ session' = [session EXCEPT ![j.session].status = "active"]
    <3> DEFINE v == [session[j.session] EXCEPT !.status = "active"]
    <3>1. v \in SessionType
      BY <1>1 DEF SessionType
    <3>2. session' = [session EXCEPT ![j.session] = v]
      BY <2>2
    <3> HIDE DEF v
    <3>. QED BY <1>1, <2>2, <3>1, <3>2
  <2>3. CASE /\ \A p \in Recorded(j) : account[p].row \notin {"none", "deleted"}
             /\ session' = [session EXCEPT ![j.session] = [status |-> "ended", score |-> j.score]]
             /\ result' = InsertResults(j)
    <3> DEFINE v == [status |-> "ended", score |-> j.score]
               g == [p \in Player |-> IF result[j.session][p] = Absent THEN j.taps[p]
                                      ELSE result[j.session][p]]
    <3>1. v \in SessionType /\ v.status = "ended"
      BY <1>1 DEF SessionType
    <3>2. session' = [session EXCEPT ![j.session] = v]
      BY <2>3
    <3>3. result' = [result EXCEPT ![j.session] = g]
      BY <2>3 DEF InsertResults
    <3>4. /\ g \in Taps
          /\ \A p \in Player : g[p] = IF result[j.session][p] = Absent THEN j.taps[p]
                                      ELSE result[j.session][p]
      BY <1>1 DEF Taps
    <3>5. \A p \in Player : account[p].row \in {"none", "active", "anonymized", "deleted"}
      BY DEF ResultsInv, ResultsTypeOK, Account
    <3> HIDE DEF v, g
    <3>6. session' \in [Session -> SessionType] /\ result' \in [Session -> Taps]
          /\ session'[j.session].status = "ended"
          /\ \A s \in Session : s # j.session => session'[s] = session[s]
      BY <1>1, <3>1, <3>2, <3>3, <3>4
    <3>7. ASSUME NEW s \in Session, NEW p \in Player, result'[s][p] # result[s][p]
          PROVE  /\ result[s][p] = Absent /\ session'[s].status = "ended"
                 /\ account[p].row \in {"active", "anonymized"}
      <4>1. s = j.session /\ result'[s] = g
        BY <1>1, <3>3, <3>7
      <4>2. result[s][p] = Absent /\ j.taps[p] # Absent
        BY <3>4, <3>7, <4>1
      <4>. QED BY <2>3, <3>5, <3>6, <4>1, <4>2 DEF Recorded
    <3>. QED BY <3>6, <3>7
  <2>. QED BY <2>1, <2>2, <2>3 DEF AttemptFails, CreateGameSession, RecordGameResult
<1>4. ResultsTypeOK'
  BY <1>2, <1>3 DEF ResultsInv, ResultsTypeOK, SessionType
<1>5. RowsOK'
  BY <1>2, <1>3 DEF ResultsInv, RowsOK
<1>6. KeepsResults
  BY <1>3 DEF KeepsResults
<1>. QED BY <1>2, <1>4, <1>5, <1>6 DEF ResultsInv, RoomOK, ErasureOK

(* A step of one account that neither creates nor deletes results. *)
LEMMA AccountStep ==
  ASSUME ResultsInv, NEW p \in Player, NEW a \in Account, ErasureOK(a),
         account' = [account EXCEPT ![p] = a], retried' = retried,
         account[p].row \in {"active", "anonymized"} => a.row \in {"active", "anonymized"},
         UNCHANGED <<room, saved, issued, jobs, session, result>>
  PROVE  ResultsInv' /\ KeepsResults
<1>1. account \in [Player -> Account]
  BY DEF ResultsInv, ResultsTypeOK
<1>2. /\ account' \in [Player -> Account] /\ account'[p] = a
      /\ \A q \in Player \ {p} : account'[q] = account[q]
  BY <1>1
<1>3. ResultsTypeOK'
  BY <1>2 DEF ResultsInv, ResultsTypeOK
<1>4. \A q \in Player : ErasureOK(account'[q])
  BY <1>2 DEF ResultsInv
<1>5. RowsOK'
  <2>1. \A q \in Player : account[q].row \in {"active", "anonymized"} =>
                          account'[q].row \in {"active", "anonymized"}
    BY <1>2
  <2>. QED BY <2>1 DEF ResultsInv, RowsOK
<1>6. KeepsResults
  BY DEF KeepsResults
<1>. QED BY <1>3, <1>4, <1>5, <1>6 DEF ResultsInv, RoomOK

(* Users are created and anonymised, or the attempt fails. *)
LEMMA AccountSteps ==
  ASSUME ResultsInv, NEW p \in Player,
         CreateUser(p) \/ AnonymizeUser(p) \/ AnonymizeOutbox(p) \/ AnonymizeFails(p)
  PROVE  ResultsInv' /\ KeepsResults
<1>1. account \in [Player -> Account] /\ account[p] \in Account /\ ErasureOK(account[p])
  BY DEF ResultsInv, ResultsTypeOK
<1>2. CASE CreateUser(p)
  <2> DEFINE a == [account[p] EXCEPT !.row = "active", !.outbox = "personal"]
  <2>1. a \in Account /\ a.row = "active" /\ a.erasure = account[p].erasure
    BY <1>1 DEF Account
  <2>2. account[p].row = "none" /\ account' = [account EXCEPT ![p] = a]
    <3>1. account' = [account EXCEPT ![p].row = "active", ![p].outbox = "personal"]
      BY <1>2 DEF CreateUser
    <3>. QED BY <1>1, <1>2, <3>1 DEF CreateUser, Account
  <2> HIDE DEF a
  <2>3. ErasureOK(a)
    BY <1>1, <2>1, <2>2 DEF ErasureOK
  <2>. QED BY <1>2, <2>1, <2>2, <2>3, AccountStep DEF CreateUser, roomVars
<1>3. CASE AnonymizeUser(p)
  <2> DEFINE a == [account[p] EXCEPT !.row = "anonymized", !.erasure = "half"]
  <2>1. a \in Account /\ a.row = "anonymized" /\ a.erasure = "half"
    BY <1>1 DEF Account
  <2>2. account' = [account EXCEPT ![p] = a]
    BY <1>1, <1>3 DEF AnonymizeUser, Account
  <2> HIDE DEF a
  <2>3. ErasureOK(a)
    BY <2>1 DEF ErasureOK
  <2>. QED BY <1>3, <2>1, <2>2, <2>3, AccountStep DEF AnonymizeUser, roomVars
<1>4. CASE AnonymizeOutbox(p)
  <2>1. PICK answer \in {"acknowledged", "failed"} :
           account' = [account EXCEPT ![p].outbox = "anonymized", ![p].erasure = answer]
    BY <1>4 DEF AnonymizeOutbox
  <2> DEFINE a == [account[p] EXCEPT !.outbox = "anonymized", !.erasure = answer]
  <2>2. a \in Account /\ a.row = account[p].row /\ a.outbox = "anonymized" /\ a.erasure = answer
    BY <1>1 DEF Account
  <2>3. account' = [account EXCEPT ![p] = a] /\ account[p].erasure = "half"
    BY <1>1, <1>4, <2>1 DEF AnonymizeOutbox, Account
  <2> HIDE DEF a
  <2>4. ErasureOK(a)
    BY <1>1, <2>2, <2>3 DEF ErasureOK
  <2>. QED BY <1>4, <2>2, <2>3, <2>4, AccountStep DEF AnonymizeOutbox, roomVars
<1>5. CASE AnonymizeFails(p)
  <2>1. CASE account' = [account EXCEPT ![p].erasure = "failed"] /\ UNCHANGED retried
    <3> DEFINE a == [account[p] EXCEPT !.erasure = "failed"]
    <3>1. a \in Account /\ a.row = account[p].row /\ a.erasure = "failed"
      BY <1>1 DEF Account
    <3>2. account' = [account EXCEPT ![p] = a] /\ account[p].erasure = "half"
      BY <1>1, <1>5, <2>1 DEF AnonymizeFails, Account
    <3> HIDE DEF a
    <3>3. ErasureOK(a)
      BY <1>1, <3>1, <3>2 DEF ErasureOK
    <3>. QED BY <1>5, <2>1, <3>1, <3>2, <3>3, AccountStep DEF AnonymizeFails, roomVars
  <2>2. CASE retried < DBRetries /\ retried' = retried + 1 /\ UNCHANGED account
    <3>1. UNCHANGED <<room, saved, issued, jobs, account, session, result>>
      BY <1>5, <2>2 DEF AnonymizeFails, roomVars
    <3>2. retried' \in 0 .. DBRetries
      BY <2>2, BoundAssumption DEF ResultsInv, ResultsTypeOK
    <3>3. ResultsTypeOK'
      BY <3>1, <3>2 DEF ResultsInv, ResultsTypeOK
    <3>4. RowsOK' /\ KeepsResults
      BY <3>1 DEF ResultsInv, RowsOK, KeepsResults
    <3>. QED BY <3>1, <3>3, <3>4 DEF ResultsInv, RoomOK, ErasureOK
  <2>. QED BY <1>5, <2>1, <2>2 DEF AnonymizeFails
<1>. QED BY <1>2, <1>3, <1>4, <1>5

(* A user goes with all results. *)
LEMMA UserDeleted ==
  ASSUME ResultsInv, NEW p \in Player, HardDeleteExpiredUsers(p)
  PROVE  ResultsInv' /\ KeepsResults
<1>1. /\ account \in [Player -> Account] /\ account[p] \in Account /\ ErasureOK(account[p])
      /\ result \in [Session -> Taps]
      /\ account[p].row = "anonymized" /\ account[p].erasure # "half"
  BY DEF ResultsInv, ResultsTypeOK, HardDeleteExpiredUsers
<1> DEFINE a == [account[p] EXCEPT !.row = "deleted"]
<1>2. a \in Account /\ a.row = "deleted" /\ a.erasure = account[p].erasure
      /\ a.outbox = account[p].outbox
  BY <1>1 DEF Account
<1>3. account' = [account EXCEPT ![p] = a]
  BY DEF HardDeleteExpiredUsers
<1> HIDE DEF a
<1>4. /\ account' \in [Player -> Account] /\ account'[p] = a
      /\ \A q \in Player : q # p => account'[q] = account[q]
  BY <1>1, <1>2, <1>3
<1>5. /\ result' \in [Session -> Taps]
      /\ \A s \in Session : result'[s][p] = Absent
      /\ \A s \in Session, q \in Player : q # p => result'[s][q] = result[s][q]
  BY <1>1 DEF HardDeleteExpiredUsers, Taps
<1>6. UNCHANGED <<room, saved, issued, jobs, retried, session>>
  BY DEF HardDeleteExpiredUsers, roomVars
<1>7. ResultsTypeOK'
  BY <1>4, <1>5, <1>6 DEF ResultsInv, ResultsTypeOK
<1>8. \A q \in Player : ErasureOK(account'[q])
  <2>1. ErasureOK(a)
    BY <1>1, <1>2 DEF ErasureOK
  <2>. QED BY <1>4, <2>1 DEF ResultsInv
<1>9. RowsOK'
  BY <1>4, <1>5, <1>6 DEF ResultsInv, RowsOK
<1>10. KeepsResults
  BY <1>2, <1>4, <1>5, <1>6 DEF KeepsResults
<1>. QED BY <1>6, <1>7, <1>8, <1>9, <1>10 DEF ResultsInv, RoomOK, ErasureOK

LEMMA ResultsStep ==
  ResultsInv /\ [ResultsNext]_resultsVars => ResultsInv' /\ [KeepsResults]_resultsVars
<1>1. ASSUME ResultsInv, ResultsNext PROVE ResultsInv' /\ KeepsResults
  <2>1. CASE \/ StartGame \/ RestartAndStart \/ handleCountdownEnd \/ EndGame
             \/ \E p \in Player : addNewPlayer(p) \/ updatePlayerStats(p)
    BY <1>1, <2>1, RoomSteps
  <2>2. CASE SaveLobbyState \/ Restart
    BY <1>1, <2>2, SavedSteps
  <2>3. ASSUME NEW j \in jobs, AttemptFails(j) \/ CreateGameSession(j) \/ RecordGameResult(j)
        PROVE  ResultsInv' /\ KeepsResults
    BY <1>1, <2>3, JobSteps
  <2>4. ASSUME NEW p \in Player,
               CreateUser(p) \/ AnonymizeUser(p) \/ AnonymizeOutbox(p) \/ AnonymizeFails(p)
        PROVE  ResultsInv' /\ KeepsResults
    BY <1>1, <2>4, AccountSteps
  <2>5. CASE GDPRCleanup
    BY <1>1, <2>5, UserDeleted DEF GDPRCleanup
  <2>. QED BY <1>1, <2>1, <2>2, <2>3, <2>4, <2>5 DEF ResultsNext
<1>2. ASSUME ResultsInv, UNCHANGED resultsVars PROVE ResultsInv'
  BY <1>2 DEF resultsVars, roomVars, ResultsInv, ResultsTypeOK, RoomOK, ErasureOK, RowsOK
<1>. QED BY <1>1, <1>2

(* The two readers look at the same rows. *)
LEMMA ReadersSeeTheSame == ResultsInv => ReadersAgree
<1>. SUFFICES ASSUME ResultsInv PROVE ReadersAgree
  OBVIOUS
<1>1. ASSUME NEW p \in Player PROVE GetUserBestScore(p) = GetLeaderboard(p)
  <2>1. {t \in Rows(p) : session[t].status = "ended"} = Rows(p)
    BY DEF Rows, ResultsInv, RowsOK
  <2>. QED BY <2>1 DEF GetUserBestScore, GetLeaderboard
<1>2. ASSUME NEW p \in Player, account[p].row \in {"none", "deleted"} PROVE Rows(p) = {}
  BY <1>2 DEF Rows, ResultsInv, RowsOK
<1>3. ASSUME NEW p \in Player, account[p].erasure = "acknowledged"
      PROVE  AccountAnonymized(p)
  BY <1>3 DEF ResultsInv, ErasureOK, AccountAnonymized
<1>. QED BY <1>1, <1>2, <1>3 DEF ReadersAgree

(* Recorded results are final: the two readers always agree, a deleted user *)
(* leaves no result, an acknowledged erasure has overwritten both the row   *)
(* and the outbox event (not the nicknames in old results), and no step of  *)
(* any goroutine, retry or restart takes an ended game back or changes a    *)
(* recorded result.                                                         *)
THEOREM RecordedResultsAreFinal == ResultsSpec => ResultsAreFinal
<1>1. ResultsInv => ResultsTypeOK /\ ReadersAgree
  BY ReadersSeeTheSame DEF ResultsInv
<1>. QED BY <1>1, ResultsStart, ResultsStep, PTL DEF ResultsSpec, ResultsAreFinal
=============================================================================
