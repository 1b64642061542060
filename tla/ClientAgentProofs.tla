--------------------------- MODULE ClientAgentProofs ---------------------------
(***************************************************************************)
(* Theorems about ClientAgent, for every set of messages, events,          *)
(* deliveries and brokers.                                                 *)
(***************************************************************************)
EXTENDS ClientAgent, TLAPS

-------------------------------------------------------------------------------
(* Type correctness                                                        *)

LEMMA TypeInit ==
    ASSUME Init
    PROVE  TypeOK
<1> USE ConstantsAssumption DEF Init, Working, Ended
<1>1. /\ found \in [Deliveries -> BOOLEAN]
      /\ rowRead \in [Deliveries \cup Brokers -> BOOLEAN]
      /\ known \in BOOLEAN
  BY Zenon
<1>2. seen \in [Deliveries -> SUBSET Deliveries]
  OBVIOUS
<1>3. QED
  BY <1>1, <1>2 DEF TypeOK

LEMMA TypeStep ==
    ASSUME TypeOK, [Next]_vars
    PROVE  TypeOK'
<1> USE ConstantsAssumption
    DEF TypeOK, Working, Ended, inbox, person, local, broker, ghost
<1>1. ASSUME NEW d \in Deliveries, NEW e \in Events, PersistEvent(d, e)
     PROVE  TypeOK'
  BY <1>1 DEF PersistEvent, Goto
<1>2. ASSUME NEW d \in Deliveries, NEW e \in Events, AnswerDuplicate(d, e)
     PROVE  TypeOK'
  BY <1>2 DEF AnswerDuplicate, Goto
<1>3. ASSUME NEW d \in Deliveries, CheckDuplicate(d)
     PROVE  TypeOK'
  BY <1>3 DEF CheckDuplicate, Goto
<1>4. ASSUME NEW d \in Deliveries, FindContact(d)
     PROVE  TypeOK'
  BY <1>4 DEF FindContact, Goto
<1>5. ASSUME NEW d \in Deliveries, FindThread(d)
     PROVE  TypeOK'
  BY <1>5 DEF FindThread, Goto, Latest, Matching
<1>6. ASSUME NEW d \in Deliveries, OpenThread(d)
     PROVE  TypeOK'
  BY <1>6 DEF OpenThread, Goto
<1>7. ASSUME NEW d \in Deliveries, StoreInbound(d)
     PROVE  TypeOK'
  <2>1. Message(d) \in Messages
    BY <1>7 DEF StoreInbound, Goto, Message
  <2>2. QED
    BY <1>7, <2>1 DEF StoreInbound, Goto
<1>8. ASSUME NEW d \in Deliveries, TouchThread(d)
     PROVE  TypeOK'
  <2>1. clock' \in Nat /\ lastAt' \in [Deliveries -> Nat]
    <3>1. clock' \in Nat
      BY <1>8 DEF TouchThread
    <3>2. PICK t : lastAt' = [lastAt EXCEPT ![t] = clock']
      BY <1>8 DEF TouchThread
    <3>3. QED
      BY <3>1, <3>2
  <2>2. /\ pc[d] = "touching"
        /\ pc' \in [Deliveries -> {"idle"} \cup Ended \cup Working]
    BY <1>8 DEF TouchThread, Goto, Answering
  <2>3. \A k \in Deliveries : pc'[k] \in Working => pc[k] \in Working
    BY <1>8 DEF TouchThread, Goto, Answering
  <2>4. QED
    BY <1>8, <2>1, <2>2, <2>3 DEF TouchThread
<1>9. ASSUME NEW d \in Deliveries, ReadOptOut(d)
     PROVE  TypeOK'
  <2>1. rowRead' \in [Deliveries \cup Brokers -> BOOLEAN]
    BY <1>9, Zenon DEF ReadOptOut
  <2>2. QED
    BY <1>9, <2>1 DEF ReadOptOut, Goto
<1>10. ASSUME NEW d \in Deliveries, WriteOptOut(d)
     PROVE  TypeOK'
  BY <1>10 DEF WriteOptOut, Goto
<1>11. ASSUME NEW d \in Deliveries, ReadConsent(d)
     PROVE  TypeOK'
  BY <1>11 DEF ReadConsent, Goto, Answering
<1>12. ASSUME NEW d \in Deliveries, WriteOptIn(d)
     PROVE  TypeOK'
  BY <1>12 DEF WriteOptIn, Goto, Answering
<1>13. ASSUME NEW d \in Deliveries, Generate(d)
     PROVE  TypeOK'
  BY <1>13 DEF Generate, Goto, Flag
<1>14. ASSUME NEW d \in Deliveries, ReadThread(d)
     PROVE  TypeOK'
  BY <1>14 DEF ReadThread, Goto
<1>15. ASSUME NEW d \in Deliveries, CheckConsent(d)
     PROVE  TypeOK'
  BY <1>15 DEF CheckConsent, Goto
<1>16. ASSUME NEW d \in Deliveries, RecordOutbound(d)
     PROVE  TypeOK'
  BY <1>16 DEF RecordOutbound, Goto
<1>17. ASSUME NEW d \in Deliveries, Send(d)
     PROVE  TypeOK'
  <2>1. promised' \in BOOLEAN
    BY <1>17, Zenon DEF Send, Waived
  <2>2. QED
    BY <1>17, <2>1 DEF Send, Goto
<1>18. ASSUME NEW d \in Deliveries, ConfirmSent(d)
     PROVE  TypeOK'
  BY <1>18 DEF ConfirmSent, Goto
<1>19. ASSUME NEW d \in Deliveries, Fail(d)
     PROVE  TypeOK'
  BY <1>19 DEF Fail, Goto
<1>20. ASSUME NEW b \in Brokers, NEW t \in Deliveries, ReadLink(b, t)
     PROVE  TypeOK'
  BY <1>20 DEF ReadLink, BGoto
<1>21. ASSUME NEW b \in Brokers, ReadGrant(b)
     PROVE  TypeOK'
  BY <1>21 DEF ReadGrant, BGoto
<1>22. ASSUME NEW b \in Brokers, WriteGrant(b)
     PROVE  TypeOK'
  BY <1>22 DEF WriteGrant, BGoto
<1>23. ASSUME NEW b \in Brokers, Revoke(b)
     PROVE  TypeOK'
  BY <1>23 DEF Revoke
<1>24. ASSUME NEW b \in Brokers, FileNumber(b)
     PROVE  TypeOK'
  BY <1>24 DEF FileNumber, BGoto
<1>25. ASSUME NEW b \in Brokers, LinkThread(b)
     PROVE  TypeOK'
  BY <1>25 DEF LinkThread, BGoto
<1>26. ASSUME NEW t \in Deliveries, PatchThread(t)
     PROVE  TypeOK'
  BY <1>26 DEF PatchThread
<1>27. CASE UNCHANGED vars
  BY <1>27 DEF vars
<1>28. ASSUME NEW d \in Deliveries, NEW e \in Events, RefuseSignature(d, e)
     PROVE  TypeOK'
  BY <1>28 DEF RefuseSignature, Goto
<1>29. QED
  BY <1>1, <1>2, <1>3, <1>4, <1>5, <1>6, <1>7, <1>8, <1>9, <1>10,
     <1>11, <1>12, <1>13, <1>14, <1>15, <1>16, <1>17, <1>18, <1>19,
     <1>20, <1>21, <1>22, <1>23, <1>24, <1>25, <1>26, <1>27, <1>28
     DEF Next, Deliver, Broker

\* Every variable keeps its type, and a broker links a thread that exists.
THEOREM TypeCorrect == Spec => []TypeOK
<1>1. QED
  BY TypeInit, TypeStep, PTL DEF Spec

-------------------------------------------------------------------------------
(* A message is answered at most once                                      *)

\* From the insert of the inbound row on.
Later == {"touching", "readingOptOut", "optingOut", "consenting", "optingIn",
          "answering", "dispatching", "gating", "recording", "sending",
          "confirming"}

\* d stored its message, as its place or its answer show.
Stored(d) == pc[d] \in Later \/ reply[d] # "none"

\* A message is stored by one delivery: the unique index sees to it, and the
\* dedupe check of the handler does not matter.
StoreInv ==
    /\ \A d \in Deliveries :
           Stored(d) => event[d] \in Events /\ Message(d) \in inbound
    /\ \A d, k \in Deliveries :
           d # k /\ Stored(d) /\ Stored(k) => Message(d) # Message(k)
    /\ \A d \in Deliveries :
           reply[d] # "none" => pc[d] \in {"sending", "confirming", "done", "failed"}

LEMMA StoreStep ==
    ASSUME TypeOK, StoreInv, [Next]_vars
    PROVE  StoreInv'
<1> USE DEF TypeOK, StoreInv, Stored, Later, Working, Message, Goto,
        inbox, person, local, broker, ghost
<1>1. ASSUME NEW d \in Deliveries, NEW e \in Events,
             PersistEvent(d, e) \/ RefuseSignature(d, e) \/ AnswerDuplicate(d, e)
      PROVE  StoreInv'
  <2>1. CASE PersistEvent(d, e)
    BY <2>1 DEF PersistEvent
  <2>2. CASE AnswerDuplicate(d, e)
    BY <2>2 DEF AnswerDuplicate
  <2>3. CASE RefuseSignature(d, e)
    BY <2>3 DEF RefuseSignature
  <2>4. QED
    BY <1>1, <2>1, <2>2, <2>3
<1>2. ASSUME NEW d \in Deliveries,
             CheckDuplicate(d) \/ FindContact(d) \/ FindThread(d) \/ OpenThread(d)
      PROVE  StoreInv'
  <2>1. CASE CheckDuplicate(d)
    BY <2>1 DEF CheckDuplicate
  <2>2. CASE FindContact(d)
    BY <2>2 DEF FindContact
  <2>3. CASE FindThread(d)
    BY <2>3 DEF FindThread
  <2>4. CASE OpenThread(d)
    BY <2>4 DEF OpenThread
  <2>5. QED
    BY <1>2, <2>1, <2>2, <2>3, <2>4
<1>3. ASSUME NEW d \in Deliveries, StoreInbound(d)
      PROVE  StoreInv'
  BY <1>3 DEF StoreInbound, Storable
<1>4. ASSUME NEW d \in Deliveries, TouchThread(d)
      PROVE  StoreInv'
  BY <1>4 DEF TouchThread, Answering
<1>5. ASSUME NEW d \in Deliveries,
             ReadOptOut(d) \/ WriteOptOut(d) \/ ReadConsent(d) \/ WriteOptIn(d)
      PROVE  StoreInv'
  BY <1>5 DEF ReadOptOut, WriteOptOut, ReadConsent, WriteOptIn, Answering
<1>6. ASSUME NEW d \in Deliveries,
             Generate(d) \/ ReadThread(d) \/ CheckConsent(d) \/ Fail(d)
      PROVE  StoreInv'
  BY <1>6 DEF Generate, ReadThread, CheckConsent, Fail
<1>7. ASSUME NEW d \in Deliveries,
             RecordOutbound(d) \/ Send(d) \/ ConfirmSent(d)
      PROVE  StoreInv'
  BY <1>7 DEF RecordOutbound, Send, ConfirmSent
<1>8. CASE UNCHANGED <<pc, event, reply, inbound>>
  BY <1>8
<1>9. ASSUME NEW b \in Brokers, Broker(b)
      PROVE  UNCHANGED <<pc, event, reply, inbound>>
  BY <1>9 DEF Broker, ReadGrant, WriteGrant, Revoke, ReadLink, FileNumber,
     LinkThread
<1>10. ASSUME NEW t \in Deliveries, PatchThread(t)
       PROVE  UNCHANGED <<pc, event, reply, inbound>>
  BY <1>10 DEF PatchThread
<1>11. QED
  BY <1>1, <1>2, <1>3, <1>4, <1>5, <1>6, <1>7, <1>8, <1>9, <1>10
     DEF Next, Deliver, vars

\* Overlapping and repeated deliveries of a message produce one answer.
THEOREM OneAnswer == Spec => []AnsweredOnce
<1>1. Init => StoreInv
  BY DEF Init, StoreInv, Stored, Later
<1>2. TypeOK /\ StoreInv /\ [Next]_vars => StoreInv'
  BY StoreStep
<1>3. StoreInv => AnsweredOnce
  BY DEF StoreInv, Stored, AnsweredOnce
<1>4. QED
  BY <1>1, <1>2, <1>3, TypeCorrect, PTL DEF Spec

-------------------------------------------------------------------------------
(* Opting out                                                              *)

LEMMA OptOutStep ==
    ASSUME [Next]_vars, consent = "out", consent' # "out"
    PROVE  \E b \in Brokers : WriteGrant(b)
<1> USE DEF inbox, person, local, broker, ghost
<1>1. ASSUME NEW d \in Deliveries, Deliver(d)
      PROVE  consent' = "out"
  BY <1>1 DEF Deliver, PersistEvent, RefuseSignature, AnswerDuplicate,
     CheckDuplicate, FindContact, FindThread, OpenThread, StoreInbound,
     TouchThread, ReadOptOut,
     WriteOptOut, ReadConsent, WriteOptIn, Insertable, Generate, ReadThread,
     CheckConsent, RecordOutbound, Send, ConfirmSent, Fail
<1>2. ASSUME NEW b \in Brokers, Broker(b), ~WriteGrant(b)
      PROVE  consent' = "out"
  BY <1>2 DEF Broker, ReadGrant, Revoke, ReadLink, FileNumber, LinkThread
<1>3. ASSUME NEW t \in Deliveries, PatchThread(t)
      PROVE  consent' = "out"
  BY <1>3 DEF PatchThread
<1>4. QED
  BY <1>1, <1>2, <1>3 DEF Next, vars

\* Whatever the person writes and however its handling interleaves, only a
\* broker's grant ends an opt-out.
THEOREM OptOutHolds == Spec => OptOutStands
<1>1. [Next]_vars
        => [consent = "out" /\ consent' # "out"
               => \E b \in Brokers : WriteGrant(b)]_vars
  BY OptOutStep
<1>2. QED
  BY <1>1, PTL DEF Spec, OptOutStands

\* From the lookup of the contact, and of the thread, on.
Identified == {"threading", "opening", "storing"} \cup Later
Placed     == {"storing"} \cup Later

\* A delivery that began in silence: the contact stays on file and opted out,
\* the delivery finds the contact and hence a thread of the contact, and so
\* does not pass the consent check of the dispatcher unless it is waived.
QuietInv ==
    /\ quieted # {} => known /\ consent = "out"
    /\ \A d \in quieted :
           /\ pc[d] # "idle"
           /\ pc[d] \in Identified => found[d]
           /\ pc[d] \in Placed => thread[d] \in linked
           /\ pc[d] \in {"recording", "sending", "confirming"} => Waived(d)
           /\ reply[d] # "none" => Waived(d)

LEMMA QuietStep ==
    ASSUME TypeOK, StoreInv, QuietInv, [Next]_vars
    PROVE  QuietInv'
<1> USE DEF TypeOK, QuietInv, Identified, Placed, Later, Working, Waived, Message,
        Goto, inbox, person, local, broker, ghost
<1>1. ASSUME NEW d \in Deliveries, NEW e \in Events,
             PersistEvent(d, e) \/ RefuseSignature(d, e) \/ AnswerDuplicate(d, e)
      PROVE  QuietInv'
  BY <1>1 DEF PersistEvent, RefuseSignature, AnswerDuplicate, StoreInv
<1>2. ASSUME NEW d \in Deliveries, CheckDuplicate(d) \/ FindContact(d)
      PROVE  QuietInv'
  BY <1>2 DEF CheckDuplicate, FindContact
<1>3. ASSUME NEW d \in Deliveries, FindThread(d) \/ OpenThread(d)
      PROVE  QuietInv'
  BY <1>3 DEF FindThread, OpenThread, Latest, Matching
<1>4. ASSUME NEW d \in Deliveries, StoreInbound(d) \/ TouchThread(d)
      PROVE  QuietInv'
  BY <1>4 DEF StoreInbound, TouchThread, Answering
<1>5. ASSUME NEW d \in Deliveries,
             ReadOptOut(d) \/ WriteOptOut(d) \/ ReadConsent(d) \/ WriteOptIn(d)
      PROVE  QuietInv'
  BY <1>5 DEF ReadOptOut, WriteOptOut, ReadConsent, WriteOptIn, Answering,
     Insertable
<1>6. ASSUME NEW d \in Deliveries,
             Generate(d) \/ ReadThread(d) \/ CheckConsent(d) \/ Fail(d)
      PROVE  QuietInv'
  BY <1>6 DEF Generate, ReadThread, CheckConsent, HasConsent, Fail
<1>7. ASSUME NEW d \in Deliveries,
             RecordOutbound(d) \/ Send(d) \/ ConfirmSent(d)
      PROVE  QuietInv'
  BY <1>7 DEF RecordOutbound, Send, ConfirmSent
<1>8. ASSUME NEW b \in Brokers, Broker(b)
      PROVE  QuietInv'
  BY <1>8 DEF Broker, BGoto, ReadGrant, WriteGrant, Revoke, ReadLink, FileNumber,
     LinkThread
<1>9. ASSUME NEW t \in Deliveries, PatchThread(t)
      PROVE  QuietInv'
  BY <1>9 DEF PatchThread
<1>10. CASE UNCHANGED vars
  BY <1>10 DEF vars
<1>11. QED
  BY <1>1, <1>2, <1>3, <1>4, <1>5, <1>6, <1>7, <1>8, <1>9, <1>10
     DEF Next, Deliver

\* A person on file who opted out is not answered by the model until a broker
\* records a new consent.
THEOREM Silence == Spec => []SilenceKept
<1>1. Init => StoreInv /\ QuietInv
  BY DEF Init, StoreInv, Stored, Later, QuietInv
<1>2. TypeOK /\ (StoreInv /\ QuietInv) /\ [Next]_vars => (StoreInv /\ QuietInv)'
  BY StoreStep, QuietStep
<1>3. QuietInv => SilenceKept
  BY DEF QuietInv, SilenceKept
<1>4. QED
  BY <1>1, <1>2, <1>3, TypeCorrect, PTL DEF Spec

-------------------------------------------------------------------------------
(* Threads                                                                 *)

\* The opener of a thread nobody identified found only threads of the contact.
StrayInv ==
    /\ \A d \in threads :
           pc[d] \notin {"idle", "checking", "finding", "threading", "opening"}
    /\ \A d \in Deliveries :
           \/ pc[d] = "opening" /\ ~found[d]
           \/ d \in threads \ linked
           => seen[d] \subseteq linked

LEMMA StrayStep ==
    ASSUME TypeOK, StrayInv, [Next]_vars
    PROVE  StrayInv'
<1> USE DEF TypeOK, StrayInv, Working, Goto, inbox, person, local, broker, ghost
<1>1. ASSUME NEW d \in Deliveries, NEW e \in Events,
             PersistEvent(d, e) \/ RefuseSignature(d, e) \/ AnswerDuplicate(d, e)
      PROVE  StrayInv'
  BY <1>1 DEF PersistEvent, RefuseSignature, AnswerDuplicate
<1>2. ASSUME NEW d \in Deliveries, CheckDuplicate(d) \/ FindContact(d)
      PROVE  StrayInv'
  BY <1>2 DEF CheckDuplicate, FindContact
<1>3. ASSUME NEW d \in Deliveries, FindThread(d)
      PROVE  StrayInv'
  BY <1>3 DEF FindThread, Matching
<1>4. ASSUME NEW d \in Deliveries, OpenThread(d)
      PROVE  StrayInv'
  BY <1>4 DEF OpenThread
<1>5. ASSUME NEW d \in Deliveries, StoreInbound(d) \/ TouchThread(d)
      PROVE  StrayInv'
  BY <1>5 DEF StoreInbound, TouchThread, Answering
<1>6. ASSUME NEW d \in Deliveries,
             ReadOptOut(d) \/ WriteOptOut(d) \/ ReadConsent(d) \/ WriteOptIn(d)
      PROVE  StrayInv'
  BY <1>6 DEF ReadOptOut, WriteOptOut, ReadConsent, WriteOptIn, Answering
<1>7. ASSUME NEW d \in Deliveries,
             Generate(d) \/ ReadThread(d) \/ CheckConsent(d) \/ Fail(d)
      PROVE  StrayInv'
  BY <1>7 DEF Generate, ReadThread, CheckConsent, Fail
<1>8. ASSUME NEW d \in Deliveries,
             RecordOutbound(d) \/ Send(d) \/ ConfirmSent(d)
      PROVE  StrayInv'
  BY <1>8 DEF RecordOutbound, Send, ConfirmSent
<1>9. ASSUME NEW b \in Brokers, Broker(b)
      PROVE  StrayInv'
  BY <1>9 DEF Broker, BGoto, ReadGrant, WriteGrant, Revoke, ReadLink, FileNumber,
     LinkThread
<1>10. ASSUME NEW t \in Deliveries, PatchThread(t)
       PROVE  StrayInv'
  BY <1>10 DEF PatchThread
<1>11. CASE UNCHANGED vars
  BY <1>11 DEF vars
<1>12. QED
  BY <1>1, <1>2, <1>3, <1>4, <1>5, <1>6, <1>7, <1>8, <1>9, <1>10, <1>11
     DEF Next, Deliver

\* Two threads that nobody identified were opened by deliveries that looked
\* before the other had inserted.
THEOREM StrayThreads == Spec => []StrayThreadsOverlap
<1>1. Init => StrayInv
  BY DEF Init, StrayInv
<1>2. TypeOK /\ StrayInv /\ [Next]_vars => StrayInv'
  BY StrayStep
<1>3. TypeOK /\ StrayInv => StrayThreadsOverlap
  BY DEF TypeOK, StrayInv, StrayThreadsOverlap
<1>4. QED
  BY <1>1, <1>2, <1>3, TypeCorrect, PTL DEF Spec

-------------------------------------------------------------------------------
(* The channel implements the correspondence                               *)

\* A delivery at work, or that failed at work, has an event of its own; and what
\* it is sending is queued.
Claimant(d) == pc[d] \in Working \cup {"failed"}

EventInv ==
    /\ \A d \in Deliveries : Claimant(d) => event[d] \in events
    /\ \A d, k \in Deliveries :
           d # k /\ Claimant(d) /\ Claimant(k) => event[d] # event[k]
    /\ \A d \in Deliveries : pc[d] \in {"sending", "confirming"} => reply[d] = "queued"

\* A delivery leaves the others where they are, and claims only as it begins.
LEMMA DeliverKeeps ==
    ASSUME TypeOK, NEW d \in Deliveries, Deliver(d)
    PROVE  /\ \A k \in Deliveries \ {d} :
                pc'[k] = pc[k] /\ event'[k] = event[k] /\ reply'[k] = reply[k]
           /\ UNCHANGED bpc
           /\ pc[d] \in Working \cup {"idle"} /\ pc'[d] \in Working \cup Ended
           /\ pc'[d] = "refused" => \E e \in Events : RefuseSignature(d, e)
           /\ \/ /\ pc[d] = "idle" /\ pc'[d] \in {"done", "refused"}
                 /\ events \subseteq events' /\ UNCHANGED reply
              \/ \E e \in Events : PersistEvent(d, e)
              \/ pc[d] \in Working /\ UNCHANGED <<events, event>>
<1> DEFINE Goal ==
      /\ \A k \in Deliveries \ {d} :
           pc'[k] = pc[k] /\ event'[k] = event[k] /\ reply'[k] = reply[k]
      /\ UNCHANGED bpc
      /\ pc[d] \in Working \cup {"idle"} /\ pc'[d] \in Working \cup Ended
      /\ pc'[d] = "refused" => \E e \in Events : RefuseSignature(d, e)
      /\ \/ /\ pc[d] = "idle" /\ pc'[d] \in {"done", "refused"}
            /\ events \subseteq events' /\ UNCHANGED reply
         \/ \E e \in Events : PersistEvent(d, e)
         \/ pc[d] \in Working /\ UNCHANGED <<events, event>>
<1> USE DEF TypeOK, Working, Ended, Goto, inbox, person, local, broker, ghost
<1>1. ASSUME NEW e \in Events,
             PersistEvent(d, e) \/ RefuseSignature(d, e) \/ AnswerDuplicate(d, e)
      PROVE  Goal
  BY <1>1 DEF PersistEvent, RefuseSignature, AnswerDuplicate
<1>2. CASE CheckDuplicate(d) \/ FindContact(d) \/ FindThread(d) \/ OpenThread(d)
  BY <1>2 DEF CheckDuplicate, FindContact, FindThread, OpenThread
<1>3. CASE StoreInbound(d) \/ TouchThread(d)
  BY <1>3 DEF StoreInbound, TouchThread, Answering
<1>4. CASE ReadOptOut(d) \/ WriteOptOut(d) \/ ReadConsent(d) \/ WriteOptIn(d)
  BY <1>4 DEF ReadOptOut, WriteOptOut, ReadConsent, WriteOptIn, Answering
<1>5. CASE Generate(d) \/ ReadThread(d) \/ CheckConsent(d) \/ Fail(d)
  BY <1>5 DEF Generate, ReadThread, CheckConsent, Fail
<1>6. CASE RecordOutbound(d) \/ Send(d) \/ ConfirmSent(d)
  BY <1>6 DEF RecordOutbound, Send, ConfirmSent
<1>7. QED
  BY <1>1, <1>2, <1>3, <1>4, <1>5, <1>6 DEF Deliver

\* The rest of Next touches no delivery and no event.
LEMMA OtherSteps ==
    ASSUME [Next]_vars, \A d \in Deliveries : ~Deliver(d)
    PROVE  /\ UNCHANGED <<pc, event, reply, events, inbound>>
           /\ \/ \E b \in Brokers : ReadGrant(b) \/ WriteGrant(b) \/ Revoke(b)
              \/ /\ UNCHANGED consent
                 /\ \/ UNCHANGED bpc
                    \/ \E b \in Brokers : \/ \E t \in Deliveries : ReadLink(b, t)
                                         \/ FileNumber(b) \/ LinkThread(b)
<1> USE DEF inbox, person, local, broker, ghost
<1>1. ASSUME NEW b \in Brokers, Broker(b)
      PROVE  /\ UNCHANGED <<pc, event, reply, events, inbound>>
             /\ \/ ReadGrant(b) \/ WriteGrant(b) \/ Revoke(b)
                \/ /\ UNCHANGED consent
                   /\ \/ \E t \in Deliveries : ReadLink(b, t)
                      \/ FileNumber(b) \/ LinkThread(b)
  BY <1>1 DEF Broker, ReadGrant, WriteGrant, Revoke, ReadLink, FileNumber, LinkThread
<1>2. ASSUME NEW t \in Deliveries, PatchThread(t)
      PROVE  UNCHANGED <<pc, event, reply, events, inbound, consent, bpc>>
  BY <1>2 DEF PatchThread
<1>3. CASE UNCHANGED vars
  BY <1>3 DEF vars
<1>4. QED
  BY <1>1, <1>2, <1>3 DEF Next

LEMMA EventStep ==
    ASSUME TypeOK, StoreInv, EventInv, [Next]_vars
    PROVE  EventInv'
<1>1. ASSUME NEW d \in Deliveries, Deliver(d)
      PROVE  EventInv'
  <2>1. \A k \in Deliveries \ {d} :
          pc'[k] = pc[k] /\ event'[k] = event[k] /\ reply'[k] = reply[k]
    BY <1>1, DeliverKeeps
  <2>2. ASSUME pc'[d] \in {"sending", "confirming"}
        PROVE  reply'[d] = "queued"
    <3>1. RecordOutbound(d) \/ (Send(d) /\ pc[d] = "sending")
      BY <1>1, <2>2 DEF Deliver, Goto, TypeOK, Working, PersistEvent,
         RefuseSignature, AnswerDuplicate, CheckDuplicate, FindContact,
         FindThread, OpenThread, StoreInbound, TouchThread,
         ReadOptOut, WriteOptOut, ReadConsent, WriteOptIn, Answering, Generate,
         ReadThread, CheckConsent, Send, ConfirmSent, Fail
    <3>2. QED
      BY <3>1 DEF RecordOutbound, Send, EventInv, TypeOK
  <2>3. CASE /\ pc[d] = "idle" /\ pc'[d] \in {"done", "refused"}
             /\ events \subseteq events' /\ UNCHANGED reply
    BY <2>1, <2>3 DEF EventInv, Claimant, Working
  <2>4. CASE \E e \in Events : PersistEvent(d, e)
    <3>1. PICK e \in Events : PersistEvent(d, e)
      BY <2>4
    <3>2. e \notin events /\ events' = events \cup {e} /\ event'[d] = e
      BY <3>1 DEF PersistEvent, TypeOK
    <3>3. QED
      BY <2>1, <2>2, <3>2 DEF EventInv, Claimant
  <2>5. CASE pc[d] \in Working /\ UNCHANGED <<events, event>>
    BY <2>1, <2>2, <2>5 DEF EventInv, Claimant
  <2>6. QED
    BY <1>1, <2>3, <2>4, <2>5, DeliverKeeps
<1>2. CASE \A d \in Deliveries : ~Deliver(d)
  BY <1>2, OtherSteps DEF EventInv, Claimant
<1>3. QED
  BY <1>1, <1>2

\* What a step of d makes of the events that are open and of those that raised.
LEMMA OpenAfter ==
    ASSUME EventInv, NEW d \in Deliveries,
           \A k \in Deliveries \ {d} : pc'[k] = pc[k] /\ event'[k] = event[k]
    PROVE  /\ pc[d] \notin Unstored /\ pc'[d] \notin Unstored => Open' = Open
           /\ (pc[d] \in Unstored /\ pc'[d] \in Unstored /\ event'[d] = event[d]) =>
                Open' = Open
           /\ pc[d] \notin Unstored /\ pc'[d] \in Unstored =>
                Open' = Open \cup {event'[d]}
           /\ pc[d] \in Unstored /\ pc'[d] \notin Unstored =>
                event[d] \in Open /\ Open' = Open \ {event[d]}
<1>1. pc[d] \notin Unstored /\ pc'[d] \notin Unstored => Open' = Open
  BY DEF Open
<1>2. ASSUME pc[d] \in Unstored, pc'[d] \in Unstored, event'[d] = event[d]
      PROVE  Open' = Open
  <2>1. \A k \in Deliveries :
          event'[k] = event[k] /\ (pc'[k] \in Unstored <=> pc[k] \in Unstored)
    BY <1>2
  <2>2. QED
    BY <2>1 DEF Open
<1>3. pc[d] \notin Unstored /\ pc'[d] \in Unstored => Open' = Open \cup {event'[d]}
  BY DEF Open
<1>4. ASSUME pc[d] \in Unstored, pc'[d] \notin Unstored
      PROVE  event[d] \in Open /\ Open' = Open \ {event[d]}
  <2>1. ASSUME NEW k \in Deliveries \ {d}, pc[k] \in Unstored
        PROVE  event[k] # event[d]
    BY <1>4, <2>1 DEF EventInv, Claimant, Unstored, Working
  <2>2. QED
    BY <1>4, <2>1 DEF Open
<1>5. QED
  BY <1>1, <1>2, <1>3, <1>4

\* An event whose delivery is past the storing is not open.
LEMMA PastOpen ==
    ASSUME EventInv, NEW d \in Deliveries, pc[d] \in Working \ Unstored
    PROVE  event[d] \notin Open
BY DEF EventInv, Claimant, Open, Unstored, Working

LEMMA RaisedAfter ==
    ASSUME NEW d \in Deliveries, pc[d] \notin {"failed", "refused"},
           \A k \in Deliveries \ {d} : pc'[k] = pc[k] /\ event'[k] = event[k]
    PROVE  /\ pc'[d] # "failed" => Raised' = Raised
           /\ pc'[d] = "failed" /\ event'[d] = event[d] =>
                Raised' = Raised \cup {event[d]}
           /\ pc'[d] # "refused" => Refused' = Refused
           /\ pc'[d] = "refused" => Refused' = Refused \cup {event'[d]}
BY DEF Raised, Refused

\* Answers change with the reply of a delivery only.
LEMMA AnswersSame ==
    ASSUME NEW d \in Deliveries, UNCHANGED reply,
           reply[d] = "none" \/ event'[d] = event[d],
           \A k \in Deliveries \ {d} : event'[k] = event[k]
    PROVE  Queued' = Queued /\ Sent' = Sent
BY DEF Queued, Sent, Message

\* A delivery that fails while it works raises its event.
LEMMA RaiseStep ==
    ASSUME TypeOK, StoreInv, EventInv, NEW d \in Deliveries, Deliver(d),
           pc[d] \in Working, pc'[d] = "failed",
           UNCHANGED <<events, inbound, reply, consent>>
    PROVE  Letters!Next
<1>1. /\ \A k \in Deliveries \ {d} : pc'[k] = pc[k] /\ event'[k] = event[k]
      /\ UNCHANGED <<event, bpc>>
  BY DeliverKeeps DEF PersistEvent, RefuseSignature, Working, Goto
<1>2. event[d] \in events /\ event[d] \in Events
  BY DEF EventInv, Claimant, TypeOK
<1>3. Open' = Open \ {event[d]}
  <2>1. CASE pc[d] \in Unstored
    BY <1>1, <2>1, OpenAfter DEF Unstored
  <2>2. CASE pc[d] \notin Unstored
    BY <1>1, <2>2, OpenAfter, PastOpen DEF Unstored
  <2>3. QED
    BY <2>1, <2>2
<1>4. Raised' = Raised \cup {event[d]} /\ Refused' = Refused
  BY <1>1, RaisedAfter DEF Working
<1>5. Queued' = Queued /\ Sent' = Sent /\ Granting' = Granting
  BY <1>1, AnswersSame DEF Granting
<1>6. Letters!Raise(event[d])
  BY <1>2, <1>3, <1>4, <1>5 DEF Letters!Raise, Letters!answers, Letters!person
<1>7. QED
  BY <1>2, <1>6 DEF Letters!Next

\* What does not end in an error leaves the raised events alone, and what stays
\* on one side of the storing the open ones.
LEMMA QuietMove ==
    ASSUME TypeOK, EventInv, NEW d \in Deliveries, Deliver(d),
           pc[d] \in Working, pc'[d] # "failed",
           pc'[d] \in Unstored <=> pc[d] \in Unstored
    PROVE  /\ UNCHANGED <<events, event, bpc>>
           /\ Open' = Open /\ Raised' = Raised /\ Refused' = Refused
           /\ Granting' = Granting
           /\ UNCHANGED reply => Queued' = Queued /\ Sent' = Sent
<1>1. /\ \A k \in Deliveries \ {d} : pc'[k] = pc[k] /\ event'[k] = event[k]
      /\ UNCHANGED <<events, event, bpc>>
      /\ pc'[d] # "refused"
  BY DeliverKeeps DEF PersistEvent, RefuseSignature, Working, Goto
<1>2. Open' = Open
  BY <1>1, OpenAfter
<1>3. Raised' = Raised /\ Refused' = Refused
  BY <1>1, RaisedAfter DEF Working
<1>4. QED
  BY <1>1, <1>2, <1>3, AnswersSame DEF Granting

LEMMA LettersInit == Init => Letters!Init
BY DEF Init, Letters!Init, Open, Raised, Refused, Queued, Sent, Granting, Unstored

\* The steps of a delivery: the webhook and the store.
LEMMA ReceiveSteps ==
    ASSUME TypeOK, StoreInv, EventInv, NEW d \in Deliveries,
           \/ \E e \in Events : \/ PersistEvent(d, e) \/ RefuseSignature(d, e)
                               \/ AnswerDuplicate(d, e)
           \/ CheckDuplicate(d) \/ FindContact(d) \/ FindThread(d) \/ OpenThread(d)
           \/ StoreInbound(d)
    PROVE  [Letters!Next]_(Letters!vars)
<1> USE DEF inbox, person, local, broker, ghost
<1>0. Deliver(d)
  BY DEF Deliver
<1>1. \A k \in Deliveries \ {d} : pc'[k] = pc[k] /\ event'[k] = event[k]
  BY <1>0, DeliverKeeps
<1>2. ASSUME NEW e \in Events, PersistEvent(d, e)
      PROVE  Letters!Next
  <2>1. /\ pc[d] = "idle" /\ pc'[d] = "checking" /\ event'[d] = e
        /\ e \notin events /\ events' = events \cup {e}
        /\ UNCHANGED <<inbound, reply, consent, bpc>>
    BY <1>2 DEF PersistEvent, Goto, TypeOK
  <2>2. Open' = Open \cup {e} /\ Raised' = Raised /\ Refused' = Refused
    BY <1>1, <2>1, OpenAfter, RaisedAfter DEF Unstored
  <2>3. Queued' = Queued /\ Sent' = Sent /\ Granting' = Granting
    BY <1>1, <2>1, AnswersSame DEF StoreInv, Granting
  <2>4. Letters!Claim(e)
    BY <2>1, <2>2, <2>3 DEF Letters!Claim, Letters!answers, Letters!person
  <2>5. QED
    BY <2>4 DEF Letters!Next
<1>3. ASSUME NEW e \in Events, AnswerDuplicate(d, e)
      PROVE  UNCHANGED Letters!vars
  <2>1. /\ pc[d] = "idle" /\ pc'[d] = "done"
        /\ UNCHANGED <<events, inbound, reply, consent, bpc>>
    BY <1>3 DEF AnswerDuplicate, Goto, TypeOK
  <2>2. Open' = Open /\ Raised' = Raised /\ Refused' = Refused
    BY <1>1, <2>1, OpenAfter, RaisedAfter DEF Unstored
  <2>3. Queued' = Queued /\ Sent' = Sent /\ Granting' = Granting
    BY <1>1, <2>1, AnswersSame DEF StoreInv, Granting
  <2>4. QED
    BY <2>1, <2>2, <2>3
       DEF Letters!vars, Letters!events, Letters!answers, Letters!person
<1>4. ASSUME pc[d] \in Unstored, pc'[d] \in {"done", "touching"},
             UNCHANGED <<events, event, reply, consent, bpc>>
      PROVE  /\ event[d] \in Open /\ Open' = Open \ {event[d]}
             /\ Raised' = Raised /\ Refused' = Refused
             /\ Queued' = Queued /\ Sent' = Sent /\ Granting' = Granting
  <2>1. Raised' = Raised /\ Refused' = Refused
    BY <1>1, <1>4, RaisedAfter DEF Unstored
  <2>2. event[d] \in Open /\ Open' = Open \ {event[d]}
    BY <1>1, <1>4, OpenAfter DEF Unstored
  <2>3. QED
    BY <1>1, <1>4, <2>1, <2>2, AnswersSame DEF Granting
<1>5. CASE CheckDuplicate(d) /\ pc'[d] = "done"
  <2>1. /\ pc[d] = "checking" /\ Message(d) \in inbound /\ event[d] \in Events
        /\ UNCHANGED <<events, event, inbound, reply, consent, bpc>>
    BY <1>5 DEF CheckDuplicate, Goto, TypeOK, Working
  <2>2. Letters!Skip(event[d])
    BY <1>4, <1>5, <2>1
       DEF Letters!Skip, Letters!answers, Letters!person, Message, Unstored
  <2>3. QED
    BY <2>1, <2>2 DEF Letters!Next
<1>6. CASE \/ CheckDuplicate(d) /\ pc'[d] # "done"
           \/ FindContact(d) \/ FindThread(d) \/ OpenThread(d)
  <2>1. /\ pc[d] \in Unstored /\ pc'[d] \in Unstored
        /\ UNCHANGED <<inbound, reply, consent>>
    BY <1>6 DEF CheckDuplicate, FindContact, FindThread, OpenThread, Goto, TypeOK, Unstored
  <2>2. QED
    BY <1>0, <2>1, QuietMove
       DEF Unstored, Working, Letters!vars, Letters!events, Letters!answers,
           Letters!person
<1>7. CASE StoreInbound(d) /\ Storable(d) /\ pc'[d] = "touching"
  <2>1. /\ pc[d] = "storing" /\ Message(d) \notin inbound /\ event[d] \in Events
        /\ inbound' = inbound \cup {Message(d)}
        /\ UNCHANGED <<events, event, reply, consent, bpc>>
    BY <1>7 DEF StoreInbound, Storable, Goto, TypeOK, Working
  <2>2. Letters!Receive(event[d])
    BY <1>4, <1>7, <2>1
       DEF Letters!Receive, Letters!answers, Letters!person, Message, Unstored
  <2>3. QED
    BY <2>1, <2>2 DEF Letters!Next
<1>8. CASE StoreInbound(d) /\ ~Storable(d)
  BY <1>0, <1>8, RaiseStep DEF StoreInbound, Goto, TypeOK, Working
<1>9. ASSUME NEW e \in Events, RefuseSignature(d, e)
      PROVE  Letters!Next
  <2>1. /\ pc[d] = "idle" /\ pc'[d] = "refused" /\ event'[d] = e
        /\ e \notin events /\ events' = events \cup {e}
        /\ UNCHANGED <<inbound, reply, consent, bpc>>
    BY <1>9 DEF RefuseSignature, Goto, TypeOK
  <2>2. Open' = Open /\ Raised' = Raised /\ Refused' = Refused \cup {e}
    BY <1>1, <2>1, OpenAfter, RaisedAfter DEF Unstored
  <2>3. Queued' = Queued /\ Sent' = Sent /\ Granting' = Granting
    BY <1>1, <2>1, AnswersSame DEF StoreInv, Granting
  <2>4. Letters!TurnAway(e)
    BY <2>1, <2>2, <2>3 DEF Letters!TurnAway, Letters!answers, Letters!person
  <2>5. QED
    BY <2>4 DEF Letters!Next
<1>10. QED
  <2>1. StoreInbound(d) /\ Storable(d) => pc'[d] = "touching"
    BY DEF StoreInbound, Goto, TypeOK
  <2>2. QED
    BY <1>2, <1>3, <1>5, <1>6, <1>7, <1>8, <1>9, <2>1

\* From the touch of the thread on: consent, the answer, and what fails.
LEMMA AnswerSteps ==
    ASSUME TypeOK, StoreInv, EventInv, NEW d \in Deliveries,
           \/ TouchThread(d)
           \/ ReadOptOut(d) \/ WriteOptOut(d) \/ ReadConsent(d) \/ WriteOptIn(d)
           \/ Generate(d) \/ ReadThread(d) \/ CheckConsent(d)
           \/ RecordOutbound(d) \/ Send(d) \/ ConfirmSent(d) \/ Fail(d)
    PROVE  [Letters!Next]_(Letters!vars)
<1> USE DEF inbox, person, local, broker, ghost
<1>0. Deliver(d)
  BY DEF Deliver
<1>1. CASE Fail(d) \/ ((WriteOptOut(d) \/ WriteOptIn(d)) /\ pc'[d] = "failed")
  <2>1. /\ pc[d] \in Working /\ pc'[d] = "failed"
        /\ UNCHANGED <<events, inbound, reply, consent>>
    BY <1>1 DEF Fail, WriteOptOut, WriteOptIn, Answering, Goto, TypeOK, Working
  <2>2. QED
    BY <1>0, <2>1, RaiseStep
<1>2. ASSUME pc[d] \in Working \ Unstored, pc'[d] \in (Working \cup {"done"}) \ Unstored
      PROVE  /\ UNCHANGED <<events, event, bpc>>
             /\ Open' = Open /\ Raised' = Raised /\ Refused' = Refused
             /\ Granting' = Granting
             /\ UNCHANGED reply => Queued' = Queued /\ Sent' = Sent
  BY <1>0, <1>2, QuietMove DEF Working
<1>3. CASE \/ TouchThread(d) \/ ReadOptOut(d) \/ ReadConsent(d) \/ Generate(d)
           \/ ReadThread(d) \/ CheckConsent(d) \/ Send(d)
  <2>1. /\ pc[d] \in Working \ Unstored /\ pc'[d] \in (Working \cup {"done"}) \ Unstored
        /\ UNCHANGED <<inbound, reply, consent>>
    BY <1>3 DEF TouchThread, ReadOptOut, ReadConsent, Generate, ReadThread,
       CheckConsent, Send, Answering, Goto, TypeOK, Working, Unstored
  <2>2. QED
    BY <1>2, <2>1 DEF Letters!vars, Letters!events, Letters!answers, Letters!person
<1>4. CASE WriteOptOut(d) /\ pc'[d] # "failed"
  <2>1. /\ pc[d] = "optingOut" /\ pc'[d] = "dispatching" /\ consent' = "out"
        /\ UNCHANGED <<inbound, reply>>
    BY <1>4 DEF WriteOptOut, Goto, TypeOK
  <2>2. Letters!Refuse
    BY <1>2, <2>1 DEF Working, Unstored, Letters!Refuse, Letters!events, Letters!answers
  <2>3. QED
    BY <2>2 DEF Letters!Next
<1>5. CASE WriteOptIn(d) /\ pc'[d] # "failed"
  <2>1. /\ pc[d] = "optingIn" /\ pc'[d] \in {"answering", "done"}
        /\ consent = "none" /\ consent' = "in" /\ UNCHANGED <<inbound, reply>>
    BY <1>5 DEF WriteOptIn, Insertable, Answering, Goto, TypeOK
  <2>2. Letters!Agree
    BY <1>2, <2>1 DEF Working, Unstored, Letters!Agree, Letters!events, Letters!answers
  <2>3. QED
    BY <2>2 DEF Letters!Next
<1>6. CASE RecordOutbound(d) \/ ConfirmSent(d)
  <2>1. /\ pc[d] \in {"recording", "confirming"} /\ pc'[d] \in {"sending", "done"}
        /\ UNCHANGED <<inbound, consent>>
    BY <1>6 DEF RecordOutbound, ConfirmSent, Goto, TypeOK
  <2>2. /\ UNCHANGED <<events, event, bpc>>
        /\ Open' = Open /\ Raised' = Raised /\ Refused' = Refused
        /\ Granting' = Granting
    BY <1>2, <2>1 DEF Working, Unstored
  <2>3. /\ Message(d) \in inbound /\ Message(d) \in Messages
        /\ \A k \in Deliveries \ {d} : reply[k] # "none" => Message(k) # Message(d)
    <3>1. Stored(d) /\ \A k \in Deliveries : reply[k] # "none" => Stored(k)
      BY <2>1 DEF Stored, Later
    <3>2. QED
      BY <3>1, ConstantsAssumption DEF StoreInv, TypeOK
  <2>4. \A k \in Deliveries : Message(k)' = Message(k)
    BY <2>2 DEF Message
  <2>5. CASE RecordOutbound(d)
    <3>1. reply[d] = "none" /\ reply' = [reply EXCEPT ![d] = "queued"]
      BY <2>5 DEF RecordOutbound, Goto, StoreInv
    <3>2. Message(d) \notin Queued \cup Sent
      BY <2>3, <3>1 DEF Queued, Sent
    <3>3. Queued' = Queued \cup {Message(d)} /\ Sent' = Sent
      BY <2>4, <3>1 DEF Queued, Sent, TypeOK
    <3>4. Letters!Answer(Message(d))
      BY <2>1, <2>2, <2>3, <3>2, <3>3 DEF Letters!Answer, Letters!events, Letters!person
    <3>5. QED
      BY <2>3, <3>4 DEF Letters!Next
  <2>6. CASE ConfirmSent(d)
    <3>1. reply[d] = "queued" /\ reply' = [reply EXCEPT ![d] = "sent"]
      BY <2>6 DEF ConfirmSent, Goto, EventInv
    <3>2. /\ Message(d) \in Queued /\ Queued' = Queued \ {Message(d)}
          /\ Sent' = Sent \cup {Message(d)}
      BY <2>3, <2>4, <3>1 DEF Queued, Sent, TypeOK
    <3>3. Letters!Confirm(Message(d))
      BY <2>1, <2>2, <3>2 DEF Letters!Confirm, Letters!events, Letters!person
    <3>4. QED
      BY <2>3, <3>3 DEF Letters!Next
  <2>7. QED
    BY <1>6, <2>5, <2>6
<1>7. QED
  BY <1>1, <1>3, <1>4, <1>5, <1>6

\* The steps of the brokers.
LEMMA InboxSteps ==
    ASSUME TypeOK, [Next]_vars, \A d \in Deliveries : ~Deliver(d)
    PROVE  [Letters!Next]_(Letters!vars)
<1> USE DEF inbox, person, local, broker, ghost, BGoto
<1>1. /\ UNCHANGED <<events, inbound>>
      /\ UNCHANGED <<Open, Raised, Refused, Queued, Sent>>
  BY OtherSteps DEF Open, Raised, Refused, Queued, Sent, Message
<1>2. ASSUME NEW b \in Brokers, ReadGrant(b)
      PROVE  Letters!Next
  <2>1. Granting' = Granting \cup {b} /\ UNCHANGED consent
    BY <1>2 DEF ReadGrant, Granting, TypeOK
  <2>2. Letters!BeginGrant(b)
    BY <1>1, <2>1 DEF Letters!BeginGrant, Letters!events, Letters!answers
  <2>3. QED
    BY <2>2 DEF Letters!Next
<1>3. ASSUME NEW b \in Brokers, WriteGrant(b)
      PROVE  Letters!Next
  <2>1. /\ b \in Granting /\ Granting' = Granting \ {b}
        /\ consent' \in {consent, "in"}
    BY <1>3 DEF WriteGrant, Granting, TypeOK
  <2>2. Letters!Grant(b)
    BY <1>1, <2>1 DEF Letters!Grant, Letters!events, Letters!answers
  <2>3. QED
    BY <2>2 DEF Letters!Next
<1>4. ASSUME NEW b \in Brokers, Revoke(b)
      PROVE  Letters!Next
  <2>1. consent' = "out" /\ Granting' = Granting
    BY <1>4 DEF Revoke, Granting
  <2>2. Letters!Refuse
    BY <1>1, <2>1 DEF Letters!Refuse, Letters!events, Letters!answers
  <2>3. QED
    BY <2>2 DEF Letters!Next
<1>5. ASSUME UNCHANGED consent,
             \/ UNCHANGED bpc
             \/ \E b \in Brokers : \/ \E t \in Deliveries : ReadLink(b, t)
                                  \/ FileNumber(b) \/ LinkThread(b)
      PROVE  UNCHANGED Letters!vars
  <2>1. Granting' = Granting
    BY <1>5 DEF ReadLink, FileNumber, LinkThread, Granting, TypeOK
  <2>2. QED
    BY <1>1, <1>5, <2>1
       DEF Letters!vars, Letters!events, Letters!answers, Letters!person
<1>6. QED
  BY <1>2, <1>3, <1>4, <1>5, OtherSteps

LEMMA LettersStep ==
    ASSUME TypeOK, StoreInv, EventInv, [Next]_vars
    PROVE  [Letters!Next]_(Letters!vars)
<1>1. ASSUME NEW d \in Deliveries, Deliver(d)
      PROVE  [Letters!Next]_(Letters!vars)
  BY <1>1, ReceiveSteps, AnswerSteps DEF Deliver
<1>2. QED
  BY <1>1, InboxSteps

\* An event that was claimed has its message received unless the work raised or
\* the call was refused, a message is received once and answered at most once, and
\* only a grant brings back who said no: the whole channel is a correspondence.
THEOREM ImplementsCorrespondence == Spec => CorrespondenceSpec
<1>1. Init => Letters!Init
  BY LettersInit
<1>2. TypeOK /\ StoreInv /\ EventInv /\ [Next]_vars => [Letters!Next]_(Letters!vars)
  BY LettersStep
<1>3. Init => StoreInv /\ EventInv
  BY DEF Init, StoreInv, Stored, Later, EventInv, Claimant, Working
<1>4. TypeOK /\ StoreInv /\ EventInv /\ [Next]_vars => StoreInv' /\ EventInv'
  BY StoreStep, EventStep
<1>5. QED
  BY <1>1, <1>2, <1>3, <1>4, TypeCorrect, PTL
     DEF Spec, CorrespondenceSpec, Letters!Spec

\* No claimed event is lost but by an error or the end of its instance, which is
\* the price of the 200 that the webhook gives before the work, or by a call whose
\* signature was refused after its row had taken the key.
THEOREM ClaimsAreAccounted == Spec => []ClaimsAccounted
<1>1. Letters!Init => ClaimsAccounted
  BY DEF Letters!Init, ClaimsAccounted
<1>2. ClaimsAccounted /\ [Letters!Next]_(Letters!vars) => ClaimsAccounted'
  <2> SUFFICES ASSUME ClaimsAccounted, [Letters!Next]_(Letters!vars)
               PROVE  ClaimsAccounted'
    OBVIOUS
  <2> USE DEF ClaimsAccounted, Letters!events, Letters!answers, Letters!person
  <2>1. ASSUME NEW e \in Events, Letters!Claim(e) \/ Letters!TurnAway(e)
        PROVE  ClaimsAccounted'
    BY <2>1 DEF Letters!Claim, Letters!TurnAway
  <2>2. ASSUME NEW e \in Events, Letters!Receive(e) \/ Letters!Skip(e)
        PROVE  ClaimsAccounted'
    BY <2>2 DEF Letters!Receive, Letters!Skip
  <2>3. ASSUME NEW e \in Events, Letters!Raise(e)
        PROVE  ClaimsAccounted'
    BY <2>3 DEF Letters!Raise
  <2>4. CASE UNCHANGED <<Letters!events, inbound>>
    BY <2>4
  <2>5. QED
    BY <2>1, <2>2, <2>3, <2>4
       DEF Letters!Next, Letters!Answer, Letters!Confirm, Letters!Agree,
           Letters!Refuse, Letters!BeginGrant, Letters!Grant, Letters!vars
<1>3. QED
  BY <1>1, <1>2, ImplementsCorrespondence, PTL DEF CorrespondenceSpec, Letters!Spec
===============================================================================
