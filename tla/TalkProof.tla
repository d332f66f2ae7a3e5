------------------------------ MODULE TalkProof ------------------------------
(***************************************************************************)
(* Proofs about Talk, for any accounts, channels, messages, clocks, page   *)
(* size and faults.                                                        *)
(***************************************************************************)
EXTENDS Talk, TLAPS

(* The inductive invariant, in parts *)

\* The registry locates an account at channels of its own, and so does what
\* DoUserTalk has found there.
OwnLocation ==
    /\ \A a \in Account : where[a] # Nil => Owner[where[a]] = a
    /\ \A t \in Talk : found[t] # Nil => Owner[found[t]] = Dest[t]

\* The steps of DoUserTalk come in their order: what each of them needs of the
\* earlier ones.
TalkOrder ==
    \A t \in Talk :
        /\ pc[t] \in {"idle", "lookup"} => sent[t] = 0
        /\ pc[t] \in {"insert", "dispatch", "resp", "answered"} => sent[t] # 0
        /\ pc[t] \in {"idle", "lookup", "insert"} => t \notin content
        /\ pc[t] \in {"dispatch", "resp", "answered"} => t \in content
        /\ pc[t] \in {"resp", "answered"} =>
              found[t] \in {Nil, From[t]} \/ <<found[t], t>> \in pushed

\* While the location has not changed, the one DoUserTalk has found holds.
FoundHolds ==
    \A t \in Talk : sent[t] # 0 /\ ~moved[t] => found[t] = where[Dest[t]]

\* Contents and index rows are written together.
Party(a, m) == a \in {Dest[m], Owner[From[m]]}

TablesAgree ==
    /\ \A t \in content : Rows(t) \subseteq index
    /\ \A a \in Account, d \in Direction, m \in Talk :
          <<a, d, m>> \in index => m \in content /\ Party(a, m)

\* What a fetch handles are stored messages of its account.
FetchIsOwn ==
    \A a \in Account :
        /\ fetch[a].id # Nil => fetch[a].id \in content /\ Party(a, fetch[a].id)
        /\ \A m \in fetch[a].page \cup fetch[a].got : m \in content /\ Party(a, m)

IInv ==
    /\ TypeOK /\ OwnLocation /\ TalkOrder /\ FoundHolds
    /\ TablesAgree /\ FetchIsOwn /\ PushedIsStored /\ AckNamesContent

-----------------------------------------------------------------------------
(* Every step keeps every part. *)

\* Before the first packet nothing is stored, pushed or acknowledged.
LEMMA InvInit == Init => IInv
  BY TalkAssumption
  DEF Init, IInv, TypeOK, OwnLocation, TalkOrder, FoundHolds, TablesAgree, FetchIsOwn,
      PushedIsStored, AckNamesContent, Registry!Init, TalkPc, FetchType, NoFetch, Row, Rows, Party

\* A step of the registry moves a location only to a channel of the account,
\* and leaves everything of DoUserTalk but the history alone.
LEMMA RegistryMoves ==
    ASSUME TypeOK, OwnLocation, RegistryStep
    PROVE  /\ where' \in [Account -> Channel \cup {Nil}]
           /\ \A a \in Account : where'[a] # Nil => Owner[where'[a]] = a
<1> USE TalkAssumption DEF TypeOK, OwnLocation
<1>1. ASSUME NEW c \in Channel, Registry!Bind(c)
      PROVE  where' = [where EXCEPT ![Owner[c]] = c]
  BY <1>1 DEF Registry!Bind
<1>2. ASSUME NEW c \in Channel, Registry!Unbind(c)
      PROVE  where' = [where EXCEPT ![Owner[c]] = Nil]
  BY <1>2 DEF Registry!Unbind
<1>3. ASSUME NEW a \in Account, Registry!ExpireLocation(a)
      PROVE  where' = [where EXCEPT ![a] = Nil]
  BY <1>3 DEF Registry!ExpireLocation
<1>4. ASSUME NEW c \in Channel, Registry!Store(c) \/ Registry!Erase(c) \/ Registry!ExpireSession(c)
      PROVE  where' = where
  BY <1>4 DEF Registry!Store, Registry!Erase, Registry!ExpireSession
<1>5. \/ \E c \in Channel : where' = [where EXCEPT ![Owner[c]] = c]
      \/ \E a \in Account : where' = [where EXCEPT ![a] = Nil]
      \/ where' = where
  BY <1>1, <1>2, <1>3, <1>4 DEF RegistryStep, Registry!Next
<1>6. ASSUME NEW c \in Channel, where' = [where EXCEPT ![Owner[c]] = c]
      PROVE  /\ where' \in [Account -> Channel \cup {Nil}]
             /\ \A a \in Account : where'[a] # Nil => Owner[where'[a]] = a
  BY <1>6
<1>7. ASSUME NEW a \in Account, where' = [where EXCEPT ![a] = Nil]
      PROVE  /\ where' \in [Account -> Channel \cup {Nil}]
             /\ \A b \in Account : where'[b] # Nil => Owner[where'[b]] = b
  BY <1>7
<1> QED
  BY <1>5, <1>6, <1>7

\* The locals of a fetch keep their types.
LEMMA FetchTypes ==
    ASSUME TypeOK, NEW a \in Account
    PROVE  /\ fetch[a] \in FetchType
           /\ \A f \in FetchType : [fetch EXCEPT ![a] = f] \in [Account -> FetchType]
           /\ NoFetch(fetch[a].got) \in FetchType
           /\ NoFetch(fetch[a].got \cup fetch[a].page) \in FetchType
<1> USE DEF TypeOK
<1>1. fetch[a] \in FetchType
  OBVIOUS
<1>2. \A f \in FetchType : [fetch EXCEPT ![a] = f] \in [Account -> FetchType]
  OBVIOUS
<1>3. \A got \in SUBSET Talk : NoFetch(got) \in FetchType
  BY DEF NoFetch, FetchType
<1>4. fetch[a].got \in SUBSET Talk /\ fetch[a].page \in SUBSET Talk
  BY <1>1 DEF FetchType
<1> QED
  BY <1>1, <1>2, <1>3, <1>4

\* Offline messages are listed from a time of the model on.
LEMMA StartTimes ==
    ASSUME TypeOK, NEW a \in Account, NEW id \in Talk \cup {Nil}
    PROVE  SentTime(a, id) \cup Hidden(a, id) \subseteq Time \cup {0}
<1>1. SentTime(a, id) \subseteq Time \cup {0}
  BY DEF SentTime, TypeOK
<1>2. Hidden(a, id) \subseteq Time \cup {0}
  BY DEF Hidden
<1> QED
  BY <1>1, <1>2

\* Every step keeps the types.
LEMMA TypeNext ==
    ASSUME TypeOK, OwnLocation, [Next]_vars PROVE TypeOK'
<1> USE TalkAssumption DEF registryVars, talkVars, tableVars, Goto
<1>1. ASSUME RegistryStep PROVE TypeOK'
  <2>1. where' \in [Account -> Channel \cup {Nil}]
    BY <1>1, RegistryMoves
  <2>2. moved' \in [Talk -> BOOLEAN]
    BY <1>1 DEF RegistryStep, TypeOK
  <2> QED
    BY <1>1, <2>1, <2>2 DEF RegistryStep, TypeOK
<1>2. ASSUME NEW t \in Talk, Receive(t) PROVE TypeOK'
  BY <1>2 DEF Receive, TypeOK, TalkPc
<1>3. ASSUME NEW t \in Talk, Lookup(t) PROVE TypeOK'
  BY <1>3 DEF Lookup, TypeOK, TalkPc, TalkEnd
<1>4. ASSUME NEW t \in Talk, Insert(t) PROVE TypeOK'
  <2>1. Rows(t) \subseteq Row
    BY DEF Rows, Row, Direction
  <2> QED
    BY <1>4, <2>1 DEF Insert, Store, TypeOK, TalkPc, TalkEnd
<1>5. ASSUME NEW t \in Talk, Dispatch(t) PROVE TypeOK'
  BY <1>5 DEF Dispatch, TypeOK, TalkPc, TalkEnd
<1>6. ASSUME NEW t \in Talk, Respond(t) PROVE TypeOK'
  BY <1>6 DEF Respond, TypeOK, TalkPc, TalkEnd
<1>7. ASSUME NEW t \in Talk, Crash(t) PROVE TypeOK'
  BY <1>7 DEF Crash, TypeOK, TalkPc, TalkEnd
<1>8. ASSUME NEW a \in Account, NEW m \in Talk, ClientAcks(a, m) PROVE TypeOK'
  BY <1>8 DEF ClientAcks, MessageAck, TypeOK
<1>9. ASSUME NEW a \in Account, ExpireAck(a) PROVE TypeOK'
  BY <1>9 DEF ExpireAck, TypeOK
<1>10. ASSUME NEW a \in Account, NEW id \in Talk \cup {Nil}, ClientFetches(a, id) PROVE TypeOK'
  <2>1. PICK s \in Time \cup {0} :
           fetch' = [fetch EXCEPT ![a].at = "query", ![a].id = id, ![a].start = s]
    BY <1>10, StartTimes DEF ClientFetches, FetchStart
  <2>2. [fetch[a] EXCEPT !.at = "query", !.id = id, !.start = s] \in FetchType
    BY FetchTypes DEF FetchType
  <2>4. fetch' \in [Account -> FetchType]
    BY <2>1, <2>2, FetchTypes DEF TypeOK
  <2> QED
    BY <1>10, <2>4 DEF ClientFetches, FetchStart, TypeOK
<1>11. ASSUME NEW a \in Account, FetchQuery(a) PROVE TypeOK'
  <2>1. CASE fetch' = [fetch EXCEPT ![a] = NoFetch(@.got)]
    BY <1>11, <2>1, FetchTypes DEF FetchQuery, TypeOK
  <2>2. CASE \E page \in SUBSET Talk : fetch' = [fetch EXCEPT ![a].at = "ack", ![a].page = page]
    <3> PICK page \in SUBSET Talk : fetch' = [fetch EXCEPT ![a].at = "ack", ![a].page = page]
      BY <2>2
    <3>1. [fetch[a] EXCEPT !.at = "ack", !.page = page] \in FetchType
      BY FetchTypes DEF FetchType
    <3>2. fetch' \in [Account -> FetchType]
      BY <3>1, FetchTypes DEF TypeOK
    <3> QED
      BY <1>11, <3>2 DEF FetchQuery, TypeOK
  <2> QED
    BY <1>11, <2>1, <2>2 DEF FetchQuery, TypeOK
<1>12. ASSUME NEW a \in Account, FetchAck(a) PROVE TypeOK'
  <2>1. PICK f \in FetchType : fetch' = [fetch EXCEPT ![a] = f]
    BY <1>12, FetchTypes DEF FetchAck
  <2>2. fetch' \in [Account -> FetchType]
    BY <2>1, FetchTypes DEF TypeOK
  <2>3. fetch[a].id \in Talk \cup {Nil}
    BY FetchTypes DEF FetchType
  <2>4. ack' = ack \/ (fetch[a].id # Nil /\ ack' = [ack EXCEPT ![a] = fetch[a].id])
    BY <1>12 DEF FetchAck
  <2>5. ack' \in [Account -> Talk \cup {Nil}]
    BY <2>3, <2>4 DEF TypeOK
  <2> QED
    BY <1>12, <2>2, <2>5 DEF FetchAck, TypeOK
<1>13. CASE UNCHANGED vars
  BY <1>13 DEF vars, TypeOK
<1>14. \A a \in Reader : a \in Account
  OBVIOUS
<1> QED
  BY <1>1, <1>2, <1>3, <1>4, <1>5, <1>6, <1>7, <1>8, <1>9, <1>10, <1>11, <1>12, <1>13, <1>14
  DEF Next, TalkStep, ReadStep

\* A location is found where the registry keeps it.
LEMMA OwnLocationNext ==
    ASSUME TypeOK, OwnLocation, [Next]_vars PROVE OwnLocation'
<1> USE TalkAssumption DEF TypeOK, OwnLocation, registryVars, talkVars, Goto
<1>1. CASE RegistryStep
  <2>1. \A a \in Account : where'[a] # Nil => Owner[where'[a]] = a
    BY <1>1, RegistryMoves
  <2>2. found' = found
    BY <1>1 DEF RegistryStep
  <2> QED
    BY <2>1, <2>2
<1>2. ASSUME NEW t \in Talk, Lookup(t) PROVE OwnLocation'
  BY <1>2 DEF Lookup
<1>3. ASSUME NEW t \in Talk, Receive(t) \/ Insert(t) \/ Dispatch(t) \/ Respond(t) \/ Crash(t)
      PROVE  UNCHANGED <<where, found>>
  BY <1>3 DEF Receive, Insert, Dispatch, Respond, Crash
<1>4. ASSUME NEW a \in Reader, ReadStep(a) PROVE UNCHANGED <<where, found>>
  BY <1>4 DEF ReadStep, ClientAcks, MessageAck, ExpireAck, ClientFetches, FetchStart, FetchQuery, FetchAck
<1>5. CASE UNCHANGED vars
  BY <1>5 DEF vars
<1>6. CASE UNCHANGED <<where, found>>
  BY <1>6
<1> QED
  BY <1>1, <1>2, <1>3, <1>4, <1>5, <1>6 DEF Next, TalkStep

\* No step removes a message, a row or a push, and only DoUserTalk's own steps
\* touch its locals.
LEMMA TablesGrow ==
    ASSUME [Next]_vars
    PROVE  /\ content \subseteq content' /\ index \subseteq index' /\ pushed \subseteq pushed'
           /\ (\E t \in Talk : TalkStep(t)) \/ UNCHANGED <<talkVars, tableVars, pushed>>
<1> USE DEF talkVars, tableVars
<1>1. ASSUME NEW t \in Talk, TalkStep(t)
      PROVE  content \subseteq content' /\ index \subseteq index' /\ pushed \subseteq pushed'
  BY <1>1 DEF TalkStep, Receive, Lookup, Insert, Store, Dispatch, Respond, Crash
<1>2. ASSUME NEW a \in Reader, ReadStep(a) PROVE UNCHANGED <<talkVars, tableVars, pushed>>
  BY <1>2 DEF ReadStep, ClientAcks, MessageAck, ExpireAck, ClientFetches, FetchStart, FetchQuery, FetchAck
<1>3. CASE RegistryStep \/ UNCHANGED vars
  BY <1>3 DEF RegistryStep, vars
<1> QED
  BY <1>1, <1>2, <1>3 DEF Next

\* DoUserTalk keeps the order of its steps.
LEMMA TalkOrderNext ==
    ASSUME TypeOK, TalkOrder, [Next]_vars PROVE TalkOrder'
<1> USE DEF TypeOK, TalkOrder, talkVars, tableVars, Goto
<1>1. ASSUME NEW t \in Talk, Receive(t) PROVE TalkOrder'
  BY <1>1 DEF Receive
<1>2. ASSUME NEW t \in Talk, Lookup(t) PROVE TalkOrder'
  <2>1. \A now \in Time : now # 0
    BY TalkAssumption DEF Time
  <2> QED
    BY <1>2, <2>1 DEF Lookup
<1>3. ASSUME NEW t \in Talk, Insert(t) PROVE TalkOrder'
  BY <1>3 DEF Insert, Store
<1>4. ASSUME NEW t \in Talk, Dispatch(t) PROVE TalkOrder'
  BY <1>4 DEF Dispatch
<1>5. ASSUME NEW t \in Talk, Respond(t) PROVE TalkOrder'
  BY <1>5 DEF Respond
<1>6. ASSUME NEW t \in Talk, Crash(t) PROVE TalkOrder'
  BY <1>6 DEF Crash
<1>7. CASE UNCHANGED <<talkVars, tableVars, pushed>>
  BY <1>7
<1> QED
  BY <1>1, <1>2, <1>3, <1>4, <1>5, <1>6, <1>7, TablesGrow DEF TalkStep

\* A location that is not the one found was moved since.
LEMMA FoundHoldsNext ==
    ASSUME TypeOK, TalkOrder, FoundHolds, [Next]_vars PROVE FoundHolds'
<1> USE DEF TypeOK, FoundHolds, registryVars, talkVars, tableVars, Goto
<1>1. CASE RegistryStep
  <2> SUFFICES ASSUME NEW t \in Talk, sent'[t] # 0, ~moved'[t]
               PROVE  found'[t] = where'[Dest[t]]
    OBVIOUS
  <2>1. UNCHANGED <<sent, found>>
    BY <1>1 DEF RegistryStep
  <2>2. ~moved[t] /\ where'[Dest[t]] = where[Dest[t]]
    BY <1>1, <2>1 DEF RegistryStep
  <2> QED
    BY <2>1, <2>2
<1>2. ASSUME NEW t \in Talk, Lookup(t) PROVE FoundHolds'
  BY <1>2 DEF Lookup
<1>3. ASSUME NEW t \in Talk, Receive(t) \/ Insert(t) \/ Dispatch(t) \/ Respond(t) \/ Crash(t)
      PROVE  UNCHANGED <<where, found, sent, moved>>
  BY <1>3 DEF Receive, Insert, Dispatch, Respond, Crash
<1>4. ASSUME NEW a \in Reader, ReadStep(a) PROVE UNCHANGED <<where, found, sent, moved>>
  BY <1>4 DEF ReadStep, ClientAcks, MessageAck, ExpireAck, ClientFetches, FetchStart, FetchQuery, FetchAck
<1>5. CASE UNCHANGED vars
  BY <1>5 DEF vars
<1>6. CASE UNCHANGED <<where, found, sent, moved>>
  BY <1>6
<1> QED
  BY <1>1, <1>2, <1>3, <1>4, <1>5, <1>6 DEF Next, TalkStep

\* Contents and rows are written by Insert alone, together.
LEMMA TablesAgreeNext ==
    ASSUME TypeOK, TablesAgree, [Next]_vars PROVE TablesAgree'
<1> USE DEF talkVars, tableVars
<1>1. ASSUME NEW t \in Talk, Store(t) PROVE TablesAgree'
  BY <1>1, TalkAssumption DEF Store, TablesAgree, Rows, Party, TypeOK, Row
<1>2. CASE UNCHANGED tableVars
  BY <1>2 DEF TablesAgree
<1>3. ASSUME NEW t \in Talk, TalkStep(t) PROVE Store(t) \/ UNCHANGED tableVars
  BY <1>3 DEF TalkStep, Receive, Lookup, Insert, Dispatch, Respond, Crash
<1> QED
  BY <1>1, <1>2, <1>3, TablesGrow

\* What is pushed was stored, and goes to a channel of the receiver.
LEMMA PushedNext ==
    ASSUME TypeOK, OwnLocation, TalkOrder, PushedIsStored, [Next]_vars PROVE PushedIsStored'
<1> USE DEF talkVars, tableVars
<1>1. ASSUME NEW t \in Talk, Dispatch(t), found[t] \notin {Nil, From[t]}
      PROVE  t \in content /\ Owner[found[t]] = Dest[t]
  BY <1>1 DEF Dispatch, TalkOrder, OwnLocation, TypeOK
<1>2. ASSUME NEW t \in Talk, Dispatch(t) PROVE PushedIsStored'
  BY <1>1, <1>2 DEF Dispatch, PushedIsStored
<1>3. ASSUME NEW t \in Talk, TalkStep(t) PROVE Dispatch(t) \/ pushed' = pushed
  BY <1>3 DEF TalkStep, Receive, Lookup, Insert, Respond, Crash
<1>4. CASE pushed' = pushed
  BY <1>4, TablesGrow DEF PushedIsStored
<1> QED
  BY <1>2, <1>3, <1>4, TablesGrow

\* What an account knows is stored and its own.
LEMMA KnownIsOwn ==
    ASSUME TypeOK, PushedIsStored, FetchIsOwn, NEW a \in Account, NEW m \in Known(a)
    PROVE  m \in content /\ Party(a, m)
  BY DEF Known, PushedIsStored, FetchIsOwn, Party, TypeOK, FetchType

\* A fetch is given, and reads, messages of its account.
LEMMA FetchIsOwnNext ==
    ASSUME TypeOK, TablesAgree, PushedIsStored, FetchIsOwn, [Next]_vars PROVE FetchIsOwn'
<1> USE DEF TypeOK
<1>0. content \subseteq content'
  BY TablesGrow
<1>1. ASSUME NEW a \in Account, NEW id \in Talk \cup {Nil}, ClientFetches(a, id) PROVE FetchIsOwn'
  <2>1. id # Nil => id \in content /\ Party(a, id)
    BY <1>1, KnownIsOwn DEF ClientFetches, FetchStart
  <2>2. PICK s \in Time \cup {0} :
           fetch' = [fetch EXCEPT ![a].at = "query", ![a].id = id, ![a].start = s]
    BY <1>1, StartTimes DEF ClientFetches, FetchStart
  <2> QED
    BY <1>0, <2>1, <2>2 DEF FetchIsOwn, FetchType, Party
<1>2. ASSUME NEW a \in Account, FetchQuery(a) PROVE FetchIsOwn'
  <2>1. CASE fetch' = [fetch EXCEPT ![a] = NoFetch(@.got)]
    BY <1>0, <2>1 DEF FetchIsOwn, NoFetch, Party, FetchType
  <2>2. CASE \E page \in SUBSET {m \in content : <<a, 1, m>> \in index} :
                fetch' = [fetch EXCEPT ![a].at = "ack", ![a].page = page]
    <3> PICK page \in SUBSET {m \in content : <<a, 1, m>> \in index} :
                fetch' = [fetch EXCEPT ![a].at = "ack", ![a].page = page]
      BY <2>2
    <3>1. \A m \in page : m \in content /\ Party(a, m)
      BY DEF TablesAgree, Direction
    <3> QED
      BY <1>0, <3>1 DEF FetchIsOwn, Party, FetchType
  <2> QED
    BY <1>2, <2>1, <2>2 DEF FetchQuery
<1>3. ASSUME NEW a \in Account, FetchAck(a) PROVE FetchIsOwn'
  <2>1. PICK got \in SUBSET (fetch[a].got \cup fetch[a].page) :
           fetch' = [fetch EXCEPT ![a] = NoFetch(got)]
    BY <1>3 DEF FetchAck
  <2> QED
    BY <1>0, <2>1 DEF FetchIsOwn, NoFetch, Party, FetchType
<1>4. CASE UNCHANGED fetch
  BY <1>0, <1>4 DEF FetchIsOwn, Party
<1>5. ASSUME NEW a \in Account, (\E m \in Talk : ClientAcks(a, m)) \/ ExpireAck(a)
      PROVE  UNCHANGED fetch
  BY <1>5 DEF ClientAcks, MessageAck, ExpireAck
<1>6. (\E t \in Talk : TalkStep(t)) \/ RegistryStep \/ UNCHANGED vars => UNCHANGED fetch
  BY DEF TalkStep, Receive, Lookup, Insert, Dispatch, Respond, Crash, RegistryStep, vars
<1> QED
  BY <1>1, <1>2, <1>3, <1>4, <1>5, <1>6, TalkAssumption DEF Next, ReadStep

\* The read index is moved to messages the account knows.
LEMMA AckNext ==
    ASSUME TypeOK, PushedIsStored, FetchIsOwn, AckNamesContent, [Next]_vars
    PROVE  AckNamesContent'
<1> USE DEF TypeOK
<1>0. content \subseteq content'
  BY TablesGrow
<1>1. ASSUME NEW a \in Account, NEW m \in content, Party(a, m), ack' = [ack EXCEPT ![a] = m]
      PROVE  AckNamesContent'
  BY <1>0, <1>1 DEF AckNamesContent, Party
<1>2. ASSUME NEW a \in Account, NEW m \in Talk, ClientAcks(a, m) PROVE AckNamesContent'
  BY <1>1, <1>2, KnownIsOwn DEF ClientAcks, MessageAck
<1>3. ASSUME NEW a \in Account, ExpireAck(a) PROVE AckNamesContent'
  BY <1>0, <1>3 DEF ExpireAck, AckNamesContent
<1>4. CASE UNCHANGED ack
  BY <1>0, <1>4 DEF AckNamesContent
<1>5. ASSUME NEW a \in Account, FetchAck(a) PROVE AckNamesContent'
  BY <1>1, <1>4, <1>5 DEF FetchAck, FetchIsOwn
<1>6. ASSUME NEW a \in Account, NEW id \in Talk \cup {Nil}, ClientFetches(a, id) \/ FetchQuery(a)
      PROVE  UNCHANGED ack
  BY <1>6 DEF ClientFetches, FetchStart, FetchQuery
<1>7. (\E t \in Talk : TalkStep(t)) \/ RegistryStep \/ UNCHANGED vars => UNCHANGED ack
  BY DEF TalkStep, Receive, Lookup, Insert, Dispatch, Respond, Crash, RegistryStep, vars
<1> QED
  BY <1>2, <1>3, <1>4, <1>5, <1>6, <1>7, TalkAssumption DEF Next, ReadStep

-----------------------------------------------------------------------------
(* The theorems *)

\* Every state of the message service and of the DoUserTalks satisfies the
\* inductive invariant.
THEOREM Invariance == Spec => []IInv
<1>1. Init => IInv
  BY InvInit
<1>2. IInv /\ [Next]_vars => IInv'
  BY TypeNext, OwnLocationNext, TalkOrderNext, FoundHoldsNext, TablesAgreeNext,
     FetchIsOwnNext, PushedNext, AckNext DEF IInv
<1> QED
  BY <1>1, <1>2, PTL DEF Spec

\* The types of the state.
THEOREM TypeCorrect == Spec => []TypeOK
<1>1. IInv => TypeOK
  BY DEF IInv
<1> QED
  BY <1>1, Invariance, PTL

\* DoUserTalk answers its sender only when message and rows are stored and the
\* location it found was pushed to.
THEOREM AnsweredKept == Spec => []AnsweredIsKept
<1>1. IInv => AnsweredIsKept
  BY DEF IInv, AnsweredIsKept, TalkOrder, TablesAgree
<1> QED
  BY <1>1, Invariance, PTL

\* DoUserTalk pushes what InsertUserMessage has stored, to the receiver.
THEOREM PushedStored == Spec => []PushedIsStored
<1>1. IInv => PushedIsStored
  BY DEF IInv
<1> QED
  BY <1>1, Invariance, PTL

\* A receiver misses the push of an answered message only by moving.
THEOREM MissedExplained == Spec => []MissedOnlyByMove
<1>1. IInv => MissedOnlyByMove
  BY DEF IInv, MissedOnlyByMove, TalkOrder, FoundHolds
<1> QED
  BY <1>1, Invariance, PTL

\* If its clients name only messages they were shown, the read index that
\* MessageAck and GetOfflineMessageIndex write names a stored message of its
\* account.
THEOREM AckNames == Spec => []AckNamesContent
<1>1. IInv => AckNamesContent
  BY DEF IInv
<1> QED
  BY <1>1, Invariance, PTL

-----------------------------------------------------------------------------
(* Talk implements MessageStore. *)

\* A list starts after a message that the account was shown.
FetchIsShown ==
    \A a \in Account : fetch[a].id # Nil => fetch[a].id \in Known(a)

\* What a step makes of a fetch: its start is what was asked for, and what the client
\* was sent stays, with the page added by the last step.
LEMMA FetchMoves ==
    ASSUME TypeOK, [Next]_vars, NEW a \in Account
    PROVE  /\ fetch'[a].id \in {fetch[a].id, Nil} \cup Known(a)
           /\ \/ fetch'[a].got = fetch[a].got
              \/ FetchAck(a) /\ fetch'[a].got = fetch[a].got \cup fetch[a].page
<1> USE TalkAssumption DEF TypeOK
<1> DEFINE Goal == /\ fetch'[a].id \in {fetch[a].id, Nil} \cup Known(a)
                   /\ \/ fetch'[a].got = fetch[a].got
                      \/ FetchAck(a) /\ fetch'[a].got = fetch[a].got \cup fetch[a].page
<1>1. ASSUME NEW c \in Account, NEW id \in Talk \cup {Nil}, ClientFetches(c, id) PROVE Goal
  <2>1. PICK s \in Time \cup {0} :
           fetch' = [fetch EXCEPT ![c].at = "query", ![c].id = id, ![c].start = s]
    BY <1>1, StartTimes DEF ClientFetches, FetchStart
  <2>2. id \in Known(c) \cup {Nil}
    BY <1>1 DEF ClientFetches, FetchStart
  <2>3. fetch'[a].got = fetch[a].got
    BY <2>1 DEF FetchType
  <2>4. fetch'[a].id \in {fetch[a].id, Nil} \cup Known(a)
    BY <2>1, <2>2 DEF FetchType
  <2> QED
    BY <2>3, <2>4
<1>2. ASSUME NEW c \in Account, FetchQuery(c) PROVE Goal
  <2>1. CASE fetch' = [fetch EXCEPT ![c] = NoFetch(@.got)]
    BY <2>1 DEF NoFetch, FetchType
  <2>2. CASE \E page \in SUBSET Talk : fetch' = [fetch EXCEPT ![c].at = "ack", ![c].page = page]
    BY <2>2 DEF FetchType
  <2>3. \A P \in SUBSET {m \in content : <<c, 1, m>> \in index /\ sent[m] > fetch[c].start} :
            P \in SUBSET Talk
    OBVIOUS
  <2> QED
    BY <1>2, <2>1, <2>2, <2>3 DEF FetchQuery
<1>3. ASSUME NEW c \in Account, FetchAck(c) PROVE Goal
  <2>1. PICK got \in {fetch[c].got, fetch[c].got \cup fetch[c].page} :
           fetch' = [fetch EXCEPT ![c] = NoFetch(got)]
    BY <1>3 DEF FetchAck
  <2>2. a # c => fetch'[a] = fetch[a]
    BY <2>1
  <2>3. a = c => fetch'[a].got = got /\ fetch'[a].id = Nil
    BY <2>1 DEF NoFetch
  <2> QED
    BY <1>3, <2>2, <2>3
<1>4. ASSUME NEW c \in Account, (\E m \in Talk : ClientAcks(c, m)) \/ ExpireAck(c)
      PROVE  UNCHANGED fetch
  BY <1>4 DEF ClientAcks, MessageAck, ExpireAck
<1>5. (\E t \in Talk : TalkStep(t)) \/ RegistryStep \/ UNCHANGED vars => UNCHANGED fetch
  BY DEF TalkStep, Receive, Lookup, Insert, Dispatch, Respond, Crash, RegistryStep, vars
<1>6. UNCHANGED fetch => Goal
  OBVIOUS
<1> HIDE DEF Goal
<1>7. Goal
  BY <1>1, <1>2, <1>3, <1>4, <1>5, <1>6 DEF Next, ReadStep
<1> QED
  BY <1>7 DEF Goal

\* An account goes on knowing what it knows.
LEMMA KnownGrows ==
    ASSUME TypeOK, [Next]_vars, NEW a \in Account
    PROVE  Known(a) \subseteq Known(a)'
<1>1. pushed \subseteq pushed'
  BY TablesGrow
<1>2. fetch[a].got \subseteq fetch'[a].got
  BY FetchMoves
<1> QED
  BY <1>1, <1>2 DEF Known

\* A fetch takes its start from what the account knows.
LEMMA FetchIsShownNext ==
    ASSUME TypeOK, FetchIsShown, [Next]_vars PROVE FetchIsShown'
  BY KnownGrows, FetchMoves DEF FetchIsShown

\* Storing a message adds the rows of its two parties.
LEMMA StoreRows ==
    ASSUME TypeOK, NEW t \in Talk, Store(t)
    PROVE  rows' = rows \cup ({Dest[t], Owner[From[t]]} \X {t})
<1>1. \A r \in Rows(t) : <<r[1], r[3]>> \in {Dest[t], Owner[From[t]]} \X {t}
  BY DEF Rows
<1>2. ASSUME NEW p \in {Dest[t], Owner[From[t]]} \X {t}
      PROVE  \E r \in Rows(t) : <<r[1], r[3]>> = p
  BY DEF Rows
<1> HIDE DEF Rows
<1> QED
  BY <1>1, <1>2 DEF Store, rows

\* The messages of an account have a row of it.
LEMMA OwnRows ==
    ASSUME TablesAgree, NEW m \in content, NEW a, Party(a, m)
    PROVE  <<a, m>> \in rows
<1>1. Rows(m) \subseteq index
  BY DEF TablesAgree
<1>2. \E r \in Rows(m) : r[1] = a /\ r[3] = m
  BY DEF Rows, Party
<1> QED
  BY <1>1, <1>2 DEF rows

\* What an account knows does not change with the start or the query of a fetch.
LEMMA SeenSame ==
    ASSUME UNCHANGED pushed, \A a \in Account : fetch'[a].got = fetch[a].got
    PROVE  UNCHANGED seen
  BY DEF seen, Known

\* A push shows a message to its receiver.
LEMMA PushShows ==
    ASSUME TypeOK, NEW c \in Channel, NEW t \in Talk, Owner[c] = Dest[t],
           UNCHANGED fetch, pushed' = pushed \cup {<<c, t>>}
    PROVE  seen' = [seen EXCEPT ![Dest[t]] = @ \cup {t}]
<1>1. \A a \in Account : a # Dest[t] => Known(a)' = Known(a)
  BY DEF Known
<1>2. Known(Dest[t])' = Known(Dest[t]) \cup {t}
  BY DEF Known
<1> QED
  BY <1>1, <1>2, TalkAssumption DEF seen

\* One step of a DoUserTalk is an insert, a push, or nothing to the store.
LEMMA TalkStepStores ==
    ASSUME IInv, NEW t \in Talk, TalkStep(t)
    PROVE  [Messages!Next]_<<content, rows, seen, ack>>
<1> USE TalkAssumption DEF IInv, tableVars
<1>1. CASE Insert(t)
  <2>1. CASE Store(t)
    <3>1. t \notin content
      BY <1>1 DEF Insert, TalkOrder
    <3>2. UNCHANGED <<seen, ack>>
      BY <1>1 DEF Insert, seen, Known
    <3>3. Messages!Insert(t, {Dest[t], Owner[From[t]]})
      BY <2>1, <3>1, <3>2, StoreRows DEF Messages!Insert, Store
    <3>4. {Dest[t], Owner[From[t]]} \subseteq Account
      OBVIOUS
    <3> QED
      BY <3>3, <3>4 DEF Messages!Next
  <2>2. CASE UNCHANGED tableVars
    BY <1>1, <2>2 DEF Insert, rows, seen, Known
  <2> QED
    BY <1>1, <2>1, <2>2 DEF Insert
<1>2. CASE Dispatch(t)
  <2>0. UNCHANGED <<content, rows, ack, fetch>>
    BY <1>2 DEF Dispatch, rows
  <2>1. CASE pushed' = pushed
    BY <2>0, <2>1 DEF seen, Known
  <2>2. CASE found[t] # Nil /\ pushed' = pushed \cup {<<found[t], t>>}
    <3>1. found[t] \in Channel /\ Owner[found[t]] = Dest[t] /\ t \in content
      BY <1>2, <2>2 DEF Dispatch, TalkOrder, OwnLocation, TypeOK
    <3>2. <<Dest[t], t>> \in rows
      BY <3>1, OwnRows DEF Party
    <3>3. seen' = [seen EXCEPT ![Dest[t]] = @ \cup {t}]
      BY <2>0, <2>2, <3>1, PushShows
    <3> QED
      BY <2>0, <3>2, <3>3 DEF Messages!Push, Messages!Next
  <2> QED
    BY <1>2, <2>1, <2>2 DEF Dispatch
<1>3. CASE Receive(t) \/ Lookup(t) \/ Respond(t) \/ Crash(t)
  BY <1>3 DEF Receive, Lookup, Respond, Crash, rows, seen, Known
<1> QED
  BY <1>1, <1>2, <1>3 DEF TalkStep

\* One step of a reader moves the read index or shows a page.
LEMMA ReadStepShows ==
    ASSUME IInv, FetchIsShown, NEW a \in Reader, ReadStep(a)
    PROVE  [Messages!Next]_<<content, rows, seen, ack>>
<1> USE TalkAssumption DEF IInv, tableVars
<1>0. UNCHANGED <<content, rows, pushed>>
  BY DEF ReadStep, ClientAcks, MessageAck, ExpireAck, ClientFetches, FetchStart, FetchQuery, FetchAck, rows
<1>1. ASSUME NEW m \in Talk, ClientAcks(a, m) PROVE Messages!Next
  <2>1. m \in seen[a]
    BY <1>1 DEF ClientAcks, MessageAck, seen
  <2>2. UNCHANGED seen /\ ack' = [ack EXCEPT ![a] = m]
    BY <1>1 DEF ClientAcks, MessageAck, seen, Known
  <2> QED
    BY <1>0, <2>1, <2>2 DEF Messages!SetAck, Messages!Next
<1>2. ASSUME ExpireAck(a) PROVE Messages!Next
  <2>1. UNCHANGED seen /\ ack' = [ack EXCEPT ![a] = Nil]
    BY <1>2 DEF ExpireAck, seen, Known
  <2> QED
    BY <1>0, <2>1 DEF Messages!ExpireAck, Messages!Next
<1>3. ASSUME NEW id \in Talk \cup {Nil}, ClientFetches(a, id) \/ FetchQuery(a)
      PROVE  UNCHANGED <<seen, ack>>
  <2>1. UNCHANGED ack /\ [Next]_vars /\ fetch[a].at # "ack"
    BY <1>3 DEF ClientFetches, FetchStart, FetchQuery, Next, ReadStep
  <2>2. \A b \in Account : ~FetchAck(b) \/ b # a
    BY <2>1 DEF FetchAck
  <2>3. \A b \in Account : b # a => fetch'[b].got = fetch[b].got
    BY <1>3 DEF ClientFetches, FetchStart, FetchQuery, TypeOK
  <2>4. fetch'[a].got = fetch[a].got
    BY <2>1, <2>2, FetchMoves
  <2> QED
    BY <1>0, <2>1, <2>3, <2>4, SeenSame
<1>4. ASSUME FetchAck(a) PROVE [Messages!Next]_<<content, rows, seen, ack>>
  <2>1. CASE UNCHANGED ack /\ fetch' = [fetch EXCEPT ![a] = NoFetch(@.got)]
    <3>1. \A b \in Account : fetch'[b].got = fetch[b].got
      BY <2>1 DEF NoFetch, TypeOK
    <3> QED
      BY <1>0, <2>1, <3>1, SeenSame
  <2>2. CASE /\ ack' = IF fetch[a].id = Nil THEN ack ELSE [ack EXCEPT ![a] = fetch[a].id]
             /\ fetch' = [fetch EXCEPT ![a] = NoFetch(@.got \cup @.page)]
    <3> DEFINE m == IF fetch[a].id = Nil THEN ack[a] ELSE fetch[a].id
               page == fetch[a].page
    <3>1. page \in SUBSET Talk /\ \A n \in page : <<a, n>> \in rows
      BY OwnRows DEF FetchIsOwn, TypeOK, FetchType
    <3>2. m \in seen[a] \cup {ack[a]}
      BY DEF FetchIsShown, seen
    <3>3. m \in Talk \cup {Nil} /\ ack' = [ack EXCEPT ![a] = m]
      BY <2>2 DEF TypeOK, FetchType
    <3>4. Known(a)' = Known(a) \cup page
      BY <1>0, <2>2 DEF Known, NoFetch, TypeOK
    <3>5. \A b \in Account : b # a => Known(b)' = Known(b)
      BY <1>0, <2>2 DEF Known, TypeOK
    <3>6. seen' = [seen EXCEPT ![a] = @ \cup page]
      BY <3>4, <3>5 DEF seen
    <3>7. Messages!GetMessageIndex(a, page, m)
      BY <1>0, <3>1, <3>2, <3>3, <3>6 DEF Messages!GetMessageIndex
    <3> QED
      BY <3>1, <3>3, <3>7 DEF Messages!Next
  <2> QED
    BY <1>4, <2>1, <2>2 DEF FetchAck
<1> QED
  BY <1>0, <1>1, <1>2, <1>3, <1>4 DEF ReadStep

\* DoUserTalk and the handlers beside it are a message store.
THEOREM MessagesStored == Spec => ImplementsMessageStore
<1>1. Init => FetchIsShown /\ Messages!Init
  BY TalkAssumption DEF Init, NoFetch, FetchIsShown, Messages!Init, rows, seen, Known
<1>2. IInv /\ FetchIsShown /\ [Next]_vars => FetchIsShown'
  BY FetchIsShownNext DEF IInv
<1>3. IInv /\ FetchIsShown /\ [Next]_vars => [Messages!Next]_(Messages!vars)
  <2> SUFFICES ASSUME IInv, FetchIsShown, [Next]_vars
               PROVE  [Messages!Next]_<<content, rows, seen, ack>>
    BY DEF Messages!vars
  <2>1. CASE RegistryStep \/ UNCHANGED vars
    BY <2>1 DEF RegistryStep, vars, tableVars, rows, seen, Known
  <2> QED
    BY <2>1, TalkStepStores, ReadStepShows DEF Next
<1> QED
  BY <1>1, <1>2, <1>3, Invariance, PTL DEF Spec, Messages!Spec, ImplementsMessageStore

=============================================================================
