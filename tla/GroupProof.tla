----------------------------- MODULE GroupProof -----------------------------
(***************************************************************************)
(* Proofs about Group, for any accounts, calls, retries, messages and      *)
(* faults.                                                                 *)
(***************************************************************************)
EXTENDS Group, TLAPS

(* The inductive invariant, in parts *)

\* A call or a send that has begun knows its group, and requests are made by
\* calls, one for each try.
Begun ==
    /\ \A k \in Call : call[k].at # "idle" =>
          /\ call[k].try # 0
          /\ k \notin Creating \/ call[k].at = "ok" => call[k].group # Nil
    /\ \A k \in Call, i \in 1 .. Tries :
          handler[<<k, i>>] # "none" => call[k].at # "idle" /\ i <= call[k].try
    /\ \A s \in Sends : send[s].at # "idle" => send[s].group # Nil

\* A call that succeeded was answered at its latest try, and Create returns the
\* group of that try.
OkIsDone ==
    \A k \in Call : call[k].at = "ok" =>
        /\ handler[<<k, call[k].try>>] = "done"
        /\ k \in Creating => call[k].group = <<k, call[k].try>>

\* A group that was created is there, with the members that nobody quit for.
CreatedIsWhole ==
    \A g \in Creating \X (1 .. Tries) : handler[g] = "done" =>
        /\ g \in groups
        /\ \A a \in Members[g[1]] : <<a, g>> \in members \/ HasQuit(a, g)

\* InsertGroupMessage: the members read are between the two histories, and the
\* rows are theirs.
ReadIsCurrent ==
    \A s \in Sends :
        /\ send[s].at = "read" =>
              always[s] \subseteq MembersOf(send[s].group) /\ MembersOf(send[s].group) \subseteq ever[s]
        /\ send[s].at \in {"insert", "stored"} =>
              always[s] \subseteq send[s].read /\ send[s].read \subseteq ever[s]

RowsAreRead ==
    \A s \in Sends :
        /\ s \in content <=> send[s].at = "stored"
        /\ {row[1] : row \in RowsOf(s)} = IF s \in content THEN send[s].read ELSE {}

IInv ==
    /\ TypeOK /\ Begun
    /\ OkIsDone /\ CreatedIsWhole /\ JoinedIsMember
    /\ ReadIsCurrent /\ RowsAreRead

-----------------------------------------------------------------------------
(* What a step changes *)

\* Before the first call there are no groups.
LEMMA InvInit == Init => IInv
  BY GroupAssumption
  DEF Init, IInv, TypeOK, Begun, OkIsDone, CreatedIsWhole, ReadIsCurrent, RowsAreRead,
      RowsOf, JoinedIsMember, CallType, SendType, Handling, Call, Request

\* The types of what a call and a send consist of.
LEMMA FieldTypes ==
    ASSUME TypeOK
    PROVE  /\ \A k \in Call : call[k] \in CallType /\ call[k].try \in Nat
                                /\ call[k].group \in Request \cup {Nil}
           /\ \A s \in Sends : send[s] \in SendType /\ send[s].read \subseteq Account
                                 /\ send[s].group \in Request \cup {Nil}
           /\ \A k \in Call, c \in CallType : [call EXCEPT ![k] = c] \in [Call -> CallType]
           /\ \A s \in Sends, m \in SendType : [send EXCEPT ![s] = m] \in [Sends -> SendType]
  BY GroupAssumption DEF TypeOK, CallType, SendType

\* A client's step changes its own call, which has not succeeded before, and at
\* most puts a new request on the way.
LEMMA ClientMoves ==
    ASSUME TypeOK, Begun, NEW k \in Call, ClientStep(k)
    PROVE  /\ UNCHANGED <<tableVars, sendVars, historyVars>>
           /\ call[k].at # "ok"
           /\ \E c \in CallType :
                 /\ call' = [call EXCEPT ![k] = c]
                 /\ c.at # "idle" /\ c.try # 0
                 /\ k \notin Creating \/ c.at = "ok" => c.group # Nil
                 /\ call[k].at # "idle" /\ k \notin Creating => c.group = call[k].group
                 /\ c.at = "ok" => /\ handler[<<k, c.try>>] = "done"
                                   /\ k \in Creating => c.group = <<k, c.try>>
                 /\ \/ handler' = handler /\ c.try = call[k].try
                    \/ /\ c.at # "ok" /\ c.try \in 1 .. Tries
                       /\ handler' = [handler EXCEPT ![<<k, c.try>>] = "sent"]
                       /\ \A i \in 1 .. Tries : handler[<<k, i>>] # "none" => i < c.try
<1> USE GroupAssumption DEF TypeOK
<1> DEFINE Known(c) ==
             /\ c.at # "idle" /\ c.try # 0
             /\ k \notin Creating \/ c.at = "ok" => c.group # Nil
             /\ call[k].at # "idle" /\ k \notin Creating => c.group = call[k].group
           Success(c) ==
             c.at = "ok" => /\ handler[<<k, c.try>>] = "done"
                            /\ k \in Creating => c.group = <<k, c.try>>
           Asks(c) ==
             \/ handler' = handler /\ c.try = call[k].try
             \/ /\ c.at # "ok" /\ c.try \in 1 .. Tries
                /\ handler' = [handler EXCEPT ![<<k, c.try>>] = "sent"]
                /\ \A i \in 1 .. Tries : handler[<<k, i>>] # "none" => i < c.try
           Moved(c) ==
             call' = [call EXCEPT ![k] = c] /\ Known(c) /\ Success(c) /\ Asks(c)
<1>1. ASSUME NEW g \in Request \cup {Nil}, Start(k, g) PROVE \E c \in CallType : Moved(c)
  <2> DEFINE c == [at |-> "waiting", try |-> 1, group |-> g]
  <2>0. k \notin Creating => g # Nil
    BY <1>1 DEF Start, Told, Begun, Call
  <2>1. c \in CallType /\ call' = [call EXCEPT ![k] = c] /\ Known(c) /\ Success(c)
    BY <1>1, <2>0 DEF Start, CallType
  <2>2. Asks(c)
    BY <1>1 DEF Start, Begun
  <2> QED
    BY <2>1, <2>2
<1>2. ASSUME Receive(k) PROVE \E c \in CallType : Moved(c)
  <2>1. call[k].at # "idle" /\ call[k].try \in 1 .. Tries
    BY <1>2, FieldTypes DEF Receive, Begun, CallType
  <2>2. <<k, call[k].try>> \in Request
    BY <2>1 DEF Request
  <2>3. PICK h \in {"ok", "error"}, g \in Request \cup {Nil} :
           /\ call' = [call EXCEPT ![k].at = h, ![k].group = g]
           /\ h = "ok" => handler[<<k, call[k].try>>] = "done"
           /\ k \notin Creating => g = call[k].group
           /\ k \in Creating => g = <<k, call[k].try>>
    BY <1>2, <2>2, FieldTypes DEF Receive, Answered
  <2> DEFINE c == [call[k] EXCEPT !.at = h, !.group = g]
  <2>4. c \in CallType /\ c.at = h /\ c.try = call[k].try /\ c.group = g
    BY DEF CallType
  <2>5. call' = [call EXCEPT ![k] = c]
    BY <2>3
  <2> HIDE DEF c
  <2>6. c.group # Nil
    BY <2>1, <2>2, <2>3, <2>4 DEF Begun
  <2>7. Known(c)
    BY <2>1, <2>3, <2>4, <2>6
  <2>8. Success(c)
    BY <2>3, <2>4
  <2>9. Asks(c)
    BY <1>2, <2>4 DEF Receive
  <2> HIDE DEF Known, Success, Asks
  <2> QED
    BY <2>4, <2>5, <2>7, <2>8, <2>9
<1>3. ASSUME Timeout(k) PROVE \E c \in CallType : Moved(c)
  <2>1. CASE call[k].try < Tries
    <3> DEFINE c == [call[k] EXCEPT !.try = call[k].try + 1]
    <3>1. c \in CallType /\ c.at = "waiting" /\ c.group = call[k].group
          /\ c.try = call[k].try + 1
      BY <1>3, <2>1, FieldTypes DEF Timeout, CallType
    <3>2. call' = [call EXCEPT ![k] = c]
      BY <1>3, <2>1 DEF Timeout
    <3>3. handler' = [handler EXCEPT ![<<k, call[k].try + 1>>] = "sent"]
          /\ call[k].try + 1 \in 1 .. Tries
      BY <1>3, <2>1, FieldTypes DEF Timeout
    <3>4. k \notin Creating => call[k].group # Nil
      BY <1>3 DEF Timeout, Begun
    <3> HIDE DEF c
    <3>5. Known(c) /\ Success(c)
      BY <3>1, <3>4, FieldTypes
    <3>6. Asks(c)
      BY <3>1, <3>3, FieldTypes DEF Begun
    <3> QED
      BY <3>1, <3>2, <3>5, <3>6
  <2>2. CASE ~(call[k].try < Tries)
    <3> DEFINE c == [call[k] EXCEPT !.at = "error"]
    <3>1. c \in CallType /\ c.at = "error" /\ c.group = call[k].group /\ c.try = call[k].try
      BY FieldTypes DEF CallType
    <3>2. call' = [call EXCEPT ![k] = c] /\ handler' = handler
      BY <1>3, <2>2 DEF Timeout
    <3>3. c.try # 0 /\ (k \notin Creating => call[k].group # Nil)
      BY <3>1, <1>3 DEF Timeout, Begun
    <3> HIDE DEF c
    <3> QED
      BY <3>1, <3>2, <3>3
  <2> QED
    BY <2>1, <2>2
<1>4. UNCHANGED <<tableVars, sendVars, historyVars>> /\ call[k].at # "ok"
  BY DEF ClientStep, Start, Receive, Timeout
<1> QED
  BY <1>1, <1>2, <1>3, <1>4 DEF ClientStep

\* A handler answers one request, and changes the members only as the history
\* remembers.
LEMMA HandlerMoves ==
    ASSUME TypeOK, Begun, NEW r \in Request, Handle(r)
    PROVE  /\ UNCHANGED <<call, send, content, index>>
           /\ handler[r] = "sent"
           /\ \E h \in Handling \ {"none"} : handler' = [handler EXCEPT ![r] = h]
           /\ Remember \/ UNCHANGED <<members, always, ever>>
           /\ groups' \subseteq Request /\ members' \subseteq Account \X Request
           /\ undone' \in [Call -> BOOLEAN]
<1> USE GroupAssumption DEF MemberId, Handled, Fail, tableVars, sendVars, historyVars
<1>1. PICK k \in Call, i \in 1 .. Tries : r = <<k, i>>
  BY DEF Request
<1>2. ASSUME k \in Joining \cup Quitting, handler[r] = "sent" PROVE Row(k) \in Account \X Request
  <2>1. call[k].at # "idle" /\ k \notin Creating
    BY <1>1, <1>2 DEF Begun
  <2>2. call[k].group \in Request
    BY <2>1, FieldTypes DEF Begun
  <2> QED
    BY <1>2, <2>2 DEF Row
<1>3. CASE k \in Creating /\ GroupCreate(r)
  <2>1. Members[k] \X {r} \subseteq Account \X Request
    BY <1>3
  <2> QED
    BY <1>1, <1>3, <2>1 DEF GroupCreate, TypeOK, Handling
<1>4. CASE k \in Joining /\ GroupJoin(r)
  BY <1>1, <1>2, <1>4 DEF GroupJoin, TypeOK, Handling
<1>5. CASE k \in Quitting /\ GroupQuit(r)
  BY <1>1, <1>5 DEF GroupQuit, TypeOK, Handling
<1> QED
  BY <1>1, <1>3, <1>4, <1>5 DEF Handle

\* InsertGroupMessage changes its own state, its rows and its history.
LEMMA SendMoves ==
    ASSUME NEW s \in Sends, SendStep(s)
    PROVE  UNCHANGED <<call, handler, groups, members, undone>>
  BY DEF SendStep, SendBegin, SendRead, SendInsert, tableVars, historyVars

-----------------------------------------------------------------------------
(* Every step keeps every part. *)

\* The history keeps its type.
LEMMA RememberTypes ==
    ASSUME TypeOK, Remember \/ UNCHANGED <<always, ever>>
    PROVE  always' \in [Sends -> SUBSET Account] /\ ever' \in [Sends -> SUBSET Account]
  BY DEF TypeOK, Remember

\* Every step keeps the types.
LEMMA TypeNext ==
    ASSUME TypeOK, Begun, [Next]_vars PROVE TypeOK'
<1> USE GroupAssumption
<1>1. ASSUME NEW k \in Call, ClientStep(k) PROVE TypeOK'
  <2>1. call' \in [Call -> CallType]
    BY <1>1, ClientMoves, FieldTypes
  <2>2. handler' \in [Request -> Handling]
    BY <1>1, ClientMoves DEF TypeOK, Handling, Request
  <2> QED
    BY <1>1, <2>1, <2>2, ClientMoves DEF TypeOK, tableVars, sendVars, historyVars
<1>2. ASSUME NEW r \in Request, Handle(r) PROVE TypeOK'
  <2>1. handler' \in [Request -> Handling]
    BY <1>2, HandlerMoves DEF TypeOK
  <2>2. always' \in [Sends -> SUBSET Account] /\ ever' \in [Sends -> SUBSET Account]
    BY <1>2, HandlerMoves, RememberTypes
  <2> QED
    BY <1>2, <2>1, <2>2, HandlerMoves DEF TypeOK, MemberId
<1>3. ASSUME NEW s \in Sends, SendStep(s) PROVE TypeOK'
  <2> USE DEF TypeOK
  <2>1. ASSUME NEW g \in Request, SendBegin(s, g) PROVE TypeOK'
    <3>1. [at |-> "read", group |-> g, read |-> {}] \in SendType
      BY DEF SendType
    <3> QED
      BY <2>1, <3>1 DEF SendBegin, MembersOf, tableVars
  <2>2. ASSUME SendRead(s) PROVE TypeOK'
    <3>1. PICK h \in {"insert", "refused"}, m \in SUBSET Account :
             send' = [send EXCEPT ![s].at = h, ![s].read = m]
      <4>1. CASE send' = [send EXCEPT ![s].at = "insert", ![s].read = MembersOf(send[s].group)]
        BY <4>1 DEF MembersOf
      <4>2. CASE send' = [send EXCEPT ![s].at = "refused"]
        <5>1. send' = [send EXCEPT ![s].at = "refused", ![s].read = send[s].read]
          BY <4>2 DEF SendType
        <5> QED
          BY <5>1, FieldTypes
      <4> QED
        BY <2>2, <4>1, <4>2 DEF SendRead
    <3>2. [send[s] EXCEPT !.at = h, !.read = m] \in SendType
      BY DEF SendType
    <3>3. send' \in [Sends -> SendType]
      BY <3>1, <3>2
    <3> QED
      BY <2>2, <3>3 DEF SendRead, tableVars, historyVars
  <2>3. ASSUME SendInsert(s) PROVE TypeOK'
    <3>1. PICK h \in {"stored", "refused"} : send' = [send EXCEPT ![s].at = h]
      BY <2>3 DEF SendInsert
    <3>2. [send[s] EXCEPT !.at = h] \in SendType
      BY DEF SendType
    <3>3. send' \in [Sends -> SendType]
      BY <3>1, <3>2
    <3>4. content' \subseteq Sends /\ index' \subseteq Account \X {0, 1} \X MemberId \X Sends
      <4>1. CASE UNCHANGED <<content, index>>
        BY <4>1
      <4>2. CASE content' = content \cup {s} /\ index' = index \cup FanOut(s)
        <5>1. send[s].group \in Request
          BY <2>3, FieldTypes DEF SendInsert, Begun
        <5>2. FanOut(s) \subseteq Account \X {0, 1} \X MemberId \X Sends
          BY <5>1, FieldTypes DEF FanOut, MemberId
        <5> QED
          BY <4>2, <5>2
      <4> QED
        BY <2>3, <4>1, <4>2 DEF SendInsert
    <3> QED
      BY <2>3, <3>3, <3>4 DEF SendInsert, tableVars, historyVars
  <2> QED
    BY <1>3, <2>1, <2>2, <2>3 DEF SendStep
<1>4. CASE UNCHANGED vars
  BY <1>4 DEF vars, TypeOK
<1> QED
  BY <1>1, <1>2, <1>3, <1>4 DEF Next

\* Requests are sent by calls, and answered after.
LEMMA BegunNext ==
    ASSUME TypeOK, Begun, [Next]_vars PROVE Begun'
<1> USE GroupAssumption DEF TypeOK, Begun
<1>1. ASSUME NEW k \in Call, ClientStep(k) PROVE Begun'
  <2>1. PICK c \in CallType :
           /\ call' = [call EXCEPT ![k] = c]
           /\ c.at # "idle" /\ c.try # 0
           /\ k \notin Creating \/ c.at = "ok" => c.group # Nil
           /\ \/ handler' = handler /\ c.try = call[k].try
              \/ /\ c.try \in 1 .. Tries
                 /\ handler' = [handler EXCEPT ![<<k, c.try>>] = "sent"]
                 /\ \A i \in 1 .. Tries : handler[<<k, i>>] # "none" => i < c.try
    BY <1>1, ClientMoves
  <2>2. ASSUME NEW j \in Call, NEW i \in 1 .. Tries, handler'[<<j, i>>] # "none"
        PROVE  call'[j].at # "idle" /\ i <= call'[j].try
    <3>1. CASE j # k
      <4>1. handler'[<<j, i>>] = handler[<<j, i>>]
        BY <2>1, <3>1 DEF Request
      <4> QED
        BY <2>1, <2>2, <3>1, <4>1
    <3>2. CASE j = k
      <4>1. CASE handler' = handler /\ c.try = call[k].try
        BY <2>1, <2>2, <3>2, <4>1
      <4>2. CASE /\ c.try \in 1 .. Tries
                 /\ handler' = [handler EXCEPT ![<<k, c.try>>] = "sent"]
                 /\ \A n \in 1 .. Tries : handler[<<k, n>>] # "none" => n < c.try
        <5>1. i = c.try \/ handler[<<k, i>>] # "none"
          BY <2>2, <3>2, <4>2
        <5> QED
          BY <2>1, <3>2, <4>2, <5>1
      <4> QED
        BY <2>1, <4>1, <4>2
    <3> QED
      BY <3>1, <3>2
  <2>3. send' = send
    BY <1>1, ClientMoves DEF sendVars
  <2> QED
    BY <2>1, <2>2, <2>3
<1>2. ASSUME NEW r \in Request, Handle(r) PROVE Begun'
  <2>1. UNCHANGED <<call, send>> /\ \A q \in Request : handler'[q] # "none" => handler[q] # "none"
    BY <1>2, HandlerMoves
  <2> QED
    BY <2>1 DEF Request
<1>3. ASSUME NEW s \in Sends, SendStep(s) PROVE Begun'
  <2>1. UNCHANGED <<call, handler>>
    BY <1>3, SendMoves
  <2>2. \A m \in Sends : send'[m].at # "idle" => send'[m].group # Nil
    BY <1>3 DEF SendStep, SendBegin, SendRead, SendInsert, SendType
  <2> QED
    BY <2>1, <2>2
<1>4. CASE UNCHANGED vars
  BY <1>4 DEF vars
<1> QED
  BY <1>1, <1>2, <1>3, <1>4 DEF Next

\* An InsertGroupMessage reads what is current, and the histories go apart from
\* it only in one direction each.
LEMMA ReadNext ==
    ASSUME TypeOK, Begun, ReadIsCurrent, [Next]_vars PROVE ReadIsCurrent'
<1> USE DEF ReadIsCurrent
<1>1. ASSUME NEW r \in Request, Handle(r) PROVE ReadIsCurrent'
  <2>1. send' = send
    BY <1>1, HandlerMoves
  <2>2. CASE Remember
    <3> SUFFICES ASSUME NEW s \in Sends
                 PROVE  /\ send[s].at = "read" =>
                              /\ always'[s] \subseteq MembersOf(send[s].group)'
                              /\ MembersOf(send[s].group)' \subseteq ever'[s]
                        /\ send[s].at \in {"insert", "stored"} =>
                              always'[s] \subseteq send[s].read /\ send[s].read \subseteq ever'[s]
      BY <2>1 DEF MembersOf
    <3>1. always'[s] = always[s] \cap {a \in Account : <<a, send[s].group>> \in members'}
      BY <2>2 DEF Remember
    <3>2. ever'[s] = ever[s] \cup {a \in Account : <<a, send[s].group>> \in members'}
      BY <2>2 DEF Remember
    <3>3. MembersOf(send[s].group)' = {a \in Account : <<a, send[s].group>> \in members'}
      BY <2>1 DEF MembersOf
    <3> QED
      BY <3>1, <3>2, <3>3
  <2>3. CASE UNCHANGED <<members, always, ever>>
    BY <2>1, <2>3 DEF MembersOf
  <2> QED
    BY <1>1, <2>2, <2>3, HandlerMoves
<1>2. ASSUME NEW s \in Sends, SendStep(s) PROVE ReadIsCurrent'
  <2> USE DEF TypeOK, SendType, MembersOf, historyVars
  <2>1. members' = members
    BY <1>2, SendMoves
  <2>2. ASSUME NEW g \in Request, SendBegin(s, g) PROVE ReadIsCurrent'
    BY <2>1, <2>2 DEF SendBegin
  <2>3. ASSUME SendRead(s) PROVE ReadIsCurrent'
    <3>1. UNCHANGED <<always, ever>> /\ send[s].at = "read"
      BY <2>3 DEF SendRead
    <3>2. \A m \in Sends \ {s} : send'[m] = send[m]
      BY <2>3 DEF SendRead
    <3>3. \/ send'[s].at = "insert" /\ send'[s].read = MembersOf(send[s].group)
          \/ send'[s].at = "refused"
      BY <2>3 DEF SendRead
    <3> QED
      BY <2>1, <3>1, <3>2, <3>3
  <2>4. ASSUME SendInsert(s) PROVE ReadIsCurrent'
    BY <2>1, <2>4 DEF SendInsert
  <2> QED
    BY <1>2, <2>2, <2>3, <2>4 DEF SendStep
<1>3. CASE UNCHANGED <<members, send, always, ever>>
  BY <1>3 DEF MembersOf
<1> QED
  BY <1>1, <1>2, <1>3, ClientMoves DEF Next, vars, tableVars, sendVars, historyVars

\* The rows of a message are written once, with its content, for the members
\* that were read.
LEMMA RowsNext ==
    ASSUME TypeOK, Begun, RowsAreRead, [Next]_vars PROVE RowsAreRead'
<1> USE DEF RowsAreRead, RowsOf
<1>1. ASSUME NEW s \in Sends, SendStep(s) PROVE RowsAreRead'
  <2>1. CASE UNCHANGED <<content, index>>
    <3>1. \A m \in Sends : /\ send'[m].at = "stored" <=> send[m].at = "stored"
                           /\ send[m].at = "stored" => send'[m].read = send[m].read
      BY <1>1, <2>1 DEF SendStep, SendBegin, SendRead, SendInsert, TypeOK, SendType
    <3> QED
      BY <2>1, <3>1
  <2>2. CASE SendInsert(s) /\ content' = content \cup {s} /\ index' = index \cup FanOut(s)
    <3>1. send' = [send EXCEPT ![s].at = "stored"]
      BY <2>2 DEF SendInsert, TypeOK
    <3>2. \A m \in Sends : m # s => RowsOf(m)' = RowsOf(m)
      BY <2>2 DEF FanOut
    <3>3. RowsOf(s) = {} /\ s \notin content
      BY <2>2 DEF SendInsert
    <3>4. {row[1] : row \in RowsOf(s)'} = send[s].read
      <4>1. RowsOf(s)' = FanOut(s)
        BY <2>2, <3>3 DEF FanOut
      <4>2. \A row \in FanOut(s) : row[1] \in send[s].read
        BY DEF FanOut
      <4>3. ASSUME NEW a \in send[s].read PROVE \E row \in FanOut(s) : row[1] = a
        <5> DEFINE row == <<a, IF a = Sender[s] THEN 1 ELSE 0, <<a, send[s].group>>, s>>
        <5>1. row \in FanOut(s) /\ row[1] = a
          BY DEF FanOut
        <5> QED
          BY <5>1
      <4> QED
        BY <4>1, <4>2, <4>3
    <3> QED
      BY <2>2, <3>1, <3>2, <3>4 DEF TypeOK, SendType
  <2> QED
    BY <1>1, <2>1, <2>2 DEF SendStep, SendBegin, SendRead, SendInsert
<1>2. CASE UNCHANGED <<send, content, index>>
  BY <1>2
<1> QED
  BY <1>1, <1>2, ClientMoves, HandlerMoves DEF Next, vars, sendVars

\* A call succeeds with the answer to its latest try, which nothing takes back.
LEMMA OkNext ==
    ASSUME TypeOK, Begun, OkIsDone, [Next]_vars PROVE OkIsDone'
<1> USE GroupAssumption DEF TypeOK, OkIsDone
<1>1. ASSUME NEW k \in Call, ClientStep(k) PROVE OkIsDone'
  <2>1. PICK c \in CallType :
           /\ call' = [call EXCEPT ![k] = c]
           /\ c.at = "ok" => /\ handler[<<k, c.try>>] = "done"
                             /\ k \in Creating => c.group = <<k, c.try>>
           /\ \/ handler' = handler
              \/ c.at # "ok" /\ handler' = [handler EXCEPT ![<<k, c.try>>] = "sent"]
    BY <1>1, ClientMoves
  <2>2. ASSUME NEW j \in Call, j # k, call[j].at = "ok"
        PROVE  handler'[<<j, call[j].try>>] = handler[<<j, call[j].try>>]
    BY <2>1, <2>2, FieldTypes DEF Request, Begun, CallType
  <2> QED
    BY <2>1, <2>2
<1>2. ASSUME NEW r \in Request, Handle(r) PROVE OkIsDone'
  <2>1. UNCHANGED call /\ \A q \in Request : handler[q] = "done" => handler'[q] = "done"
    BY <1>2, HandlerMoves
  <2>2. \A j \in Call : call[j].at = "ok" => <<j, call[j].try>> \in Request
    BY FieldTypes DEF Request, Begun, CallType
  <2> QED
    BY <2>1, <2>2
<1>3. ASSUME NEW s \in Sends, SendStep(s) PROVE OkIsDone'
  BY <1>3, SendMoves
<1>4. CASE UNCHANGED vars
  BY <1>4 DEF vars
<1> QED
  BY <1>1, <1>2, <1>3, <1>4 DEF Next

\* A Quit that was carried out stays so, with its group.
LEMMA QuitStays ==
    ASSUME NEW a \in Account, NEW g \in Request, HasQuit(a, g),
           \A q \in Quitting, n \in 1 .. Tries : handler[<<q, n>>] = "done" =>
               handler'[<<q, n>>] = "done" /\ call'[q].group = call[q].group
    PROVE  HasQuit(a, g)'
<1>1. PICK q \in Quitting, n \in 1 .. Tries : Row(q) = <<a, g>> /\ handler[<<q, n>>] = "done"
  BY DEF HasQuit
<1>2. Row(q)' = <<a, g>> /\ handler'[<<q, n>>] = "done"
  BY <1>1 DEF Row
<1> QED
  BY <1>2 DEF HasQuit

\* A created group loses members by handled Quits only, and nothing it is made
\* of is taken back.
LEMMA CreatedNext ==
    ASSUME TypeOK, Begun, CreatedIsWhole, [Next]_vars PROVE CreatedIsWhole'
<1> USE GroupAssumption DEF TypeOK
<1>0. Creating \X (1 .. Tries) \subseteq Request /\ Quitting \X (1 .. Tries) \subseteq Request
  BY DEF Request, Call
<1>1. ASSUME groups \subseteq groups',
             \A a \in Account, g \in Request : <<a, g>> \in members =>
                 <<a, g>> \in members' \/ HasQuit(a, g)',
             \A q \in Quitting, n \in 1 .. Tries : handler[<<q, n>>] = "done" =>
                 handler'[<<q, n>>] = "done" /\ call'[q].group = call[q].group,
             NEW g \in Creating \X (1 .. Tries), handler[g] = "done"
      PROVE  g \in groups' /\ \A a \in Members[g[1]] : <<a, g>> \in members' \/ HasQuit(a, g)'
  <2>1. g \in groups'
    BY <1>1 DEF CreatedIsWhole
  <2>2. ASSUME NEW a \in Members[g[1]] PROVE <<a, g>> \in members' \/ HasQuit(a, g)'
    <3>1. a \in Account /\ g \in Request
      BY <1>0, <2>2
    <3>2. <<a, g>> \in members \/ HasQuit(a, g)
      BY <1>1 DEF CreatedIsWhole
    <3> QED
      BY <1>1, <3>1, <3>2, QuitStays
  <2> QED
    BY <2>1, <2>2
<1>2. ASSUME NEW k \in Call, ClientStep(k) PROVE CreatedIsWhole'
  <2>1. PICK c \in CallType :
           /\ call' = [call EXCEPT ![k] = c]
           /\ call[k].at # "idle" /\ k \notin Creating => c.group = call[k].group
           /\ \/ handler' = handler
              \/ /\ c.try \in 1 .. Tries /\ handler' = [handler EXCEPT ![<<k, c.try>>] = "sent"]
                 /\ \A i \in 1 .. Tries : handler[<<k, i>>] # "none" => i < c.try
    BY <1>2, ClientMoves
  <2>2. \A g \in Creating \X (1 .. Tries) : handler'[g] = "done" => handler[g] = "done"
    BY <1>0, <2>1
  <2>3. ASSUME NEW q \in Quitting, NEW n \in 1 .. Tries, handler[<<q, n>>] = "done"
        PROVE  handler'[<<q, n>>] = "done" /\ call'[q].group = call[q].group
    <3>1. call[q].at # "idle" /\ q \in Call /\ q \notin Creating
      BY <2>3 DEF Begun, Call
    <3>2. call'[q].group = call[q].group
      BY <2>1, <3>1
    <3>3. handler'[<<q, n>>] = "done"
      BY <2>1, <2>3 DEF Request, Call
    <3> QED
      BY <3>2, <3>3
  <2>4. UNCHANGED <<groups, members>>
    BY <1>2, ClientMoves DEF tableVars
  <2> QED
    BY <1>1, <2>2, <2>3, <2>4 DEF CreatedIsWhole
<1>3. ASSUME NEW r \in Request, Handle(r) PROVE CreatedIsWhole'
  <2> USE DEF Handled, Fail, tableVars, sendVars, historyVars
  <2>1. PICK k \in Call, i \in 1 .. Tries : r = <<k, i>>
    BY DEF Request
  <2>2. ASSUME NEW q \in Quitting, NEW n \in 1 .. Tries, handler[<<q, n>>] = "done"
        PROVE  handler'[<<q, n>>] = "done" /\ call'[q].group = call[q].group
    BY <1>0, <1>3, <2>2, HandlerMoves
  <2>3. CASE k \in Creating /\ GroupCreate(r)
    <3>1. ASSUME NEW g \in Creating \X (1 .. Tries), handler'[g] = "done", handler[g] # "done"
          PROVE  g \in groups' /\ \A a \in Members[g[1]] : <<a, g>> \in members'
      <4>1. g = r
        BY <1>0, <2>3, <3>1 DEF GroupCreate
      <4>2. groups' = groups \cup {r} /\ members' = members \cup (Members[r[1]] \X {r})
        BY <2>3, <3>1, <4>1 DEF GroupCreate
      <4> QED
        BY <4>1, <4>2
    <3>2. groups \subseteq groups' /\ members \subseteq members'
      BY <2>3 DEF GroupCreate
    <3> QED
      BY <1>1, <2>2, <3>1, <3>2 DEF CreatedIsWhole
  <2>4. CASE k \in Joining /\ GroupJoin(r)
    <3>1. groups \subseteq groups' /\ members \subseteq members'
      BY <2>4 DEF GroupJoin
    <3>2. \A g \in Creating \X (1 .. Tries) : handler'[g] = "done" => handler[g] = "done"
      BY <1>0, <2>1, <2>4 DEF GroupJoin
    <3> QED
      BY <1>1, <2>2, <3>1, <3>2 DEF CreatedIsWhole
  <2>5. CASE k \in Quitting /\ GroupQuit(r)
    <3>1. groups' = groups /\ members \ members' \subseteq {Row(k)}
      BY <2>1, <2>5 DEF GroupQuit
    <3>2. members' # members => handler'[<<k, i>>] = "done"
      BY <2>1, <2>5 DEF GroupQuit
    <3>3. Row(k)' = Row(k)
      BY <1>3, HandlerMoves DEF Row
    <3>4. ASSUME NEW a \in Account, NEW g \in Request, <<a, g>> \in members
          PROVE  <<a, g>> \in members' \/ HasQuit(a, g)'
      <4>1. CASE <<a, g>> \notin members'
        <5>1. Row(k)' = <<a, g>> /\ handler'[<<k, i>>] = "done"
          BY <3>1, <3>2, <3>3, <3>4, <4>1
        <5> QED
          BY <2>5, <5>1 DEF HasQuit
      <4> QED
        BY <4>1
    <3>5. \A g \in Creating \X (1 .. Tries) : handler'[g] = "done" => handler[g] = "done"
      BY <1>0, <2>1, <2>5 DEF GroupQuit
    <3> QED
      BY <1>1, <2>2, <3>1, <3>4, <3>5 DEF CreatedIsWhole
  <2> QED
    BY <1>3, <2>1, <2>3, <2>4, <2>5 DEF Handle
<1>4. ASSUME UNCHANGED <<call, handler, groups, members>> PROVE CreatedIsWhole'
  BY <1>1, <1>4 DEF CreatedIsWhole
<1> QED
  BY <1>2, <1>3, <1>4, SendMoves DEF Next, vars

\* A join lasts until a quit, which the history remembers.
LEMMA JoinedNext ==
    ASSUME TypeOK, Begun, JoinedIsMember, [Next]_vars PROVE JoinedIsMember'
<1> USE GroupAssumption DEF JoinedIsMember
<1>1. ASSUME NEW k \in Call, ClientStep(k) PROVE JoinedIsMember'
  <2> SUFFICES ASSUME NEW j \in Joining, NEW i \in 1 .. Tries,
                      handler'[<<j, i>>] \in {"done", "exists"}, ~undone'[j]
               PROVE  Row(j)' \in members'
    OBVIOUS
  <2>1. handler[<<j, i>>] \in {"done", "exists"}
    <3>1. PICK r : handler' = handler \/ handler' = [handler EXCEPT ![r] = "sent"]
      BY <1>1, ClientMoves
    <3> QED
      BY <3>1 DEF TypeOK, Request, Call
  <2>2. call[j].at # "idle"
    BY <2>1 DEF Begun, Call
  <2>3. call'[j].group = call[j].group
    BY <1>1, <2>2, ClientMoves DEF TypeOK, Call
  <2>4. UNCHANGED <<members, undone>>
    BY <1>1, ClientMoves DEF tableVars, historyVars
  <2> QED
    BY <2>1, <2>3, <2>4 DEF Row
<1>2. ASSUME NEW r \in Request, Handle(r) PROVE JoinedIsMember'
  <2>1. PICK k \in Call, n \in 1 .. Tries : r = <<k, n>>
    BY DEF Request
  <2>2. call' = call
    BY <1>2, HandlerMoves
  <2> SUFFICES ASSUME NEW j \in Joining, NEW i \in 1 .. Tries,
                      handler'[<<j, i>>] \in {"done", "exists"}, ~undone'[j]
               PROVE  Row(j) \in members'
    BY <2>2 DEF Row
  <2>3. CASE k \in Joining /\ GroupJoin(r)
    BY <2>1, <2>3 DEF GroupJoin, Handled, Fail, TypeOK, Request, Call, tableVars, historyVars, sendVars
  <2>4. CASE k \in Creating /\ GroupCreate(r)
    BY <2>1, <2>4 DEF GroupCreate, Handled, Fail, TypeOK, Request, Call, tableVars, historyVars, sendVars
  <2>5. CASE k \in Quitting /\ GroupQuit(r)
    <3>1. handler[<<j, i>>] \in {"done", "exists"}
      BY <2>1, <2>5 DEF GroupQuit, Handled, TypeOK, Request, Call
    <3>2. call[j].at # "idle"
      BY <3>1 DEF Begun, Call
    <3> QED
      BY <2>1, <2>5, <3>1, <3>2 DEF GroupQuit, Call, tableVars, historyVars, sendVars
  <2> QED
    BY <1>2, <2>1, <2>3, <2>4, <2>5 DEF Handle
<1>3. ASSUME NEW s \in Sends, SendStep(s) PROVE JoinedIsMember'
  BY <1>3, SendMoves DEF Row
<1>4. CASE UNCHANGED vars
  BY <1>4 DEF vars, Row
<1> QED
  BY <1>1, <1>2, <1>3, <1>4 DEF Next

-----------------------------------------------------------------------------
(* The theorems *)

\* Every state of the group service and its clients satisfies the inductive
\* invariant.
THEOREM Invariance == Spec => []IInv
<1>1. Init => IInv
  BY InvInit
<1>2. IInv /\ [Next]_vars => IInv'
  BY TypeNext, BegunNext, OkNext, CreatedNext, ReadNext, RowsNext, JoinedNext DEF IInv
<1> QED
  BY <1>1, <1>2, PTL DEF Spec

\* The types of the state.
THEOREM TypeCorrect == Spec => []TypeOK
<1>1. IInv => TypeOK
  BY DEF IInv
<1> QED
  BY <1>1, Invariance, PTL

\* The group that GroupHttp.Create returns is in the database with its members.
THEOREM ToldIsWhole == Spec => []ToldGroupIsWhole
<1>1. IInv => ToldGroupIsWhole
  <2> SUFFICES ASSUME IInv, NEW k \in Creating, call[k].at = "ok", NEW g, g = call[k].group
               PROVE  /\ g \in groups
                      /\ \A a \in Members[g[1]] : <<a, g>> \in members \/ HasQuit(a, g)
    BY DEF ToldGroupIsWhole, Told
  <2>1. k \in Call /\ call[k].try \in 1 .. Tries
    BY FieldTypes DEF IInv, Begun, Call, CallType, TypeOK
  <2>2. g = <<k, call[k].try>> /\ handler[g] = "done"
    BY <2>1 DEF IInv, OkIsDone
  <2> QED
    BY <2>1, <2>2 DEF IInv, CreatedIsWhole
<1> QED
  BY <1>1, Invariance, PTL

\* A request that its handler has not answered is one of a call that waits or gave
\* a try up.
LEMMA SentIsUnderWay ==
    ASSUME IInv, NEW k \in Call, NEW i \in 1 .. Tries, handler[<<k, i>>] = "sent"
    PROVE  UnderWay(k)
<1>1. call[k].at # "idle" /\ i <= call[k].try
  BY DEF IInv, Begun
<1>2. CASE call[k].try > 1
  BY <1>2 DEF GaveUp, UnderWay
<1>3. CASE ~(call[k].try > 1)
  <2>1. call[k].try = i
    BY <1>1, <1>3, FieldTypes DEF IInv
  <2>2. call[k].at # "ok"
    BY <2>1 DEF IInv, OkIsDone
  <2>3. call[k].at \in {"waiting", "error"}
    BY <1>1, <2>2, FieldTypes DEF IInv, CallType
  <2> QED
    BY <2>1, <2>3 DEF GaveUp, UnderWay
<1> QED
  BY <1>2, <1>3

\* Each row changes only by a call of its own that waits or gave up a try.
THEOREM NoGhosts == Spec => NoGhostChange
<1> DEFINE Added(row) ==
               \/ \E k \in Joining : Row(k) = row /\ UnderWay(k)
               \/ \E k \in Creating : row[2][1] = k /\ row[1] \in Members[k] /\ UnderWay(k)
           Removed(row) == \E k \in Quitting : Row(k) = row /\ UnderWay(k)
           Owned == /\ \A row \in members' \ members : Added(row)
                    /\ \A row \in members \ members' : Removed(row)
                    /\ groups \subseteq groups'
                    /\ \A g \in groups' \ groups : g[1] \in Creating /\ UnderWay(g[1])
<1>1. IInv /\ [Next]_vars => [Owned]_vars
  <2> SUFFICES ASSUME IInv, [Next]_vars PROVE Owned
    OBVIOUS
  <2>1. CASE UNCHANGED tableVars
    BY <2>1 DEF tableVars
  <2>2. ASSUME NEW r \in Request, Handle(r) PROVE Owned
    <3>1. PICK k \in Call, i \in 1 .. Tries : r = <<k, i>> /\ r[1] = k
      BY DEF Request
    <3>2. UnderWay(k)
      <4>1. handler[<<k, i>>] = "sent"
        BY <2>2, <3>1, HandlerMoves DEF IInv
      <4> QED
        BY <4>1, SentIsUnderWay
    <3> HIDE DEF Added, Removed
    <3>3. CASE k \in Creating /\ GroupCreate(r)
      <4>1. CASE UNCHANGED tableVars
        BY <4>1 DEF tableVars
      <4>2. CASE groups' = groups \cup {r} /\ members' = members \cup (Members[k] \X {r})
        <5>1. \A row \in Members[k] \X {r} : row[2] = r /\ row[1] \in Members[k]
          OBVIOUS
        <5>2. \A row \in Members[k] \X {r} : Added(row)
          BY <3>1, <3>2, <3>3, <5>1 DEF Added
        <5> QED
          BY <3>1, <3>2, <3>3, <4>2, <5>2
      <4> QED
        BY <3>1, <3>3, <4>1, <4>2 DEF GroupCreate, Fail
    <3>4. CASE k \in Joining /\ GroupJoin(r)
      <4>1. CASE UNCHANGED tableVars
        BY <4>1 DEF tableVars
      <4>2. CASE groups' = groups /\ members' = members \cup {Row(k)}
        <5>1. Added(Row(k))
          BY <3>2, <3>4 DEF Added
        <5> QED
          BY <4>2, <5>1
      <4> QED
        BY <3>1, <3>4, <4>1, <4>2 DEF GroupJoin, Fail
    <3>5. CASE k \in Quitting /\ GroupQuit(r)
      <4>1. CASE UNCHANGED tableVars
        BY <4>1 DEF tableVars
      <4>2. CASE groups' = groups /\ members' = members \ {Row(k)}
        <5>1. Removed(Row(k))
          BY <3>2, <3>5 DEF Removed
        <5> QED
          BY <4>2, <5>1
      <4> QED
        BY <3>1, <3>5, <4>1, <4>2 DEF GroupQuit
    <3> QED
      BY <2>2, <3>1, <3>3, <3>4, <3>5 DEF Handle
  <2> QED
    BY <2>1, <2>2, ClientMoves, SendMoves DEF Next, vars, tableVars, IInv
<1> QED
  BY <1>1, Invariance, PTL DEF Spec, NoGhostChange

\* GroupJoin's account stays a member until a GroupQuit for it is carried out.
THEOREM JoinedStays == Spec => []JoinedIsMember
<1>1. IInv => JoinedIsMember
  BY DEF IInv
<1> QED
  BY <1>1, Invariance, PTL

\* InsertGroupMessage stores a row for every member that was one all the time,
\* and for no other account than a member.
THEOREM FanOutCorrect == Spec => []FanOutCovers
<1>1. IInv => FanOutCovers
  BY DEF IInv, FanOutCovers, ReadIsCurrent, RowsAreRead
<1> QED
  BY <1>1, Invariance, PTL

-----------------------------------------------------------------------------
(* InsertGroupMessage implements MessageStore. *)

\* The rows of a message are those of the members that were read.
LEMMA FanOutRows ==
    ASSUME NEW s \in Sends, index' = index \cup FanOut(s)
    PROVE  rows' = rows \cup (send[s].read \X {s})
<1>1. \A r \in FanOut(s) : <<r[1], r[4]>> \in send[s].read \X {s}
  BY DEF FanOut
<1>2. ASSUME NEW p \in send[s].read \X {s} PROVE \E r \in FanOut(s) : <<r[1], r[4]>> = p
  <2> DEFINE row == <<p[1], IF p[1] = Sender[s] THEN 1 ELSE 0, <<p[1], send[s].group>>, s>>
  <2>1. row \in FanOut(s) /\ <<row[1], row[4]>> = p
    BY DEF FanOut
  <2> QED
    BY <2>1
<1> HIDE DEF FanOut
<1> QED
  BY <1>1, <1>2 DEF rows

\* A send stores its message at once, if at all, and nothing else touches the store.
LEMMA SendStores ==
    ASSUME IInv, NEW s \in Sends, SendStep(s)
    PROVE  Messages!Next \/ UNCHANGED <<content, rows>>
<1>1. CASE UNCHANGED <<content, index>>
  BY <1>1 DEF rows
<1>2. CASE /\ send[s].at = "insert" /\ send[s].read # {}
           /\ content' = content \cup {s} /\ index' = index \cup FanOut(s)
  <2>1. s \notin content
    BY <1>2 DEF IInv, RowsAreRead
  <2>2. send[s].read \in SUBSET Account
    BY FieldTypes DEF IInv
  <2>3. Messages!Insert(s, send[s].read)
    BY <1>2, <2>1, FanOutRows DEF Messages!Insert
  <2> QED
    BY <2>2, <2>3 DEF Messages!Next
<1> QED
  BY <1>1, <1>2 DEF SendStep, SendBegin, SendRead, SendInsert

\* A group message is stored once, with the rows of some accounts in the same step,
\* whatever calls, handlers and other messages do.
THEOREM GroupMessagesStored == Spec => ImplementsMessageStore
<1>1. Init => Messages!Init
  BY DEF Init, Messages!Init, rows
<1>2. IInv /\ [Next]_vars => [Messages!Next]_(Messages!vars)
  <2> SUFFICES ASSUME IInv, [Next]_vars
               PROVE  Messages!Next \/ UNCHANGED <<content, rows>>
    BY DEF Messages!vars
  <2>1. (\E k \in Call : ClientStep(k)) => UNCHANGED <<content, rows>>
    BY ClientMoves DEF IInv, sendVars, rows
  <2>2. ASSUME NEW r \in Request, Handle(r) PROVE UNCHANGED <<content, rows>>
    BY <2>2, HandlerMoves DEF IInv, sendVars, rows
  <2>3. UNCHANGED vars => UNCHANGED <<content, rows>>
    BY DEF vars, rows
  <2> QED
    BY <2>1, <2>2, <2>3, SendStores DEF Next
<1> QED
  BY <1>1, <1>2, Invariance, PTL DEF Spec, Messages!Spec, ImplementsMessageStore

=============================================================================
