------------------------------- MODULE Group -------------------------------
(***************************************************************************)
(* Groups: the calls of GroupHttp, which repeat a request that is not      *)
(* answered in time, the message service that handles every request it     *)
(* gets, and InsertGroupMessage, which reads the members of a group in one *)
(* database and then stores a message for each of them in another.         *)
(*                                                                         *)
(* A handler does not look at the connection its request came on: it goes  *)
(* on when the caller has given up, and its request may be handled late.   *)
(* Every GroupCreate has a new id, so a group is named by its request.     *)
(***************************************************************************)
EXTENDS Naturals

CONSTANTS
    Account, Nil,
    Creating, Joining, Quitting,   \* calls of GroupHttp.Create, Join and Quit
    Who,       \* the account that a Join or a Quit names
    Members,   \* the accounts that a Create names
    Tries,     \* 1 + the retry count of NewGroupService
    Sends,     \* requests for InsertGroupMessage, and the messages they store
    Sender,    \* their senders
    Faults     \* the kinds of failure that may happen in a behaviour

Call == Creating \cup Joining \cup Quitting
Request == Call \X (1 .. Tries)
FaultKinds == {"net", "db"}

ASSUME GroupAssumption ==
    /\ Creating \cap (Joining \cup Quitting) = {} /\ Joining \cap Quitting = {}
    /\ Who \in [Joining \cup Quitting -> Account]
    /\ Members \in [Creating -> SUBSET Account]
    /\ Tries \in Nat \ {0}
    /\ Sender \in [Sends -> Account]
    /\ Nil \notin Request
    /\ Faults \subseteq FaultKinds

VARIABLES
    call,     \* a call of GroupHttp: where it stands, its try, its group
    handler,  \* the handler of each request
    groups,   \* table groups
    members,  \* table group_members: <<account, group>>
    send,     \* an InsertGroupMessage: where it stands, its group, its members
    content,  \* table message_contents: the messages stored
    index,    \* table message_indices: <<account_a, direction, message_id, the send it is of>>
    undone,   \* history: a Quit of its account and group was handled since the call began
    always,   \* history: the accounts that were members since the send began
    ever      \* history: the accounts that were members at a moment since then

tableVars == <<groups, members>>
sendVars  == <<send, content, index>>
historyVars == <<undone, always, ever>>
vars == <<call, handler, groups, members, send, content, index, undone, always, ever>>

CallType == [at : {"idle", "waiting", "ok", "error"}, try : 0 .. Tries,
             group : Request \cup {Nil}]
SendType == [at : {"idle", "read", "insert", "stored", "refused"},
             group : Request \cup {Nil}, read : SUBSET Account]

\* A row of group_members has an id of its own, never that of a message.
MemberId == Account \X Request

\* "exists": the row was there already, an error of the database like "failed".
Handling == {"none", "sent", "done", "exists", "failed"}

TypeOK ==
    /\ call \in [Call -> CallType]
    /\ handler \in [Request -> Handling]
    /\ groups \subseteq Request
    /\ members \subseteq MemberId
    /\ send \in [Sends -> SendType]
    /\ content \subseteq Sends
    /\ index \subseteq Account \X {0, 1} \X MemberId \X Sends
    /\ undone \in [Call -> BOOLEAN]
    /\ always \in [Sends -> SUBSET Account]
    /\ ever \in [Sends -> SUBSET Account]

Init ==
    /\ call = [k \in Call |-> [at |-> "idle", try |-> 0, group |-> Nil]]
    /\ handler = [r \in Request |-> "none"]
    /\ groups = {} /\ members = {} /\ content = {} /\ index = {}
    /\ send = [s \in Sends |-> [at |-> "idle", group |-> Nil, read |-> {}]]
    /\ undone = [k \in Call |-> FALSE]
    /\ always = [s \in Sends |-> {}]
    /\ ever = [s \in Sends |-> {}]

MembersOf(g) == {a \in Account : <<a, g>> \in members}

\* The groups somebody was told of.
Told == {call[k].group : k \in {c \in Creating : call[c].at = "ok"}}

-----------------------------------------------------------------------------
(* GroupHttp *)

\* Create, Join and Quit send their request and wait.
Start(k, g) ==
    /\ call[k].at = "idle"
    /\ IF k \in Creating THEN g = Nil ELSE g \in Told
    /\ call' = [call EXCEPT ![k] = [at |-> "waiting", try |-> 1, group |-> g]]
    /\ handler' = [handler EXCEPT ![<<k, 1>>] = "sent"]
    /\ UNCHANGED <<tableVars, sendVars, historyVars>>

Answered(k) ==
    LET r == <<k, call[k].try>>
        g == IF k \in Creating THEN r ELSE call[k].group
    IN  call' = [call EXCEPT ![k].at = IF handler[r] = "done" THEN "ok" ELSE "error",
                             ![k].group = g]

\* A faulty variant, to show which property depends on this step: the service
\* answers when it has accepted the request.
ReceiveAccepted(k) ==
    /\ call[k].at = "waiting"
    /\ IF handler[<<k, call[k].try>>] = "sent"
       THEN call' = [call EXCEPT ![k].at = "ok"]
       ELSE Answered(k)
    /\ UNCHANGED <<handler, tableVars, sendVars, historyVars>>

\* The answer to the request that is waited for: anything but 200 is an error.
Receive(k) ==
    /\ call[k].at = "waiting"
    /\ handler[<<k, call[k].try>>] \in {"done", "exists", "failed"}
    /\ Answered(k)
    /\ UNCHANGED <<handler, tableVars, sendVars, historyVars>>

\* No answer in time, or a broken connection: the client sends the request
\* again, or gives up.
Timeout(k) ==
    /\ "net" \in Faults
    /\ call[k].at = "waiting"
    /\ IF call[k].try < Tries
       THEN /\ call' = [call EXCEPT ![k].try = @ + 1]
            /\ handler' = [handler EXCEPT ![<<k, call[k].try + 1>>] = "sent"]
       ELSE /\ call' = [call EXCEPT ![k].at = "error"]
            /\ UNCHANGED handler
    /\ UNCHANGED <<tableVars, sendVars, historyVars>>

-----------------------------------------------------------------------------
(* The handlers of the message service, each one transaction or statement *)

Handled(r, h) == handler[r] = "sent" /\ handler' = [handler EXCEPT ![r] = h]

\* What the history makes of a change of the members.
Remember ==
    /\ always' = [s \in Sends |-> always[s] \cap {a \in Account : <<a, send[s].group>> \in members'}]
    /\ ever' = [s \in Sends |-> ever[s] \cup {a \in Account : <<a, send[s].group>> \in members'}]

\* A statement that fails leaves the tables as they were.
Fail(r) ==
    /\ "db" \in Faults
    /\ Handled(r, "failed")
    /\ UNCHANGED <<call, tableVars, sendVars, historyVars>>

\* A faulty variant, to show which property depends on this step: group and
\* members are not created in one transaction, and the second error is ignored.
GroupCreateHalf(r) ==
    /\ Handled(r, "done")
    /\ groups' = groups \cup {r}
    /\ \/ members' = members \cup (Members[r[1]] \X {r})
       \/ "db" \in Faults /\ UNCHANGED members
    /\ Remember
    /\ UNCHANGED <<call, sendVars, undone>>

\* A group without members is refused, as the database creates nothing of an
\* empty list.
GroupCreate(r) ==
    \/ /\ Members[r[1]] # {}
       /\ Handled(r, "done")
       /\ groups' = groups \cup {r}
       /\ members' = members \cup (Members[r[1]] \X {r})
       /\ Remember
       /\ UNCHANGED <<call, sendVars, undone>>
    \/ /\ Members[r[1]] = {}
       /\ Handled(r, "failed")
       /\ UNCHANGED <<call, tableVars, sendVars, historyVars>>
    \/ Fail(r)

Row(k) == <<Who[k], call[k].group>>

\* A faulty variant, to show which property depends on this step: a failed insert
\* is taken for the one that finds the row in place.
GroupJoinUnchecked(r) ==
    /\ Handled(r, IF Row(r[1]) \in members THEN "exists" ELSE "done")
    /\ \/ members' = members \cup {Row(r[1])}
       \/ "db" \in Faults /\ UNCHANGED members
    /\ Remember
    /\ UNCHANGED <<call, groups, sendVars, undone>>

\* Account and group are unique: a second insert fails.
GroupJoin(r) ==
    \/ /\ Handled(r, IF Row(r[1]) \in members THEN "exists" ELSE "done")
       /\ members' = members \cup {Row(r[1])}
       /\ Remember
       /\ UNCHANGED <<call, groups, sendVars, undone>>
    \/ Fail(r)

\* The body is read into a pointer to a pointer, which the reader for the
\* client's content type may refuse.
GroupQuit(r) ==
    \/ /\ Handled(r, "done")
       /\ members' = members \ {Row(r[1])}
       /\ undone' = [k \in Call |->
                       undone[k] \/ (k \in Joining /\ call[k].at # "idle" /\ Row(k) = Row(r[1]))]
       /\ Remember
       /\ UNCHANGED <<call, groups, sendVars>>
    \/ /\ Handled(r, "failed")
       /\ UNCHANGED <<call, tableVars, sendVars, historyVars>>

-----------------------------------------------------------------------------
(* InsertGroupMessage *)

SendBegin(s, g) ==
    /\ send[s].at = "idle"
    /\ g \in Told
    /\ send' = [send EXCEPT ![s] = [at |-> "read", group |-> g, read |-> {}]]
    /\ always' = [always EXCEPT ![s] = MembersOf(g)]
    /\ ever' = [ever EXCEPT ![s] = MembersOf(g)]
    /\ UNCHANGED <<call, handler, tableVars, content, index, undone>>

\* A faulty variant, to show which property depends on this step: the members are
\* those the group was created with.
SendReadCached(s) ==
    /\ send[s].at = "read"
    /\ send' = [send EXCEPT ![s].at = "insert", ![s].read = Members[send[s].group[1]]]
    /\ UNCHANGED <<call, handler, tableVars, content, index, historyVars>>

\* BaseDb: the members of the group.
SendRead(s) ==
    /\ send[s].at = "read"
    /\ \/ send' = [send EXCEPT ![s].at = "insert", ![s].read = MembersOf(send[s].group)]
       \/ "db" \in Faults /\ send' = [send EXCEPT ![s].at = "refused"]
    /\ UNCHANGED <<call, handler, tableVars, content, index, historyVars>>

\* The rows of a message that is for these members.  Each carries the id of the
\* member it is for where the id of the message belongs.
FanOut(s) ==
    {<<a, IF a = Sender[s] THEN 1 ELSE 0, <<a, send[s].group>>, s>> : a \in send[s].read}

\* A faulty variant, to show which property depends on this step: content and rows
\* are not stored in one transaction, and the second error is ignored.
SendInsertHalf(s) ==
    /\ send[s].at = "insert"
    /\ send' = [send EXCEPT ![s].at = "stored"]
    /\ content' = content \cup {s}
    /\ \/ index' = index \cup FanOut(s)
       \/ "db" \in Faults /\ UNCHANGED index
    /\ UNCHANGED <<call, handler, tableVars, historyVars>>

\* MessageDb: content and a row for each member in one transaction.  The list
\* of a group that everybody has left is empty, and refused.
SendInsert(s) ==
    /\ send[s].at = "insert"
    /\ \/ /\ send[s].read # {}
          /\ send' = [send EXCEPT ![s].at = "stored"]
          /\ content' = content \cup {s}
          /\ index' = index \cup FanOut(s)
       \/ /\ send[s].read = {} \/ "db" \in Faults
          /\ send' = [send EXCEPT ![s].at = "refused"]
          /\ UNCHANGED <<content, index>>
    /\ UNCHANGED <<call, handler, tableVars, historyVars>>

-----------------------------------------------------------------------------
ClientStep(k) ==
    \/ \E g \in Request \cup {Nil} : Start(k, g)
    \/ Receive(k)
    \/ Timeout(k)

Handle(r) ==
    \/ r[1] \in Creating /\ GroupCreate(r)
    \/ r[1] \in Joining /\ GroupJoin(r)
    \/ r[1] \in Quitting /\ GroupQuit(r)

SendStep(s) ==
    \/ \E g \in Request : SendBegin(s, g)
    \/ SendRead(s)
    \/ SendInsert(s)

Next ==
    \/ \E k \in Call : ClientStep(k)
    \/ \E r \in Request : Handle(r)
    \/ \E s \in Sends : SendStep(s)

Spec == Init /\ [][Next]_vars

-----------------------------------------------------------------------------
(* Properties *)

\* A Quit of the account from the group was carried out.
HasQuit(a, g) ==
    \E q \in Quitting, i \in 1 .. Tries : Row(q) = <<a, g>> /\ handler[<<q, i>>] = "done"

\* The group that Create returns is there with all of its members but those who
\* quit, whatever failed in the earlier tries.
ToldGroupIsWhole ==
    \A g \in Told :
        /\ g \in groups
        /\ \A a \in Members[g[1]] : <<a, g>> \in members \/ HasQuit(a, g)

\* A Join that was carried out, or refused because the account is in the group,
\* perhaps by an earlier try of its own, leaves the account in the group until
\* somebody quits for it, the late request of an earlier Quit included.
JoinedIsMember ==
    \A k \in Joining, i \in 1 .. Tries :
        handler[<<k, i>>] \in {"done", "exists"} /\ ~undone[k] => Row(k) \in members

\* A try of a call may still be under way: nobody was answered yet, or an earlier
\* try or the last one was given up.
GaveUp(k) == call[k].try > 1 \/ (call[k].at = "error" /\ handler[<<k, call[k].try>>] = "sent")

UnderWay(k) == call[k].at = "waiting" \/ GaveUp(k)

\* No row changes behind the back of its callers but by a request that was given
\* up: a member appears only by a Join of this account and group, or the Create of
\* the group that named it, and goes only by a Quit of it, a group appears only by
\* its Create, and each by a call that waits or that gave up a try.  A call that
\* was answered at its first try changes nothing any more.
NoGhostChange ==
    [][/\ \A row \in members' \ members :
             \/ \E k \in Joining : Row(k) = row /\ UnderWay(k)
             \/ \E k \in Creating : row[2][1] = k /\ row[1] \in Members[k] /\ UnderWay(k)
       /\ \A row \in members \ members' : \E k \in Quitting : Row(k) = row /\ UnderWay(k)
       /\ groups \subseteq groups'
       /\ \A g \in groups' \ groups : g[1] \in Creating /\ UnderWay(g[1])]_vars

\* A message has rows if and only if its content is stored, and then for all
\* accounts that were members while InsertGroupMessage handled it, and for none
\* that was not a member then.
RowsOf(s) == {row \in index : row[4] = s}

FanOutCovers ==
    \A s \in Sends :
        LET has == {row[1] : row \in RowsOf(s)}
        IN  IF s \in content
            THEN always[s] \subseteq has /\ has \subseteq ever[s]
            ELSE has = {}

\* model.go:21, message_id is "the ID in the message content table": what a member
\* of a group finds in the index leads him to a message.
RowsNameContent ==
    \A row \in index : row[3] \in content

\* The accounts that have a row of a message.
rows == {<<row[1], row[4]>> : row \in index}

\* Nobody is shown a message here, nor acknowledges one.
Messages == INSTANCE MessageStore WITH
    Message <- Sends, kept <- content,
    seen <- [a \in Account |-> {}], mark <- [a \in Account |-> Nil]

\* InsertGroupMessage stores a message once, with rows of some accounts, however
\* the group and the databases change or fail meanwhile.
ImplementsMessageStore == Messages!Spec

=============================================================================
