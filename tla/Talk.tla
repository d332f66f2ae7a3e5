-------------------------------- MODULE Talk --------------------------------
(***************************************************************************)
(* A message from one user to another: the chat service's DoUserTalk, the  *)
(* message service's InsertUserMessage, MessageAck and                     *)
(* GetOfflineMessageIndex, and the session registry they run beside, of    *)
(* which only what SessionRegistry promises is used.                       *)
(*                                                                         *)
(* One DoUserTalk is one element of Talk, and so is the id of the message  *)
(* that it stores.  Message contents and index rows are never updated or   *)
(* deleted.  A message's time is read off the clock of the chat service    *)
(* that handles it; clocks of several services agree on nothing.           *)
(***************************************************************************)
EXTENDS Naturals, FiniteSets

CONSTANTS
    Account, Channel, Owner, Nil,   \* as in SessionRegistry
    Talk,      \* packets with the command of DoUserTalk
    From,      \* the channel a packet came from
    Dest,      \* the account it is for
    Reader,    \* accounts whose clients acknowledge and fetch messages
    MaxTime,   \* bound: times are 1 .. MaxTime
    PageSize,  \* wire.OfflineSyncIndexCount
    Faults     \* the kinds of failure that may happen in a behaviour

FaultKinds == {"redis", "db", "rpc", "push", "crash"}

ASSUME TalkAssumption ==
    /\ Owner \in [Channel -> Account]
    /\ From \in [Talk -> Channel]
    /\ Dest \in [Talk -> Account]
    /\ Reader \subseteq Account
    /\ Nil \notin Channel \cup Talk
    /\ MaxTime \in Nat /\ PageSize \in Nat \ {0}
    /\ Faults \subseteq FaultKinds

VARIABLES
    phase, where,  \* the session registry
    pc,        \* where DoUserTalk stands
    found,     \* its local loc
    sent,      \* its local sendTime; 0 before it is read
    moved,     \* history: the receiver's location changed since it was looked up
    content,   \* table message_contents: the messages stored
    index,     \* table message_indices: <<account_a, direction, message_id>>
    pushed,    \* messages dispatched: <<channel, message>>
    ack,       \* redis, chat:ack:<account>: the latest read message
    fetch      \* where GetOfflineMessageIndex for an account stands, and its locals

registryVars == <<phase, where>>
talkVars     == <<pc, found, sent>>
tableVars    == <<content, index>>
vars == <<phase, where, pc, found, sent, moved, content, index, pushed, ack, fetch>>

Registry == INSTANCE SessionRegistry

TalkEnd == {"answered", "refused", "crashed"}
TalkPc  == {"idle", "lookup", "insert", "dispatch", "resp"} \cup TalkEnd

Direction == {0, 1}   \* 1: account_a is the sender
Row == Account \X Direction \X Talk
Time == 1 .. MaxTime

\* GetOfflineMessageIndex between requests, and in one: the message id of the
\* request, the time it starts after, the page it has read, and what the client
\* was sent in the pages so far.
FetchType ==
    [at : {"idle", "query", "ack"}, id : Talk \cup {Nil}, start : Time \cup {0},
     page : SUBSET Talk, got : SUBSET Talk]

TypeOK ==
    /\ pc \in [Talk -> TalkPc]
    /\ found \in [Talk -> Channel \cup {Nil}]
    /\ sent \in [Talk -> Time \cup {0}]
    /\ moved \in [Talk -> BOOLEAN]
    /\ content \subseteq Talk
    /\ index \subseteq Row
    /\ pushed \subseteq Channel \X Talk
    /\ ack \in [Account -> Talk \cup {Nil}]
    /\ fetch \in [Account -> FetchType]
    /\ where \in [Account -> Channel \cup {Nil}]

NoFetch(got) == [at |-> "idle", id |-> Nil, start |-> 0, page |-> {}, got |-> got]

Init ==
    /\ Registry!Init
    /\ pc = [t \in Talk |-> "idle"]
    /\ found = [t \in Talk |-> Nil]
    /\ sent = [t \in Talk |-> 0]
    /\ moved = [t \in Talk |-> FALSE]
    /\ content = {} /\ index = {} /\ pushed = {}
    /\ ack = [a \in Account |-> Nil]
    /\ fetch = [a \in Account |-> NoFetch({})]

Goto(t, p) == pc' = [pc EXCEPT ![t] = p]

-----------------------------------------------------------------------------
(* DoUserTalk *)

\* The packet is routed to DoUserTalk once its sender's session was found.  The
\* error returns before the lookup read nothing and change nothing.
Receive(t) ==
    /\ pc[t] = "idle"
    /\ phase[From[t]] \in {"active", "leaving"}
    /\ Goto(t, "lookup")
    /\ UNCHANGED <<registryVars, found, sent, moved, tableVars, pushed, ack, fetch>>

\* A faulty variant, to show which property depends on this step: an error of
\* redis is taken for "not logged in".
LookupUnchecked(t) ==
    /\ pc[t] = "lookup"
    /\ \/ found' = [found EXCEPT ![t] = where[Dest[t]]]
       \/ "redis" \in Faults /\ UNCHANGED found
    /\ \E now \in Time : sent' = [sent EXCEPT ![t] = now]
    /\ Goto(t, "insert")
    /\ UNCHANGED <<registryVars, moved, tableVars, pushed, ack, fetch>>

\* ctx.GetLocation(receiver), then time.Now().
Lookup(t) ==
    /\ pc[t] = "lookup"
    /\ \/ /\ found' = [found EXCEPT ![t] = where[Dest[t]]]
          /\ \E now \in Time : sent' = [sent EXCEPT ![t] = now]
          /\ Goto(t, "insert")
       \/ /\ "redis" \in Faults
          /\ Goto(t, "refused")
          /\ UNCHANGED <<found, sent>>
    /\ UNCHANGED <<registryVars, moved, tableVars, pushed, ack, fetch>>

\* The rows of a message: one for the receiver, one for the sender.
Rows(t) == {<<Dest[t], 0, t>>, <<Owner[From[t]], 1, t>>}

Store(t) == content' = content \cup {t} /\ index' = index \cup Rows(t)

\* A faulty variant, to show which property depends on this step: the error of
\* InsertUser is not returned.
InsertUnchecked(t) ==
    /\ pc[t] = "insert"
    /\ \/ Store(t)
       \/ "db" \in Faults /\ UNCHANGED tableVars
    /\ Goto(t, "dispatch")
    /\ UNCHANGED <<registryVars, found, sent, moved, pushed, ack, fetch>>

\* msgService.InsertUser, answered by InsertUserMessage: content and index in
\* one transaction, which may fail, and the answer may get lost.
Insert(t) ==
    /\ pc[t] = "insert"
    /\ \/ Store(t) /\ Goto(t, "dispatch")
       \/ "db" \in Faults /\ Goto(t, "refused") /\ UNCHANGED tableVars
       \/ "rpc" \in Faults /\ Goto(t, "refused") /\ Store(t)
    /\ UNCHANGED <<registryVars, found, sent, moved, pushed, ack, fetch>>

\* ctx.Dispatch(MessagePush, loc), which leaves out the session's own channel.
Dispatch(t) ==
    /\ pc[t] = "dispatch"
    /\ \/ /\ pushed' = IF found[t] \in {Nil, From[t]}
                       THEN pushed ELSE pushed \cup {<<found[t], t>>}
          /\ Goto(t, "resp")
       \/ /\ "push" \in Faults /\ found[t] \notin {Nil, From[t]}
          /\ Goto(t, "refused")
          /\ UNCHANGED pushed
    /\ UNCHANGED <<registryVars, found, sent, moved, tableVars, ack, fetch>>

\* ctx.Resp(Status_Success, MessageResp).
Respond(t) ==
    /\ pc[t] = "resp"
    /\ Goto(t, "answered")
    /\ UNCHANGED <<registryVars, found, sent, moved, tableVars, pushed, ack, fetch>>

\* The process of the handler dies.
Crash(t) ==
    /\ "crash" \in Faults
    /\ pc[t] \in {"lookup", "insert", "dispatch", "resp"}
    /\ Goto(t, "crashed")
    /\ UNCHANGED <<registryVars, found, sent, moved, tableVars, pushed, ack, fetch>>

-----------------------------------------------------------------------------
(* The read index and the offline messages *)

\* The messages a client of the account has seen.
Known(a) == fetch[a].got \cup {m \in Talk : \E c \in Channel : Owner[c] = a /\ <<c, m>> \in pushed}

\* MessageAck stores the id of the request, whatever it is and was stored before.
MessageAck(a, m) ==
    /\ ack' = [ack EXCEPT ![a] = m]
    /\ UNCHANGED <<registryVars, talkVars, moved, tableVars, pushed, fetch>>

\* The read index lives wire.OfflineReadIndexExpiresIn.
ExpireAck(a) ==
    /\ ack[a] # Nil
    /\ ack' = [ack EXCEPT ![a] = Nil]
    /\ UNCHANGED <<registryVars, talkVars, moved, tableVars, pushed, fetch>>

\* getSentTime: the time of the message of the request, or of the read index for a
\* cold start, where an error of redis passes for no index.  Without a message it
\* is before all that are kept; when the message is not found, an error of the
\* database included, it is a day ago, with any messages before it.
SentTime(a, id) ==
    LET m == IF id = Nil THEN ack[a] ELSE id
    IN  CASE m = Nil -> {0}
          [] m # Nil /\ m \in content -> {sent[m]}
          [] OTHER -> Time \cup {0}

Hidden(a, id) ==
    (IF "redis" \in Faults /\ id = Nil THEN {0} ELSE {})
        \cup (IF "db" \in Faults /\ {id, ack[a]} # {Nil} THEN Time \cup {0} ELSE {})

\* GetOfflineMessageIndex begins.
FetchStart(a, id) ==
    /\ fetch[a].at = "idle"
    /\ \E s \in SentTime(a, id) \cup Hidden(a, id) :
          fetch' = [fetch EXCEPT ![a].at = "query", ![a].id = id, ![a].start = s]
    /\ UNCHANGED <<registryVars, talkVars, moved, tableVars, pushed, ack>>

\* The query: rows of the account after the start, the earliest first, a page at
\* most.  Its condition ends "and direction" with no operator, so that it keeps
\* the rows whose direction is 1; the argument that is left over may also make
\* the driver refuse the query.
FetchQuery(a) ==
    /\ fetch[a].at = "query"
    /\ LET new == {m \in content : <<a, 1, m>> \in index /\ sent[m] > fetch[a].start}
       IN  \/ \E page \in SUBSET new :
                 /\ Cardinality(page) <= PageSize
                 /\ Cardinality(page) < PageSize => page = new
                 /\ \A m \in page, n \in new \ page : sent[m] <= sent[n]
                 /\ fetch' = [fetch EXCEPT ![a].at = "ack", ![a].page = page]
           \/ fetch' = [fetch EXCEPT ![a] = NoFetch(@.got)]
    /\ UNCHANGED <<registryVars, talkVars, moved, tableVars, pushed, ack>>

\* setMessageAck with the id of the request, nothing for a cold start; then the
\* page is answered.
FetchAck(a) ==
    /\ fetch[a].at = "ack"
    /\ \/ /\ ack' = IF fetch[a].id = Nil THEN ack ELSE [ack EXCEPT ![a] = fetch[a].id]
          /\ fetch' = [fetch EXCEPT ![a] = NoFetch(@.got \cup @.page)]
       \/ /\ "redis" \in Faults
          /\ fetch' = [fetch EXCEPT ![a] = NoFetch(@.got)]
          /\ UNCHANGED ack
    /\ UNCHANGED <<registryVars, talkVars, moved, tableVars, pushed>>

\* An assumption on the clients, of which the service checks nothing: the ids that
\* they send, late or twice perhaps, are those of messages they were shown.
ClientAcks(a, m) == m \in Known(a) /\ MessageAck(a, m)

ClientFetches(a, id) == id \in Known(a) \cup {Nil} /\ FetchStart(a, id)

-----------------------------------------------------------------------------
\* Sessions come and go meanwhile.
RegistryStep ==
    /\ Registry!Next
    /\ moved' = [t \in Talk |->
                   moved[t] \/ (sent[t] # 0 /\ where'[Dest[t]] # where[Dest[t]])]
    /\ UNCHANGED <<talkVars, tableVars, pushed, ack, fetch>>

TalkStep(t) ==
    \/ Receive(t) \/ Lookup(t) \/ Insert(t) \/ Dispatch(t) \/ Respond(t) \/ Crash(t)

ReadStep(a) ==
    \/ ExpireAck(a) \/ FetchQuery(a) \/ FetchAck(a)
    \/ \E id \in Talk \cup {Nil} : ClientFetches(a, id)
    \/ \E m \in Talk : ClientAcks(a, m)

Next ==
    \/ RegistryStep
    \/ \E t \in Talk : TalkStep(t)
    \/ \E a \in Reader : ReadStep(a)

Spec == Init /\ [][Next]_vars

-----------------------------------------------------------------------------
(* Properties *)

\* A sender who was answered can forget the message: its content and both rows
\* are stored, and it was pushed to the location DoUserTalk had found.
AnsweredIsKept ==
    \A t \in Talk : pc[t] = "answered" =>
        /\ t \in content /\ Rows(t) \subseteq index
        /\ found[t] \in {Nil, From[t]} \/ <<found[t], t>> \in pushed

\* A message is stored before it is pushed, and is pushed to its receiver only:
\* whoever sees one can acknowledge it and find it again.
PushedIsStored ==
    \A c \in Channel, t \in Talk : <<c, t>> \in pushed =>
        t \in content /\ Owner[c] = Dest[t] /\ c # From[t]

\* A receiver who is logged in when the sender is answered was sent the message,
\* unless his location changed while DoUserTalk ran or after: no failure of redis
\* or of the push is passed over in silence.
MissedOnlyByMove ==
    \A t \in Talk :
        pc[t] = "answered" /\ ~moved[t] /\ where[Dest[t]] \notin {Nil, From[t]}
            => <<where[Dest[t]], t>> \in pushed

\* If its clients acknowledge only what they were shown (ClientAcks), the read
\* index of an account names a stored message that the account sent or received,
\* so getSentTime finds the time of it, however pushes, acknowledgements and
\* fetches of several devices overlap: nothing is shown before it is stored.
AckNamesContent ==
    \A a \in Account : ack[a] # Nil =>
        ack[a] \in content /\ a \in {Dest[ack[a]], Owner[From[ack[a]]]}

\* The messages that the clients of an account were shown.
seen == [a \in Account |-> Known(a)]

\* The accounts that have a row of a message.
rows == {<<row[1], row[3]>> : row \in index}

Messages == INSTANCE MessageStore WITH Message <- Talk, kept <- content, mark <- ack

\* DoUserTalk, the read index and the offline list, call by call and with all
\* that may fail, keep what the message service promises: a message is stored
\* once, shown to its two parties only and after it was stored, and the read
\* index follows what its account was shown, if its clients send no other ids.
ImplementsMessageStore == Messages!Spec

=============================================================================
