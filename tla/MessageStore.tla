---------------------------- MODULE MessageStore ----------------------------
(***************************************************************************)
(* What the message service promises those that call it (the interface     *)
(* message.Message): a message is stored once and together with its rows,  *)
(* an account is shown messages of its rows only, and its read index is    *)
(* moved to messages it was shown, if its clients name no others.          *)
(***************************************************************************)

CONSTANTS Account, Message, Nil

VARIABLES
    kept,   \* the messages that are stored
    rows,   \* the rows of an account: <<account, message>>
    seen,   \* the messages an account was shown, by a push or by a list
    mark    \* the read index of an account

vars == <<kept, rows, seen, mark>>

Init ==
    /\ kept = {} /\ rows = {}
    /\ seen = [a \in Account |-> {}]
    /\ mark = [a \in Account |-> Nil]

\* InsertUser and InsertGroup: for the two parties, or for the members.
Insert(m, to) ==
    /\ m \notin kept
    /\ to # {}
    /\ kept' = kept \cup {m}
    /\ rows' = rows \cup (to \X {m})
    /\ UNCHANGED <<seen, mark>>

\* A stored message is pushed by the chat service.
Push(a, m) ==
    /\ <<a, m>> \in rows
    /\ seen' = [seen EXCEPT ![a] = @ \cup {m}]
    /\ UNCHANGED <<kept, rows, mark>>

\* The caller's part: it acknowledges a message it was shown.
SetAck(a, m) ==
    /\ m \in seen[a]
    /\ mark' = [mark EXCEPT ![a] = m]
    /\ UNCHANGED <<kept, rows, seen>>

\* A page, after the message m that the client says it has got so far, or after
\* the read index.
GetMessageIndex(a, page, m) ==
    /\ \A n \in page : <<a, n>> \in rows
    /\ m \in seen[a] \cup {mark[a]}
    /\ seen' = [seen EXCEPT ![a] = @ \cup page]
    /\ mark' = [mark EXCEPT ![a] = m]
    /\ UNCHANGED <<kept, rows>>

ExpireAck(a) ==
    /\ mark' = [mark EXCEPT ![a] = Nil]
    /\ UNCHANGED <<kept, rows, seen>>

Next ==
    \/ \E m \in Message, to \in SUBSET Account : Insert(m, to)
    \/ \E a \in Account :
          \/ ExpireAck(a)
          \/ \E m \in Message : Push(a, m) \/ SetAck(a, m)
          \/ \E page \in SUBSET Message, m \in Message \cup {Nil} : GetMessageIndex(a, page, m)

Spec == Init /\ [][Next]_vars

=============================================================================
