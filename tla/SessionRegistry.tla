-------------------------- MODULE SessionRegistry --------------------------
(***************************************************************************)
(* What the session storage (iface.ISessionStorage) promises the login and *)
(* chat services: a channel's session goes through its phases once, and    *)
(* the location of an account is moved only by a new session of that       *)
(* account, by the end of a session, or by expiry.                         *)
(***************************************************************************)

CONSTANTS Account, Channel, Owner, Nil

VARIABLES
    phase,   \* the session of each channel
    where    \* the location of each account

vars == <<phase, where>>

\* Phases are "new", "bound" (located, not stored yet), "active", "leaving"
\* (stored, no longer located) and "gone".
Init ==
    /\ phase = [c \in Channel |-> "new"]
    /\ where = [a \in Account |-> Nil]

\* The two halves of Add.
Bind(c) ==
    /\ phase[c] = "new"
    /\ phase' = [phase EXCEPT ![c] = "bound"]
    /\ where' = [where EXCEPT ![Owner[c]] = c]

Store(c) ==
    /\ phase[c] = "bound"
    /\ phase' = [phase EXCEPT ![c] = "active"]
    /\ UNCHANGED where

\* The two halves of Delete.  A session may expire after it was read and
\* before the location is deleted.
Unbind(c) ==
    /\ \/ phase[c] = "active" /\ phase' = [phase EXCEPT ![c] = "leaving"]
       \/ phase[c] = "gone" /\ UNCHANGED phase
    /\ where' = [where EXCEPT ![Owner[c]] = Nil]

Erase(c) ==
    /\ phase[c] = "leaving"
    /\ phase' = [phase EXCEPT ![c] = "gone"]
    /\ UNCHANGED where

\* A location expires before the session it leads to.
ExpireLocation(a) ==
    /\ where[a] # Nil
    /\ where' = [where EXCEPT ![a] = Nil]
    /\ UNCHANGED phase

ExpireSession(c) ==
    /\ phase[c] \in {"active", "leaving"}
    /\ where[Owner[c]] # c
    /\ phase' = [phase EXCEPT ![c] = "gone"]
    /\ UNCHANGED where

Next ==
    \/ \E c \in Channel : Bind(c) \/ Store(c) \/ Unbind(c) \/ Erase(c) \/ ExpireSession(c)
    \/ \E a \in Account : ExpireLocation(a)

Spec == Init /\ [][Next]_vars

=============================================================================
